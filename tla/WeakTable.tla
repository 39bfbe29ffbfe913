------------------------------- MODULE WeakTable -------------------------------
(***************************************************************************)
(* weak_table (containers/weak_table.h): values that are in a table as     *)
(* long as their tickets live.  Table and ticket share a cell on the heap, *)
(* to which m_collection points: its address is the value's key, its       *)
(* content the way back to the table, which clear() takes away.  A ticket  *)
(* frees its cell, and the next cell may get the same address.             *)
(*                                                                         *)
(* Every element of Objects is a ticket's storage on the program's side:   *)
(* tickets are made there by insert or by a move from another, and are     *)
(* destroyed there, the shells that moves leave included.                  *)
(***************************************************************************)
CONSTANTS
    Objects,
    Addresses,      \* of cells on the heap
    NoAddress       \* nullptr

WeakTableAssumption ==
    NoAddress \notin Addresses /\ "none" \notin Addresses \cup {NoAddress}

VARIABLES
    alive,      \* whether the table is
    map,        \* m_map: the addresses that are keys
    cell,       \* cell[a]: "free", "table" (points to the table) or "null"
    ticket,     \* ticket[o]: "none", or m_collection of the ticket there
    passed,     \* the keys apply_to_all has come past
    current     \* the one it is at; "none" while it is not running, NoAddress
                \* between two calls of its callable

vars == <<alive, map, cell, ticket, passed, current>>

TypeOK ==
    /\ alive \in BOOLEAN
    /\ map \subseteq Addresses
    /\ cell \in [Addresses -> {"free", "table", "null"}]
    /\ ticket \in [Objects -> Addresses \cup {NoAddress, "none"}]
    /\ passed \subseteq Addresses
    /\ current \in Addresses \cup {NoAddress, "none"}

Init ==
    /\ alive = TRUE
    /\ map = {}
    /\ cell = [a \in Addresses |-> "free"]
    /\ ticket = [o \in Objects |-> "none"]
    /\ passed = {} /\ current = "none"

\* The program's code runs outside apply_to_all or in its callable.
CallerRuns == current # NoAddress

-----------------------------------------------------------------------------
(* Definitions named "Bug..." are wrong variants of the one that follows; no *)
(* action uses them.                                                         *)

\* insert, with the constructor of the ticket.  The new key's place in the
\* order of the addresses decides whether a running apply_to_all comes to it.
Insert(o) ==
    /\ alive /\ CallerRuns /\ ticket[o] = "none"
    /\ \E a \in {x \in Addresses : cell[x] = "free"} :
         /\ cell' = [cell EXCEPT ![a] = "table"]
         /\ map' = map \cup {a}
         /\ ticket' = [ticket EXCEPT ![o] = a]
         /\ passed' \in IF current = "none" THEN {{}} ELSE {passed, passed \cup {a}}
    /\ UNCHANGED <<alive, current>>

MoveTicket(o, p) ==
    /\ CallerRuns /\ ticket[o] = "none" /\ ticket[p] # "none"
    /\ ticket' = [ticket EXCEPT ![o] = ticket[p], ![p] = NoAddress]
    /\ UNCHANGED <<alive, map, cell, passed, current>>

DestroyShell(o) ==
    /\ CallerRuns /\ ticket[o] = NoAddress
    /\ ticket' = [ticket EXCEPT ![o] = "none"]
    /\ UNCHANGED <<alive, map, cell, passed, current>>

\* A destructor that does not ask whether the table is still there.
BugErased(a) == map

\* ptr->erase
Erased(a) == IF cell[a] = "table" THEN map \ {a} ELSE map

\* A callable keeps the entry it is called for, on which the loop's iterator
\* stands; nothing in the class sees to it.
DestroyTicket(o) ==
    /\ CallerRuns /\ ticket[o] \in Addresses
    /\ ticket[o] # current
    /\ map' = Erased(ticket[o])
    /\ cell' = [cell EXCEPT ![ticket[o]] = "free"]
    /\ ticket' = [ticket EXCEPT ![o] = "none"]
    /\ passed' = passed \ {ticket[o]}
    /\ UNCHANGED <<alive, current>>

CutOff == [a \in Addresses |-> IF a \in map THEN "null" ELSE cell[a]]

Clear ==
    /\ alive /\ current = "none"
    /\ cell' = CutOff
    /\ map' = {}
    /\ UNCHANGED <<alive, ticket, passed, current>>

\* The destructor of the table.
DestroyTable ==
    /\ alive /\ current = "none"
    /\ cell' = CutOff
    /\ map' = {}
    /\ alive' = FALSE
    /\ UNCHANGED <<ticket, passed, current>>

BeginApply ==
    /\ alive /\ current = "none"
    /\ current' = NoAddress
    /\ UNCHANGED <<alive, map, cell, ticket, passed>>

\* The order is that of the addresses, which nobody chooses.
ApplyNext ==
    /\ current = NoAddress
    /\ \E a \in map \ passed :
         passed' = passed \cup {a} /\ current' = a
    /\ UNCHANGED <<alive, map, cell, ticket>>

\* The callable returns, and the iterator moves on from the entry it is at.
CallableReturns ==
    /\ current \in Addresses
    /\ current' = NoAddress
    /\ UNCHANGED <<alive, map, cell, ticket, passed>>

ApplyReturns ==
    /\ current = NoAddress /\ map \subseteq passed
    /\ current' = "none" /\ passed' = {}
    /\ UNCHANGED <<alive, map, cell, ticket>>

Next ==
    \/ \E o, p \in Objects :
         Insert(o) \/ MoveTicket(o, p) \/ DestroyShell(o) \/ DestroyTicket(o)
    \/ Clear \/ DestroyTable
    \/ BeginApply \/ ApplyNext \/ CallableReturns \/ ApplyReturns

Spec == Init /\ [][Next]_vars

-----------------------------------------------------------------------------
(***************************************************************************)
(* A cell belongs to one ticket, and leads to the table exactly as long as *)
(* the table lives and holds its entry: a ticket that dies after a clear   *)
(* or after the table, was moved, or got the address of an earlier one,    *)
(* removes its own value or nothing.                                       *)
(***************************************************************************)
CellsLead ==
    /\ \A a \in Addresses :
         /\ (cell[a] # "free") <=> (\E o \in Objects : ticket[o] = a)
         /\ (cell[a] = "table") <=> (a \in map)
    /\ ~alive => map = {}

TicketsFindTheirTable ==
    /\ CellsLead
    /\ \A o, p \in Objects : ticket[o] = ticket[p] /\ ticket[o] \in Addresses => o = p

\* It is inductive with the types.
Inv == TypeOK /\ TicketsFindTheirTable
=============================================================================
