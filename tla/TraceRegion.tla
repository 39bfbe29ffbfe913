------------------------------ MODULE TraceRegion ------------------------------
(***************************************************************************)
(* trace_region (tracing/trace_region.h of Windows, Android, Apple and     *)
(* Unix): an object that brackets an interval of a trace.  It is moved, by *)
(* construction and by assignment, and whoever holds the interval last     *)
(* ends it.  On Windows each region also shares in the registration of the *)
(* trace provider, which the last of them takes back.  s_registration is a *)
(* plain shared_ptr, which constructors copy while the switches assign it: *)
(* the copy is two steps, between which anything may happen.               *)
(*                                                                         *)
(* Every element of Regions is one object; it is constructed once.  One    *)
(* thread calls enable and disable, any thread the rest.                   *)
(***************************************************************************)
EXTENDS Integers, Sequences, FiniteSets

CONSTANTS
    Regions,
    Names,
    NoName,         \* the empty string
    Cookies         \* cookies are 0 .. Cookies - 1 and wrap around; 0 is none

TraceAssumption ==
    /\ Cookies \in Nat \ {0, 1}
    /\ NoName \notin Names

VARIABLES
    build,          \* "windows", "android" or "apple"
    enabled,        \* s_enabled
    nextCookie,     \* s_nextCookie, or what the system generates its ids from
    session,        \* s_registration: the number of the shared object, or 0
    sessions,       \* how many there have been
    uses,           \* uses[s]: the count of references to the object of session s
    registered,     \* the provider, as the system sees it
    control,        \* where the controlling thread is
    copy,           \* copy[r]: what r's constructor has read of s_registration
    ending,         \* the regions whose thread is in ~ProviderRegistration
    region,         \* region[r]: the object
    events,         \* what was written to the trace
    overtaken,      \* for the properties: whether disable emptied s_registration
                    \* under a constructor,
    restarted       \* and whether enable found regions of an earlier session

history == <<overtaken, restarted>>
provider == <<session, sessions, uses, registered, control, copy, ending, history>>
switches == <<enabled, provider>>
vars == <<build, switches, nextCookie, region, events>>

Unborn == [life |-> "unborn", cookie |-> 0, name |-> NoName, registration |-> 0]

MaxSessions == 2    \* bounds the calls of enable

Unread == -1
Controls == {"idle", "enabling", "disabling", "releasing", "unregistering"}

RegionStates == [life : {"unborn", "constructing", "alive", "destroyed"},
                 cookie : 0 .. Cookies - 1, name : Names \cup {NoName},
                 registration : 0 .. MaxSessions]

EventStates == [what : {"begin", "end"}, cookie : 0 .. Cookies - 1, name : Names \cup {NoName}]

TypeOK ==
    /\ build \in {"windows", "android", "apple"}
    /\ enabled \in BOOLEAN /\ registered \in BOOLEAN
    /\ nextCookie \in 0 .. Cookies - 1
    /\ sessions \in 0 .. MaxSessions /\ session \in 0 .. sessions
    /\ uses \in [1 .. MaxSessions -> Int]
    /\ control \in Controls
    /\ copy \in [Regions -> {Unread} \cup 0 .. MaxSessions]
    /\ ending \in SUBSET Regions
    /\ overtaken \in BOOLEAN /\ restarted \in BOOLEAN
    /\ region \in [Regions -> RegionStates]
    /\ events \in Seq(EventStates)

\* The cookies were drawn from before, by regions that are gone.
Init ==
    /\ build \in {"windows", "android", "apple"}
    /\ enabled = FALSE /\ registered = FALSE
    /\ nextCookie \in 0 .. Cookies - 1
    /\ session = 0 /\ sessions = 0 /\ uses = [s \in 1 .. MaxSessions |-> 0]
    /\ control = "idle" /\ ending = {}
    /\ copy = [r \in Regions |-> 0]
    /\ overtaken = FALSE /\ restarted = FALSE
    /\ region = [r \in Regions |-> Unborn]
    /\ events = <<>>

Alive(r) == region[r].life = "alive"

\* An active region; a moved-from one is none.
IsActive(r) == Alive(r) /\ region[r].cookie # 0

\* (Definitions named "Bug..." are wrong variants of the one that follows; no
\* action uses them.)  A region that borrows the registration uncounted.
BugRaised(s) == uses

Raised(s) == IF s = 0 THEN uses ELSE [uses EXCEPT ![s] = @ + 1]
Lowered(s) == IF s = 0 THEN uses ELSE [uses EXCEPT ![s] = @ - 1]

\* Who gives up the last reference goes on to unregister the provider.
IsLast(s) == s # 0 /\ uses[s] = 1

\* The thread of r gives up a reference to the object of session s.
GivesUp(r, s) ==
    /\ uses' = Lowered(s)
    /\ ending' = IF IsLast(s) THEN ending \cup {r} ELSE ending
    /\ UNCHANGED <<session, sessions, registered, control, copy, history>>

Written(what, r) == [what |-> what, cookie |-> r.cookie, name |-> r.name]

\* An active region writes its end.
Ended(r) == IF r.cookie = 0 THEN events ELSE Append(events, Written("end", r))

-----------------------------------------------------------------------------
(* enable and disable: the flag on one side, the registration on the other. *)

\* TraceLoggingRegister, and the assignment of s_registration.
WindowsEnable ==
    /\ build = "windows" /\ control = "idle" /\ ~enabled
    /\ sessions < MaxSessions
    /\ registered' = TRUE
    /\ sessions' = sessions + 1
    /\ session' = sessions + 1
    /\ uses' = [uses EXCEPT ![sessions + 1] = 1]
    /\ control' = "enabling"
    /\ restarted' = (restarted \/ ending # {} \/ \E r \in Regions : region[r].registration # 0)
    /\ UNCHANGED <<build, enabled, nextCookie, copy, ending, region, events, overtaken>>

WindowsEnabled ==
    /\ control = "enabling"
    /\ enabled' = TRUE /\ control' = "idle"
    /\ UNCHANGED <<build, nextCookie, session, sessions, uses, registered, copy, ending, region,
                   events, history>>

WindowsDisable ==
    /\ build = "windows" /\ control = "idle" /\ enabled
    /\ enabled' = FALSE
    /\ control' = "disabling"
    /\ UNCHANGED <<build, nextCookie, session, sessions, uses, registered, copy, ending, region,
                   events, history>>

\* s_registration.reset() empties the pointer, then gives up what it referred
\* to, the object of the last session.
WindowsReset ==
    /\ control = "disabling"
    /\ session' = 0 /\ control' = "releasing"
    /\ overtaken' = (overtaken \/ \E r \in Regions :
                        region[r].life = "constructing" /\ region[r].cookie # 0)
    /\ UNCHANGED <<build, enabled, nextCookie, sessions, uses, registered, copy, ending, region,
                   events, restarted>>

WindowsRelease ==
    /\ control = "releasing"
    /\ uses' = Lowered(sessions)
    /\ control' = IF IsLast(sessions) THEN "unregistering" ELSE "idle"
    /\ UNCHANGED <<build, enabled, nextCookie, session, sessions, registered, copy, ending, region,
                   events, history>>

\* ~ProviderRegistration, on the thread of the switches or on a region's.
WindowsUnregister ==
    /\ \/ control = "unregistering" /\ control' = "idle" /\ UNCHANGED ending
       \/ \E r \in ending : ending' = ending \ {r} /\ UNCHANGED control
    /\ registered' = FALSE
    /\ UNCHANGED <<build, enabled, nextCookie, session, sessions, uses, copy, region, events,
                   history>>

AndroidSwitch ==
    /\ build = "android" /\ sessions < MaxSessions
    /\ enabled' = ~enabled
    /\ sessions' = sessions + (IF enabled THEN 0 ELSE 1)
    /\ UNCHANGED <<build, nextCookie, session, uses, registered, control, copy, ending, region,
                   events, history>>

AppleSwitch ==
    /\ build = "apple" /\ sessions < MaxSessions
    /\ enabled' = ~enabled
    /\ sessions' = sessions + (IF enabled THEN 0 ELSE 1)
    /\ UNCHANGED <<build, nextCookie, session, uses, registered, control, copy, ending, region,
                   events, history>>

-----------------------------------------------------------------------------
(* Construction. *)

Following(c) == (c + 1) % Cookies

\* s_enabled is read, and a cookie drawn, before s_registration is copied.
WindowsTakeCookie(r, name) ==
    /\ build = "windows" /\ region[r] = Unborn
    /\ LET cookie == IF enabled THEN nextCookie ELSE 0 IN
       /\ region' = [region EXCEPT ![r].life = "constructing", ![r].cookie = cookie,
                       ![r].name = IF cookie # 0 THEN name ELSE NoName]
       /\ copy' = [copy EXCEPT ![r] = IF cookie # 0 THEN Unread ELSE 0]
    /\ nextCookie' = IF enabled THEN Following(nextCookie) ELSE nextCookie
    /\ UNCHANGED <<build, enabled, session, sessions, uses, registered, control, ending, events,
                   history>>

\* The copy constructor of shared_ptr reads where the count is,
WindowsReadCount(r) ==
    /\ region[r].life = "constructing" /\ copy[r] = Unread
    /\ copy' = [copy EXCEPT ![r] = session]
    /\ UNCHANGED <<build, enabled, nextCookie, session, sessions, uses, registered, control, ending,
                   region, events, history>>

\* and raises it, whatever became of it.  The new pointer is what was read then,
\* or, where the build reads it again, what is there now.
WindowsConstruct(r) ==
    /\ region[r].life = "constructing" /\ copy[r] # Unread
    /\ \E s \in IF region[r].cookie = 0 THEN {0} ELSE {copy[r], session} :
         region' = [region EXCEPT ![r].life = "alive", ![r].registration = s]
    /\ uses' = Raised(copy[r])
    /\ copy' = [copy EXCEPT ![r] = 0]
    /\ events' = IF region[r].cookie = 0 THEN events
                 ELSE Append(events, Written("begin", region[r]))
    /\ UNCHANGED <<build, enabled, nextCookie, session, sessions, registered, control, ending,
                   history>>

AndroidConstruct(r, name) ==
    /\ build = "android" /\ region[r] = Unborn
    /\ LET active == enabled /\ nextCookie # 0
           new == [Unborn EXCEPT !.life = "alive",
                     !.cookie = IF active THEN nextCookie ELSE 0,
                     !.name = IF active THEN name ELSE NoName]
       IN  /\ region' = [region EXCEPT ![r] = new]
           /\ events' = IF active THEN Append(events, Written("begin", new)) ELSE events
    /\ nextCookie' = IF enabled THEN Following(nextCookie) ELSE nextCookie
    /\ UNCHANGED <<build, switches>>

\* The system's ids are never the null id, and the name is not kept.
AppleConstruct(r) ==
    /\ build = "apple" /\ region[r] = Unborn
    /\ LET id == IF nextCookie = 0 THEN 1 ELSE nextCookie
           new == [Unborn EXCEPT !.life = "alive", !.cookie = IF enabled THEN id ELSE 0]
       IN  /\ region' = [region EXCEPT ![r] = new]
           /\ events' = IF enabled THEN Append(events, Written("begin", new)) ELSE events
           /\ nextCookie' = IF enabled THEN Following(id) ELSE nextCookie
    /\ UNCHANGED <<build, switches>>

-----------------------------------------------------------------------------
(* Moves and destruction. *)

\* A move that leaves the source active.
BugMovedFrom(r) == [r EXCEPT !.name = NoName, !.registration = 0]

\* What a move leaves in its source.
MovedFrom(r) == [r EXCEPT !.cookie = 0, !.name = NoName, !.registration = 0]

\* On Android and Windows r takes everything over; on Apple there is only the id.
MoveConstruct(r, from) ==
    /\ region[r] = Unborn /\ Alive(from)
    /\ region' = [region EXCEPT ![r] = region[from], ![from] = MovedFrom(@)]
    /\ UNCHANGED <<build, nextCookie, switches, events>>

\* (A region is not used while its thread is in ~ProviderRegistration for it.)
WindowsMoveConstruct(r, from) ==
    build = "windows" /\ from \notin ending /\ MoveConstruct(r, from)
AndroidMoveConstruct(r, from) == build = "android" /\ MoveConstruct(r, from)
AppleMoveConstruct(r, from) == build = "apple" /\ MoveConstruct(r, from)

\* The interval r had ends.  (Assigning a region to itself returns at once.)
MoveAssign(r, from) ==
    /\ Alive(r) /\ Alive(from) /\ r # from
    /\ events' = Ended(region[r])
    /\ region' = [region EXCEPT ![r] = region[from], ![from] = MovedFrom(@)]

\* The registration r had is given up as the other one is moved into its place.
WindowsMoveAssign(r, from) ==
    /\ build = "windows" /\ r \notin ending /\ from \notin ending
    /\ MoveAssign(r, from)
    /\ GivesUp(r, region[r].registration)
    /\ UNCHANGED <<build, enabled, nextCookie>>

AndroidMoveAssign(r, from) ==
    /\ build = "android" /\ MoveAssign(r, from) /\ UNCHANGED <<build, nextCookie, switches>>

AppleMoveAssign(r, from) ==
    /\ build = "apple" /\ MoveAssign(r, from) /\ UNCHANGED <<build, nextCookie, switches>>

Destroy(r) ==
    /\ Alive(r)
    /\ events' = Ended(region[r])
    /\ region' = [region EXCEPT ![r] = [MovedFrom(@) EXCEPT !.life = "destroyed"]]

WindowsDestroy(r) ==
    /\ build = "windows" /\ r \notin ending
    /\ Destroy(r)
    /\ GivesUp(r, region[r].registration)
    /\ UNCHANGED <<build, enabled, nextCookie>>

AndroidDestroy(r) ==
    build = "android" /\ Destroy(r) /\ UNCHANGED <<build, nextCookie, switches>>

AppleDestroy(r) ==
    build = "apple" /\ Destroy(r) /\ UNCHANGED <<build, nextCookie, switches>>

Windows(r, from) ==
    \/ \E n \in Names : WindowsTakeCookie(r, n)
    \/ WindowsReadCount(r) \/ WindowsConstruct(r) \/ WindowsDestroy(r)
    \/ WindowsMoveConstruct(r, from) \/ WindowsMoveAssign(r, from)

Android(r, from) ==
    \/ \E n \in Names : AndroidConstruct(r, n)
    \/ AndroidDestroy(r)
    \/ AndroidMoveConstruct(r, from) \/ AndroidMoveAssign(r, from)

Apple(r, from) ==
    \/ AppleConstruct(r) \/ AppleDestroy(r)
    \/ AppleMoveConstruct(r, from) \/ AppleMoveAssign(r, from)

Next ==
    \/ WindowsEnable \/ WindowsEnabled
    \/ WindowsDisable \/ WindowsReset \/ WindowsRelease \/ WindowsUnregister
    \/ AndroidSwitch \/ AppleSwitch
    \/ \E r, from \in Regions : Windows(r, from) \/ Android(r, from) \/ Apple(r, from)

Spec == Init /\ [][Next]_vars

-----------------------------------------------------------------------------
(***************************************************************************)
(* Intervals pair up: a cookie's events alternate between begin and end,   *)
(* an end carries the name of its begin, and the last one is open exactly  *)
(* while one object holds it, through whatever moves, assignments and      *)
(* changes of the switches.                                                *)
(***************************************************************************)
Follows(trace, i, j) ==
    /\ i < j /\ trace[i].cookie = trace[j].cookie
    /\ \A k \in i + 1 .. j - 1 : trace[k].cookie # trace[j].cookie

EndsItsBegin(trace, j) ==
    \E i \in DOMAIN trace :
      Follows(trace, i, j) /\ trace[i].what = "begin" /\ trace[i].name = trace[j].name

\* The event i begins an interval that was not ended yet.
IsOpen(trace, i) ==
    /\ trace[i].what = "begin"
    /\ \A k \in DOMAIN trace : k > i => trace[k].cookie # trace[i].cookie

Holders(c) == {r \in Regions : Alive(r) /\ region[r].cookie = c}

IntervalsPair ==
    /\ \A j \in DOMAIN events :
         /\ events[j].what = "end" => EndsItsBegin(events, j)
         /\ events[j].what = "begin" =>
              \A i \in DOMAIN events : Follows(events, i, j) => events[i].what = "end"
    /\ \A c \in 1 .. Cookies - 1 :
         IF \E i \in DOMAIN events : events[i].cookie = c /\ IsOpen(events, i)
           THEN \E r \in Regions : Holders(c) = {r}
           ELSE Holders(c) = {}

(***************************************************************************)
(* The provider is registered exactly while it is needed, by the switch or *)
(* by an active region, whatever is moved, assigned over and destroyed on  *)
(* other threads meanwhile (trace_region.h:168-170 and 227-229 of Windows),*)
(* as long as no constructor is overtaken by disable and no session begins *)
(* while regions of an earlier one live.                                   *)
(***************************************************************************)
RegisteredWhileNeeded ==
    build = "windows" /\ ~overtaken /\ ~restarted =>
        /\ \A r \in Regions : IsActive(r) => registered
        /\ control = "idle" /\ ending = {} =>
             (registered <=> enabled \/ \E r \in Regions : IsActive(r))

(***************************************************************************)
(* What the code's comments say, and the code does not keep (README).      *)
(* "Each active trace_region holds a copy, so the provider stays registered *)
(* until disable() is called AND all outstanding regions are destroyed"    *)
(* (trace_region.h:169-170): a constructor may copy after disable has      *)
(* emptied s_registration, or raise a count that has fallen to zero.       *)
(***************************************************************************)
ActiveRegionsAreRegistered ==
    build = "windows" => \A r \in Regions : IsActive(r) => registered

(***************************************************************************)
(* The same of programs whose constructors are not overtaken, if only      *)
(* because they have one thread ("as long as any trace_region is alive",   *)
(* trace_region.h:193): the regions of one session take the provider away  *)
(* from those of the next.                                                 *)
(***************************************************************************)
StaysRegisteredInTurns == ~overtaken => ActiveRegionsAreRegistered

-----------------------------------------------------------------------------
(* What the proofs need besides.                                           *)

\* s_registration refers to an object from enable to the middle of disable.
SwitchInv ==
    /\ session \in {0, sessions}
    /\ session # 0 <=> enabled \/ control \in {"enabling", "disabling"}
    /\ enabled => control = "idle"
    /\ control \in {"releasing", "unregistering"} => sessions # 0

\* Who refers to the object of the last session: regions, and s_registration or
\* disable, which has taken it from there.
Sharing(reg) == {r \in Regions : reg[r].registration # 0}
OfSwitch == IF session # 0 \/ control = "releasing" THEN 1 ELSE 0

IsUnregistering == ending # {} \/ control = "unregistering"

\* Exactly the active regions refer to it.
RegionsShare ==
    \A r \in Regions :
        /\ region[r].life = "constructing" =>
             IF region[r].cookie = 0 THEN copy[r] = 0
             ELSE session # 0 /\ copy[r] \in {Unread, session}
        /\ region[r].registration = IF IsActive(r) THEN sessions ELSE 0
        /\ IsActive(r) => sessions # 0

\* They are counted, and who counts down to zero is alone in the destructor.
Counted ==
    /\ sessions # 0 => uses[sessions] = Cardinality(Sharing(region)) + OfSwitch
    /\ registered <=> IsUnregistering \/ (sessions # 0 /\ uses[sessions] # 0)
    /\ IsUnregistering => sessions # 0 /\ uses[sessions] = 0
    /\ \A r, q \in ending : r = q
    /\ ending # {} => control # "unregistering"

ProviderInv ==
    build = "windows" =>
        SwitchInv /\ (~overtaken /\ ~restarted => RegionsShare /\ Counted)

\* A cookie is in the hands of one object; before its begin there is no event of
\* it, and the begin that is open has the object's name.
CookiesApart(reg, trace) ==
    /\ \A r \in Regions : reg[r].life \in {"unborn", "destroyed"} => reg[r].cookie = 0
    /\ \A r, q \in Regions : reg[r].cookie = reg[q].cookie /\ reg[r].cookie # 0 => r = q
    /\ \A r \in Regions : reg[r].life = "constructing" /\ reg[r].cookie # 0 =>
         \A i \in DOMAIN trace : trace[i].cookie # reg[r].cookie

\* A begin is the first event of its cookie.
EventsPair(trace) ==
    /\ \A i \in DOMAIN trace : trace[i].cookie # 0
    /\ \A j \in DOMAIN trace : trace[j].what = "end" => EndsItsBegin(trace, j)
    /\ \A i, j \in DOMAIN trace :
         i < j /\ trace[j].what = "begin" => trace[i].cookie # trace[j].cookie

OpenIsHeld(reg, trace) ==
    /\ \A r \in Regions : reg[r].life = "alive" /\ reg[r].cookie # 0 =>
         \E i \in DOMAIN trace :
           IsOpen(trace, i) /\ trace[i].cookie = reg[r].cookie /\ trace[i].name = reg[r].name
    /\ \A i \in DOMAIN trace : IsOpen(trace, i) =>
         \E r \in Regions : reg[r].life = "alive" /\ reg[r].cookie = trace[i].cookie

\* Cookies are drawn in a circle that fewer regions than cookies do not close:
\* a cookie in use is not further behind than there have been draws since, one
\* more where the draws passed over 0.
Born(reg) == {r \in Regions : reg[r].life # "unborn"}
Behind(next, c) == next - c + (IF c < next THEN 0 ELSE Cookies)
Skipped(next, c) == IF c < next \/ next = 0 THEN 0 ELSE 1
IsUsed(reg, trace, c) ==
    (\E r \in Regions : reg[r].cookie = c) \/ (\E i \in DOMAIN trace : trace[i].cookie = c)
=============================================================================
