-------------------------------- MODULE Hresult --------------------------------
(***************************************************************************)
(* hresult (Windows/arcana/hresult.cpp): HRESULTs and error codes in each  *)
(* other's clothes.  An error code of a registered category becomes an     *)
(* HRESULT with the customer bit, whose facility is the category's number; *)
(* any other HRESULT is an error code of hresult_category.  The categories *)
(* are kept in a storage that its first user makes, without a lock.        *)
(***************************************************************************)
EXTENDS Naturals, Sequences, FiniteSets, UnorderedBimap

CONSTANTS
    Threads,
    Standard,           \* the four standard categories, a sequence
    Own,                \* the categories the program registers
    HresultCategory,
    Facilities,         \* facilities are 0 .. Facilities - 1 (13 bits)
    Codes,              \* codes are 0 .. Codes - 1 (16 bits)
    FirstUseRaces       \* whether threads may use the storage for the first
                        \* time while another one makes it

Categories == Own \cup {Standard[i] : i \in 1 .. 4}

HresultAssumption ==
    /\ Facilities \in Nat /\ Codes \in Nat \ {0}
    /\ Len(Standard) = 4
    /\ HresultCategory \notin Categories
    /\ FirstUseRaces \in BOOLEAN

VARIABLES
    storage,    \* s_categoryStorage: whether it is there, its map, the next facility
    adder,      \* adder[t]: what a thread is doing in add_category, and for whom
    added       \* the categories for which add_category has returned

storageVars == <<storage, adder, added>>

NoStorage == [there |-> FALSE, map |-> EmptyBimap, next |-> 0]

\* category_storage::add_category, under its mutex.
AddTo(s, category) ==
    [there |-> s.there, map |-> Emplace(s.map, category, s.next), next |-> s.next + 1]

\* category_storage::category_storage
NewStorage ==
    LET empty == [there |-> TRUE, map |-> EmptyBimap, next |-> 0]
    IN  AddTo(AddTo(AddTo(AddTo(empty, Standard[1]), Standard[2]), Standard[3]), Standard[4])

Facility(category) == storage.map.left[category]
IsRegistered(category) == category \in DOMAIN storage.map.left

StorageInit ==
    /\ storage = NoStorage
    /\ adder = [t \in Threads |-> [at |-> "idle", category |-> HresultCategory]]
    /\ added = {}

-----------------------------------------------------------------------------
(* add_category, by any thread, and the two halves of get_category_storage. *)

MayUse == FirstUseRaces \/ storage.there \/ \A t \in Threads : adder[t].at = "idle"

CallAdd(t, category) ==
    /\ adder[t].at = "idle"
    /\ storage.next + Cardinality({u \in Threads : adder[u].at # "idle"}) < Facilities
    /\ MayUse
    /\ adder' = [adder EXCEPT ![t] =
         [at |-> IF storage.there THEN "add" ELSE "make", category |-> category]]
    /\ UNCHANGED <<storage, added>>

MakeStorage(t) ==
    /\ adder[t].at = "make"
    /\ storage' = NewStorage
    /\ adder' = [adder EXCEPT ![t].at = "add"]
    /\ UNCHANGED added

AddCategory(t) ==
    /\ adder[t].at = "add"
    /\ storage' = AddTo(storage, adder[t].category)
    /\ added' = added \cup {adder[t].category}
    /\ adder' = [adder EXCEPT ![t].at = "idle"]

StorageNext ==
    \E t \in Threads :
        \/ \E c \in Own : CallAdd(t, c)
        \/ MakeStorage(t) \/ AddCategory(t)

-----------------------------------------------------------------------------
(* The conversions.  A conversion is one step: it makes the storage if it    *)
(* is the first to use it.  Definitions named "Bug..." are wrong variants of *)
(* the one that follows; no action uses them.                                *)

\* (Bit 30 is left out: it is 0 where bit 28 is, the highest bit of the facility
\* here, which no registered facility reaches.)
Hresults == [severity : {0, 1}, customer : {0, 1}, facility : 0 .. Facilities - 1,
             code : 0 .. Codes - 1]

ErrorCode(category, value) == [category |-> category, value |-> value]

Uses == IF storage.there THEN storage ELSE NewStorage

\* get_category_from_hresult finds one.
HasCategory(hr) == hr.customer = 1 /\ hr.facility \in DOMAIN Uses.map.right

\* A conversion that forgets to look at the customer bit.
BugErrorCodeFromHr(hr) ==
    IF hr.facility \in DOMAIN Uses.map.right
      THEN ErrorCode(Uses.map.right[hr.facility], hr.code)
      ELSE ErrorCode(HresultCategory, hr)

ErrorCodeFromHr(hr) ==
    IF HasCategory(hr) THEN ErrorCode(Uses.map.right[hr.facility], hr.code)
                       ELSE ErrorCode(HresultCategory, hr)

\* E_FAIL, which is what is left for an unknown category in a build without
\* assertions.
EFail == [severity |-> 1, customer |-> 0, facility |-> 0, code |-> 1]

HrFromErrorCode(ec) ==
    CASE ec.category = HresultCategory -> ec.value
      [] ec.category # HresultCategory /\ ec.category \in DOMAIN Uses.map.left ->
           [severity |-> 1, customer |-> 1, facility |-> Uses.map.left[ec.category],
            code |-> ec.value]
      [] OTHER -> EFail

SameCode(a, b) == a.category = b.category /\ a.value = b.value

\* An error code is an error if its value is not zero.
IsError(ec) ==
    IF ec.category = HresultCategory
      THEN ec.value # [severity |-> 0, customer |-> 0, facility |-> 0, code |-> 0]
      ELSE ec.value # 0

-----------------------------------------------------------------------------
(***************************************************************************)
(* A category stays registered once add_category has returned, and its     *)
(* facility leads back to it: error codes of it go to an HRESULT and back  *)
(* unchanged, and no HRESULT of the system is taken for one.               *)
(***************************************************************************)
CategoriesRoundTrip ==
    /\ \A c \in added :
         /\ LeadsBack(storage.map, c)
         /\ \A v \in 1 .. Codes - 1 :
              SameCode(ErrorCodeFromHr(HrFromErrorCode(ErrorCode(c, v))), ErrorCode(c, v))
    /\ \A hr \in Hresults : hr.customer = 0 => HrFromErrorCode(ErrorCodeFromHr(hr)) = hr

-----------------------------------------------------------------------------
(* What the proofs need besides.                                             *)

\* The map leads from a category to a facility and back, whatever was added
\* twice; further facilities of a category lead to it as well.
MapLeadsBack(s) ==
    /\ \A f \in DOMAIN s.map.right : f \in 0 .. s.next - 1 /\ s.map.right[f] \in DOMAIN s.map.left
    /\ \A c \in DOMAIN s.map.left :
         s.map.left[c] \in DOMAIN s.map.right /\ s.map.right[s.map.left[c]] = c
    /\ DOMAIN s.map.left \subseteq Categories

\* One thread makes the storage, before anybody uses it.
OneMaker ==
    /\ \A t \in Threads : adder[t].at = "make" =>
         ~storage.there /\ \A u \in Threads \ {t} : adder[u].at = "idle"
    /\ \A t \in Threads : adder[t].at = "add" => storage.there

StorageInv ==
    /\ storage = [there |-> storage.there, map |-> storage.map, next |-> storage.next]
    /\ storage.there \in BOOLEAN /\ storage.next \in Nat
    /\ adder \in [Threads -> [at : {"idle", "make", "add"}, category : Own \cup {HresultCategory}]]
    /\ \A t \in Threads : adder[t].at # "idle" => adder[t].category \in Own
    /\ storage.there => MapLeadsBack(storage)
    /\ OneMaker
    /\ IF storage.there THEN added \subseteq DOMAIN storage.map.left ELSE added = {}
=============================================================================
