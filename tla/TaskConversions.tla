---------------------------- MODULE TaskConversions ----------------------------
(***************************************************************************)
(* create_task of an asynchronous operation of the system (Windows/arcana/ *)
(* threading/task_conversions.h): its handler completes a task with what   *)
(* became of the operation.  The task's result then moves along a chain,   *)
(* where it may be converted (expected.h), and at its end the program asks *)
(* for the HRESULT again (hresult.cpp).                                    *)
(***************************************************************************)
EXTENDS Hresult

CONSTANTS
    Null,
    Generic,        \* the category of std::errc
    CanceledCode    \* std::errc::operation_canceled

\* The null pointer is none of the error codes.
ConversionsAssumption ==
    /\ HresultAssumption
    /\ Generic # HresultCategory /\ CanceledCode \in 1 .. Codes - 1
    /\ Null \notin [category : Categories \cup {HresultCategory, Generic},
                   value : Hresults \cup 0 .. Codes - 1]

E == INSTANCE Expected WITH IsSet <- IsError

VARIABLES
    operation,  \* the operation: its status, and the HRESULT it failed with
    handler,    \* "none", "set" or "called"
    result,     \* the expected that the task was completed with, converted
                \* since; Null before
    of,         \* what the operation returns: "T" or "void"
    misused     \* a contract failed

asyncVars == <<operation, handler, result, of, misused>>
vars == <<storageVars, asyncVars>>

Failures == {hr \in Hresults : hr.severity = 1}

TypeOK ==
    /\ operation.status \in {"Started", "Completed", "Canceled", "Error"}
    /\ handler \in {"none", "set", "called"}
    /\ of \in {"T", "void"} /\ misused \in BOOLEAN
    /\ result # Null => result.of = of

Init ==
    /\ StorageInit
    /\ operation = [status |-> "Started", hr |-> EFail]
    /\ handler = "none"
    /\ result = Null
    /\ of \in {"T", "void"}
    /\ misused = FALSE

\* The operation ends, before or after there is a handler.
OperationEnds ==
    /\ operation.status = "Started"
    /\ \/ \E s \in {"Completed", "Canceled"} : operation' = [operation EXCEPT !.status = s]
       \/ \E hr \in Failures : operation' = [status |-> "Error", hr |-> hr]
    /\ UNCHANGED <<storageVars, handler, result, of, misused>>

CreateTask ==
    /\ handler = "none"
    /\ handler' = "set"
    /\ UNCHANGED <<storageVars, operation, result, of, misused>>

CanceledError == E!Error("code", ErrorCode(Generic, CanceledCode))

\* What the handler completes the task with: set_completion_source, or an error.
Outcome(type) ==
    CASE operation.status = "Completed" ->
           IF of = "void" THEN E!MakeValid(type) ELSE E!FromValue(type, "results")
      [] operation.status = "Canceled" -> E!FromUnexpected(of, type, CanceledError)
      [] operation.status = "Error" ->
           E!FromUnexpected(of, type, E!Error("code", ErrorCodeFromHr(operation.hr)))

\* Only an HRESULT with the customer bit is looked up in the storage.
UsesStorage == operation.status = "Error" /\ operation.hr.customer = 1

\* The system calls the handler once.  An HRESULT of a registered category whose
\* code is zero is no error to std::error_code, and breaks the contract of a
\* task whose error type it is.
HandlerRuns ==
    /\ handler = "set" /\ operation.status # "Started"
    /\ UsesStorage => MayUse
    /\ handler' = "called"
    /\ storage' = IF UsesStorage THEN Uses ELSE storage
    /\ \E type \in {"code", "exception"} :
         IF operation.status = "Error"
            /\ ~E!Buildable(type, E!Error("code", ErrorCodeFromHr(operation.hr)))
           THEN misused' = TRUE /\ UNCHANGED result
           ELSE result' = Outcome(type) /\ UNCHANGED misused
    /\ UNCHANGED <<adder, added, operation, of>>

\* A continuation or a coroutine takes the result on in another error type.
ConvertResult ==
    /\ result # Null /\ result.error.type = "code"
    /\ result' = E!Convert(result, "exception")
    /\ UNCHANGED <<storageVars, operation, handler, of, misused>>

Next ==
    \/ StorageNext /\ UNCHANGED asyncVars
    \/ OperationEnds \/ CreateTask \/ HandlerRuns \/ ConvertResult

Spec == Init /\ [][Next]_vars

-----------------------------------------------------------------------------
(***************************************************************************)
(* What became of the operation is what the chain ends with, whatever      *)
(* categories were registered meanwhile and whatever conversions were      *)
(* made: its results, a cancellation, or the HRESULT it failed with, which *)
(* the error code gives back.  Where a category was registered twice it    *)
(* may be an HRESULT with the category's other facility, for the same code. *)
(***************************************************************************)
OtherFacility(hr) ==
    HasCategory(hr) /\ Uses.map.left[Uses.map.right[hr.facility]] # hr.facility

OutcomeSurvives ==
    result # Null =>
        CASE operation.status = "Completed" ->
               ~E!HasError(result) /\ (of = "T" => E!ValueOr(result, Null) = "results")
          [] operation.status = "Canceled" ->
               E!HasError(result) /\ SameCode(result.error.code, CanceledError.code)
          [] operation.status = "Error" ->
               /\ E!HasError(result)
               /\ LET back == HrFromErrorCode(result.error.code) IN
                  \/ back = operation.hr
                  \/ /\ OtherFacility(operation.hr)
                     /\ SameCode(ErrorCodeFromHr(back), result.error.code)

-----------------------------------------------------------------------------
(* What the proofs need besides.                                           *)

\* The error code an HRESULT became, by the storage s or by one it was before.
ComesFrom(s, ec, hr) ==
    \/ ec = ErrorCode(HresultCategory, hr)
    \/ /\ s.there /\ hr.customer = 1 /\ hr.facility \in DOMAIN s.map.right
       /\ ec = ErrorCode(s.map.right[hr.facility], hr.code)

\* What a task has of an operation that is over.
IsOutcome(s, op, x) ==
    /\ op.status # "Started"
    /\ x.of \in {"T", "void"} /\ x.error.type \in {"code", "exception"}
    /\ IF op.status = "Completed"
         THEN IF x.of = "void" THEN x.error.code = Null
                               ELSE x.has = "value" /\ x.value = "results"
         ELSE /\ x.error.code # Null /\ x.has = "error"
              /\ x.of = "void" => E!Holds(x.error)
    /\ op.status = "Canceled" => x.error.code = CanceledError.code
    /\ op.status = "Error" => ComesFrom(s, x.error.code, op.hr)

Inv ==
    /\ StorageInv
    /\ operation.status \in {"Started", "Completed", "Canceled", "Error"}
    /\ operation.status = "Error" => operation.hr \in Failures
    /\ of \in {"T", "void"}
    /\ result # Null => result.of = of /\ IsOutcome(storage, operation, result)
=============================================================================
