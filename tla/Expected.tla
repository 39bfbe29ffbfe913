------------------------------- MODULE Expected -------------------------------
(***************************************************************************)
(* basic_expected<T, E> and basic_expected<void, E> (expected.h): a value  *)
(* or an error.  E is an enumeration ("enum"), std::error_code ("code") or *)
(* std::exception_ptr ("exception"), and converts from left to right.      *)
(*                                                                         *)
(* The first keeps which of the two it has; the second is an error that    *)
(* may be empty.                                                           *)
(***************************************************************************)
CONSTANTS
    Null,       \* nullptr, and the value of an expected that has none
    IsSet(_)    \* whether an error code is an error

Error(type, code) == [type |-> type, code |-> code]

\* expected_error_traits::enable_conversion
Converts(from, to) ==
    <<from, to>> \in {<<"enum", "code">>, <<"enum", "exception">>, <<"code", "exception">>}

\* expected_error_traits::convert: the system_error in an exception has the code.
ConvertError(e, type) == Error(type, e.code)

\* static_cast<bool> of an error: an exception_ptr is one if it is not null.
Holds(e) == IF e.type = "exception" THEN e.code # Null ELSE e.code # Null /\ IsSet(e.code)

NoError(type) == Error(type, Null)

FromValue(type, value) ==
    [of |-> "T", has |-> "value", value |-> value, error |-> NoError(type)]

MakeValid(type) == [of |-> "void", has |-> "value", value |-> Null, error |-> NoError(type)]

\* The contract of the constructors that take an unexpected: it holds an error.
\* Those that convert do not ask.
Buildable(type, e) == IF e.type = type THEN Holds(e) ELSE Converts(e.type, type)

FromUnexpected(of, type, e) ==
    [of |-> of, has |-> "error", value |-> Null,
     error |-> IF e.type = type THEN e ELSE ConvertError(e, type)]

HasError(x) == IF x.of = "void" THEN Holds(x.error) ELSE x.has = "error"

\* The converting constructors: convert_variant, and that of expected<void>.
Convert(x, type) ==
    CASE HasError(x) -> FromUnexpected(x.of, type, x.error)
      [] ~HasError(x) /\ x.of = "void" -> MakeValid(type)
      [] OTHER -> FromValue(type, x.value)

ValueOr(x, default) == IF HasError(x) THEN default ELSE x.value
=============================================================================
