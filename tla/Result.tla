------------------------------- MODULE Result -------------------------------
(***************************************************************************)
(* apsn::result: an optional value beside an error code.  The conversion   *)
(* to bool asks the error alone; dereferencing asks the value alone, and   *)
(* ends the program when there is none.                                     *)
(***************************************************************************)
LOCAL INSTANCE Sequences

NoError == "ok"

\* from a value
Ok(v) == [value |-> <<v>>, error |-> NoError]

\* from an error code or an enumerator of one, which may be the one for success
Err(e) == [value |-> <<>>, error |-> e]

\* explicit operator bool
IsOk(r) == r.error = NoError

\* exit_on_null_value
Ends(r) == r.value = <<>>

\* operator* and operator->, of a result that holds a value
Deref(r) == Head(r.value)
=============================================================================
