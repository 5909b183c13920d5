------------------------------ MODULE VarStore ------------------------------
(***************************************************************************)
(* What runtime/variables.h promises its callers: a partial map from names *)
(* to values with two calls.  variables_set either binds the name and      *)
(* answers "ok", or answers "fail" (out of memory) and changes nothing;    *)
(* variables_get answers the bound value, or NoValue.                      *)
(***************************************************************************)
CONSTANTS Names, Values, NoValue

VARIABLES
  store,    \* what each name is bound to
  call,     \* the call in progress, or Idle
  answer    \* what the last call answered

Idle == [op |-> "none"]
Calls == [op : {"set"}, name : Names, value : Values]
           \cup [op : {"get"}, name : Names]
Answers == {"none", "ok", "fail"} \X {NoValue}
             \cup {"value"} \X (Values \cup {NoValue})

varStore == <<store, call, answer>>

Init ==
  /\ store = [n \in Names |-> NoValue]
  /\ call = Idle
  /\ answer = <<"none", NoValue>>

Invoke ==
  /\ call = Idle
  /\ call' \in Calls
  /\ UNCHANGED <<store, answer>>

Bind ==
  /\ call.op = "set"
  /\ store' = [store EXCEPT ![call.name] = call.value]
  /\ answer' = <<"ok", NoValue>>
  /\ call' = Idle

RefuseBind ==
  /\ call.op = "set"
  /\ answer' = <<"fail", NoValue>>
  /\ call' = Idle
  /\ UNCHANGED store

Fetch ==
  /\ call.op = "get"
  /\ answer' = <<"value", store[call.name]>>
  /\ call' = Idle
  /\ UNCHANGED store

Next == Invoke \/ Bind \/ RefuseBind \/ Fetch

Spec == Init /\ [][Next]_varStore

=============================================================================
