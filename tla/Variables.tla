------------------------------ MODULE Variables ------------------------------
(***************************************************************************)
(* runtime/variables.c over core/list/list.c: the variables of a script    *)
(* are a singly linked list with a head and a tail pointer.  Both calls    *)
(* walk the list from the head, comparing names; a set that reaches the    *)
(* end appends behind the tail.  Node i is the i-th node ever allocated;   *)
(* nodes are only freed with the whole store, so no node is reused.        *)
(***************************************************************************)
EXTENDS Naturals, Sequences

CONSTANTS Names, Values, NoValue

ASSUME NoValueAssumption == NoValue \notin Values

Null == 0

VARIABLES
  nodes,     \* the allocated nodes: <<[name, value, next], ...>>
  head,      \* Variables.head
  tail,      \* Variables.tail
  call,      \* the call in progress
  cursor,    \* current_node of that call
  answer     \* what the last call answered

vars == <<nodes, head, tail, call, cursor, answer>>

Idle == [op |-> "none"]
Calls == [op : {"set"}, name : Names, value : Values]
           \cup [op : {"get"}, name : Names]
Answers == ({"none", "ok", "fail"} \X {NoValue})
             \cup ({"value"} \X (Values \cup {NoValue}))
Node == [name : Names, value : Values, next : Nat]

------------------------------------------------------------------------------
\* variables_create: an empty list.
Init ==
  /\ nodes = <<>>
  /\ head = Null
  /\ tail = Null
  /\ call = Idle
  /\ cursor = Null
  /\ answer = <<"none", NoValue>>

\* A mutant of Invoke: the walk starts behind the head.
InvokeBehindHead ==
  /\ call = Idle
  /\ call' \in Calls
  /\ cursor' = IF head = Null THEN Null ELSE nodes[head].next
  /\ UNCHANGED <<nodes, head, tail, answer>>

\* A caller enters variables_set or variables_get: current_node = head.
Invoke ==
  /\ call = Idle
  /\ call' \in Calls
  /\ cursor' = head
  /\ UNCHANGED <<nodes, head, tail, answer>>

Matches == cursor # Null /\ nodes[cursor].name = call.name

\* A mutant of Advance: the end of the list is missed.
AdvanceAround ==
  /\ call # Idle
  /\ cursor # Null
  /\ ~Matches
  /\ cursor' = IF cursor = tail THEN head ELSE nodes[cursor].next
  /\ UNCHANGED <<nodes, head, tail, call, answer>>

\* One turn of the while loop that does not match: current_node = next.
Advance ==
  /\ call # Idle
  /\ cursor # Null
  /\ ~Matches
  /\ cursor' = nodes[cursor].next
  /\ UNCHANGED <<nodes, head, tail, call, answer>>

Return(reply) ==
  /\ answer' = reply
  /\ call' = Idle
  /\ cursor' = Null

\* variables_set found the name: its value is replaced in place.
Replace ==
  /\ call.op = "set"
  /\ Matches
  /\ nodes' = [nodes EXCEPT ![cursor].value = call.value]
  /\ UNCHANGED <<head, tail>>
  /\ Return(<<"ok", NoValue>>)

NewNode == [name |-> call.name, value |-> call.value, next |-> Null]
NewAddress == Len(nodes) + 1

\* variables_set reached the end of an empty list: the node is head and tail.
AppendFirst ==
  /\ call.op = "set"
  /\ cursor = Null
  /\ head = Null
  /\ nodes' = Append(nodes, NewNode)
  /\ head' = NewAddress
  /\ tail' = NewAddress
  /\ Return(<<"ok", NoValue>>)

\* Mutants of AppendLast: the tail pointer is left behind; the tail node is
\* overwritten.
AppendKeepsTail ==
  /\ call.op = "set"
  /\ cursor = Null
  /\ head # Null
  /\ nodes' = Append([nodes EXCEPT ![tail].next = NewAddress], NewNode)
  /\ UNCHANGED <<head, tail>>
  /\ Return(<<"ok", NoValue>>)

AppendReusesTail ==
  /\ call.op = "set"
  /\ cursor = Null
  /\ head # Null
  /\ nodes' = [nodes EXCEPT ![tail] = NewNode]
  /\ UNCHANGED <<head, tail>>
  /\ Return(<<"ok", NoValue>>)

\* ... of a non-empty list: append_list links the node behind the tail.
AppendLast ==
  /\ call.op = "set"
  /\ cursor = Null
  /\ head # Null
  /\ nodes' = Append([nodes EXCEPT ![tail].next = NewAddress], NewNode)
  /\ tail' = NewAddress
  /\ UNCHANGED head
  /\ Return(<<"ok", NoValue>>)

\* A mutant of SetOutOfMemory: the node was linked before it was allocated.
SetOutOfMemoryLinks ==
  /\ call.op = "set"
  /\ cursor = Null
  /\ head # Null
  /\ nodes' = [nodes EXCEPT ![tail].next = NewAddress]
  /\ UNCHANGED <<head, tail>>
  /\ Return(<<"fail", NoValue>>)

\* malloc fails for the new value or for the new variable: nothing changes.
\* (new_list itself ends the process when it cannot allocate.)
SetOutOfMemory ==
  /\ call.op = "set"
  /\ Matches \/ cursor = Null
  /\ UNCHANGED <<nodes, head, tail>>
  /\ Return(<<"fail", NoValue>>)

GetFound ==
  /\ call.op = "get"
  /\ Matches
  /\ UNCHANGED <<nodes, head, tail>>
  /\ Return(<<"value", nodes[cursor].value>>)

GetMissing ==
  /\ call.op = "get"
  /\ cursor = Null
  /\ UNCHANGED <<nodes, head, tail>>
  /\ Return(<<"value", NoValue>>)

Serve ==
  \/ Advance
  \/ Replace
  \/ AppendFirst
  \/ AppendLast
  \/ SetOutOfMemory
  \/ GetFound
  \/ GetMissing

Next == Invoke \/ Serve

Spec == Init /\ [][Next]_vars

\* A call that was entered keeps running: it is straight-line C.
FairSpec == Spec /\ WF_vars(Serve)

------------------------------------------------------------------------------
TypeOK ==
  /\ nodes \in Seq(Node)
  /\ head \in Nat
  /\ tail \in Nat
  /\ call \in Calls \cup {Idle}
  /\ cursor \in 0..Len(nodes)
  /\ answer \in Answers

\* The list is what the two pointers say: the chain from the head visits the
\* nodes in allocation order, ends at the tail and nowhere else (variables.c
\* keeps the tail only to append, and nothing re-reads it).
ListShape ==
  /\ nodes = <<>> => head = Null /\ tail = Null
  /\ nodes # <<>> => head = 1 /\ tail = Len(nodes)
  /\ \A i \in 1..Len(nodes) :
       nodes[i].next = IF i = Len(nodes) THEN Null ELSE i + 1

\* No name is stored twice, although variables_set appends without looking
\* at anything but the walk that it has just finished.
UniqueNames ==
  \A i, j \in 1..Len(nodes) : nodes[i].name = nodes[j].name => i = j

\* The walk has compared every node that it has left behind.
WalkedPast ==
  call # Idle =>
    \A i \in 1..Len(nodes) :
      (cursor = Null \/ i < cursor) => nodes[i].name # call.name

------------------------------------------------------------------------------
\* The store a caller sees.
Holder(n) == {i \in 1..Len(nodes) : nodes[i].name = n}
Store ==
  [n \in Names |-> IF Holder(n) = {} THEN NoValue
                   ELSE nodes[CHOOSE i \in Holder(n) : TRUE].value]

Map == INSTANCE VarStore WITH store <- Store

\* variables.c implements the partial map of VarStore: every call takes effect
\* at one step, and a set that fails leaves every binding as it was.
ImplementsMap == Map!Spec

\* A variable keeps its place in the list and its name for the life of the
\* store; only values change, at most one per step.
PlacesAreStable ==
  [][ /\ Len(nodes') \in {Len(nodes), Len(nodes) + 1}
      /\ \A i \in 1..Len(nodes) : nodes'[i].name = nodes[i].name
      /\ \A i, j \in 1..Len(nodes) :
           nodes'[i].value # nodes[i].value /\ nodes'[j].value # nodes[j].value
             => i = j ]_vars

\* Every call returns: the chain has no cycle and no dangling end.
CallsReturn == call # Idle ~> call = Idle

==============================================================================
