-------------------------- MODULE Variables_proofs ---------------------------
(***************************************************************************)
(* Proofs about Variables, for any sets of names and values: the list is   *)
(* well formed, holds no name twice, implements the map of VarStore, and   *)
(* every walk along it ends.                                               *)
(***************************************************************************)
EXTENDS Variables, SequenceTheorems, TLAPS

\* The inductive invariant: no conjunct is inductive without the others.  The
\* names stay unique because an append happens behind a finished walk, the walk
\* sees every node because the chain is in order, and the chain stays in order
\* because the tail is the last node.
IInv == TypeOK /\ ListShape /\ UniqueNames /\ WalkedPast

LEMMA InitIInv == Init => IInv
  BY DEF Init, IInv, TypeOK, ListShape, UniqueNames, WalkedPast, Null, Idle,
         Calls, Answers, Node

\* What a call that is in progress looks like.
LEMMA CallShape ==
  ASSUME call \in Calls \cup {Idle}
  PROVE  /\ call # Idle => call.name \in Names
         /\ call.op = "set" => /\ call # Idle
                               /\ call.name \in Names
                               /\ call.value \in Values
         /\ call.op = "get" => call # Idle /\ call.name \in Names
  BY DEF Calls, Idle

\* Overwriting the record at one place of the list.
LEMMA Overwrite ==
  ASSUME nodes \in Seq(Node), NEW i \in 1..Len(nodes), NEW r \in Node,
         NEW t, t = [nodes EXCEPT ![i] = r]
  PROVE  /\ t \in Seq(Node)
         /\ Len(t) = Len(nodes)
         /\ t[i] = r
         /\ \A j \in 1..Len(nodes) : j # i => t[j] = nodes[j]
  <1>1. t \in Seq(Node) /\ Len(t) = Len(nodes)
    BY ExceptSeq
  <1>2. DOMAIN nodes = 1..Len(nodes)
    OBVIOUS
  <1>3. QED
    BY <1>1, <1>2

LEMMA InvokePreserves == IInv /\ Invoke => IInv'
  <1> SUFFICES ASSUME IInv, Invoke PROVE IInv'
    OBVIOUS
  <1> USE DEF IInv, Null
  <1>1. head \in 0..Len(nodes)
    BY DEF TypeOK, ListShape
  <1>2. TypeOK'
    BY <1>1 DEF TypeOK, Invoke
  <1>3. ListShape' /\ UniqueNames'
    BY DEF Invoke, ListShape, UniqueNames
  <1>4. WalkedPast'
    BY DEF Invoke, WalkedPast, ListShape, TypeOK
  <1>5. QED
    BY <1>2, <1>3, <1>4

LEMMA AdvancePreserves == IInv /\ Advance => IInv'
  <1> SUFFICES ASSUME IInv, Advance PROVE IInv'
    OBVIOUS
  <1> USE DEF IInv, Null
  <1>1. cursor \in 1..Len(nodes)
    BY DEF TypeOK, Advance
  <1>2. nodes[cursor].next = IF cursor = Len(nodes) THEN Null ELSE cursor + 1
    BY <1>1 DEF ListShape
  <1>3. TypeOK'
    BY <1>1, <1>2 DEF TypeOK, Advance
  <1>4. ListShape' /\ UniqueNames'
    BY DEF Advance, ListShape, UniqueNames
  <1>5. WalkedPast'
    BY <1>1, <1>2 DEF Advance, WalkedPast, Matches, TypeOK
  <1>6. QED
    BY <1>3, <1>4, <1>5

LEMMA ReplacePreserves == IInv /\ Replace => IInv'
  <1> SUFFICES ASSUME IInv, Replace PROVE IInv'
    OBVIOUS
  <1> USE DEF IInv, Null
  <1>1. cursor \in 1..Len(nodes) /\ call.value \in Values
    BY CallShape DEF TypeOK, Replace, Matches
  <1>2. /\ nodes' \in Seq(Node)
        /\ Len(nodes') = Len(nodes)
        /\ \A i \in 1..Len(nodes) : /\ nodes'[i].name = nodes[i].name
                                    /\ nodes'[i].next = nodes[i].next
    <2> DEFINE r == [nodes[cursor] EXCEPT !.value = call.value]
    <2>1. nodes[cursor] \in Node
      BY <1>1 DEF TypeOK
    <2>2. r \in Node /\ r.name = nodes[cursor].name /\ r.next = nodes[cursor].next
      BY <1>1, <2>1 DEF Node
    <2>3. nodes' = [nodes EXCEPT ![cursor] = r]
      BY DEF Replace
    <2> HIDE DEF r
    <2>4. QED
      BY <1>1, <2>2, <2>3, Overwrite DEF TypeOK
  <1>3. TypeOK'
    BY <1>2 DEF TypeOK, Replace, Return, Answers
  <1>4. ListShape'
    <2>1. (nodes' = <<>>) = (nodes = <<>>)
      BY <1>2 DEF TypeOK
    <2>2. QED
      BY <1>2, <2>1 DEF ListShape, Replace
  <1>5. UniqueNames'
    BY <1>2 DEF UniqueNames
  <1>6. WalkedPast'
    BY DEF Replace, Return, WalkedPast
  <1>7. QED
    BY <1>3, <1>4, <1>5, <1>6

\* Both appends: the new node carries a name that the walk has not met.
LEMMA AppendPreserves == IInv /\ (AppendFirst \/ AppendLast) => IInv'
  <1> SUFFICES ASSUME IInv, AppendFirst \/ AppendLast PROVE IInv'
    OBVIOUS
  <1> USE DEF IInv, Null
  <1>0. call # Idle /\ cursor = Null /\ NewNode \in Node
    BY CallShape DEF TypeOK, AppendFirst, AppendLast, NewNode, Node
  <1>1. /\ nodes' \in Seq(Node)
        /\ Len(nodes') = Len(nodes) + 1
        /\ nodes'[Len(nodes) + 1] = NewNode
        /\ \A i \in 1..Len(nodes) :
             /\ nodes'[i].name = nodes[i].name
             /\ nodes'[i].next = i + 1
        /\ head' = 1
        /\ tail' = Len(nodes) + 1
    <2>1. CASE AppendFirst
      <3>1. nodes = <<>>
        BY <2>1 DEF ListShape, AppendFirst
      <3>2. QED
        BY <1>0, <2>1, <3>1 DEF AppendFirst, NewAddress, TypeOK
    <2>2. CASE AppendLast
      <3>1. nodes # <<>> /\ head = 1 /\ tail = Len(nodes)
        BY <2>2 DEF ListShape, AppendLast
      <3>2. tail \in 1..Len(nodes) /\ NewAddress \in Nat
        BY <3>1 DEF TypeOK, NewAddress
      <3> DEFINE linked == [nodes EXCEPT ![tail].next = NewAddress]
      <3>3. /\ linked \in Seq(Node)
            /\ Len(linked) = Len(nodes)
            /\ \A i \in 1..Len(nodes) :
                 /\ linked[i].name = nodes[i].name
                 /\ linked[i].next = IF i = tail THEN NewAddress
                                     ELSE nodes[i].next
        <4> DEFINE r == [nodes[tail] EXCEPT !.next = NewAddress]
        <4>1. nodes[tail] \in Node
          BY <3>2 DEF TypeOK
        <4>2. r \in Node /\ r.name = nodes[tail].name /\ r.next = NewAddress
          BY <3>2, <4>1 DEF Node
        <4>3. linked = [nodes EXCEPT ![tail] = r]
          OBVIOUS
        <4> HIDE DEF r, linked
        <4>4. QED
          BY <3>2, <4>2, <4>3, Overwrite DEF TypeOK
      <3>4. \A i \in 1..Len(nodes) : linked[i].next = i + 1
        BY <3>1, <3>3 DEF ListShape, NewAddress, TypeOK
      <3>5. nodes' = Append(linked, NewNode)
        BY <2>2 DEF AppendLast
      <3> HIDE DEF linked
      <3>6. QED
        BY <1>0, <2>2, <3>1, <3>3, <3>4, <3>5 DEF AppendLast, NewAddress, TypeOK
    <2>3. QED
      BY <2>1, <2>2
  <1>2. nodes'[Len(nodes) + 1].next = Null /\ nodes'[Len(nodes) + 1].name = call.name
    BY <1>1 DEF NewNode
  <1>3. call' = Idle /\ cursor' = Null /\ answer' = <<"ok", NoValue>>
    BY DEF AppendFirst, AppendLast, Return
  <1>4. Len(nodes) \in Nat
    BY DEF TypeOK
  <1>5. TypeOK'
    BY <1>1, <1>3, <1>4 DEF TypeOK, Answers
  <1>6. ListShape'
    BY <1>1, <1>2, <1>4 DEF ListShape
  <1>7. UniqueNames'
    <2> SUFFICES ASSUME NEW i \in 1..Len(nodes'), NEW j \in 1..Len(nodes'),
                        nodes'[i].name = nodes'[j].name
                 PROVE  i = j
      BY DEF UniqueNames
    <2>1. \A k \in 1..Len(nodes) : nodes'[k].name # call.name
      BY <1>0, <1>1 DEF WalkedPast
    <2>2. QED
      BY <1>1, <1>2, <1>4, <2>1 DEF UniqueNames
  <1>8. WalkedPast'
    BY <1>3 DEF WalkedPast
  <1>9. QED
    BY <1>5, <1>6, <1>7, <1>8

LEMMA ReturnPreserves ==
  IInv /\ (SetOutOfMemory \/ GetFound \/ GetMissing) => IInv'
  <1> SUFFICES ASSUME IInv, SetOutOfMemory \/ GetFound \/ GetMissing
               PROVE IInv'
    OBVIOUS
  <1> USE DEF IInv, Null, SetOutOfMemory, GetFound, GetMissing, Return
  <1>1. UNCHANGED <<nodes, head, tail>> /\ call' = Idle /\ cursor' = Null
    OBVIOUS
  <1>2. answer' \in Answers
    <2>1. CASE GetFound
      <3>1. nodes[cursor] \in Node
        BY <2>1 DEF TypeOK, Matches
      <3>2. QED
        BY <2>1, <3>1 DEF Answers, Node
    <2>2. CASE SetOutOfMemory \/ GetMissing
      BY <2>2 DEF Answers
    <2>3. QED
      BY <2>1, <2>2
  <1>3. TypeOK' /\ ListShape' /\ UniqueNames' /\ WalkedPast'
    BY <1>1, <1>2 DEF TypeOK, ListShape, UniqueNames, WalkedPast
  <1>4. QED
    BY <1>3

LEMMA StepPreserves == IInv /\ [Next]_vars => IInv'
  <1> SUFFICES ASSUME IInv, [Next]_vars PROVE IInv'
    OBVIOUS
  <1>1. CASE Next
    BY <1>1, InvokePreserves, AdvancePreserves, ReplacePreserves,
       AppendPreserves, ReturnPreserves DEF Next, Serve
  <1>2. CASE UNCHANGED vars
    BY <1>2 DEF vars, IInv, TypeOK, ListShape, UniqueNames, WalkedPast, Matches
  <1>3. QED
    BY <1>1, <1>2

THEOREM Invariance == Spec => []IInv
  <1>1. QED
    BY InitIInv, StepPreserves, PTL DEF Spec

\* Every variable has its type.
THEOREM TypeCorrect == Spec => []TypeOK
  <1>1. IInv => TypeOK
    BY DEF IInv
  <1>2. QED
    BY Invariance, <1>1, PTL

\* The chain from the head is the allocation order and ends at the tail.
THEOREM ListStaysChained == Spec => []ListShape
  <1>1. IInv => ListShape
    BY DEF IInv
  <1>2. QED
    BY Invariance, <1>1, PTL

\* No name is ever stored twice.
THEOREM NamesStayUnique == Spec => []UniqueNames
  <1>1. IInv => UniqueNames
    BY DEF IInv
  <1>2. QED
    BY Invariance, <1>1, PTL
------------------------------------------------------------------------------
\* What the refinement mapping reads from a list without duplicates.
LEMMA StoreOfHolder ==
  ASSUME UniqueNames, NEW i \in 1..Len(nodes), nodes[i].name \in Names
  PROVE  Store[nodes[i].name] = nodes[i].value
  <1>1. Holder(nodes[i].name) = {i}
    BY DEF Holder, UniqueNames
  <1>2. QED
    BY <1>1 DEF Store

LEMMA StoreOfAbsent ==
  ASSUME NEW n \in Names, \A i \in 1..Len(nodes) : nodes[i].name # n
  PROVE  Store[n] = NoValue
  BY DEF Store, Holder

LEMMA InitIsAbstract == Init => Map!Init
  <1> SUFFICES ASSUME Init PROVE Map!Init
    OBVIOUS
  <1>1. Store = [n \in Names |-> NoValue]
    BY DEF Init, Store, Holder
  <1>2. QED
    BY <1>1 DEF Init, Map!Init, Idle, Map!Idle

LEMMA UnchangedStore == UNCHANGED nodes => Store' = Store
  BY DEF Store, Holder

LEMMA ReplaceBinds == IInv /\ IInv' /\ Replace => Map!Bind
  <1> SUFFICES ASSUME IInv, IInv', Replace PROVE Map!Bind
    OBVIOUS
  <1>1. /\ cursor \in 1..Len(nodes)
        /\ nodes[cursor].name = call.name
        /\ call.name \in Names
    BY CallShape DEF IInv, TypeOK, Replace, Matches, Null
  <1>2. /\ Len(nodes') = Len(nodes)
        /\ nodes'[cursor].value = call.value
        /\ \A i \in 1..Len(nodes) : nodes'[i].name = nodes[i].name
        /\ \A i \in 1..Len(nodes) : i # cursor => nodes'[i].value = nodes[i].value
    <2> DEFINE r == [nodes[cursor] EXCEPT !.value = call.value]
    <2>1. nodes[cursor] \in Node /\ call.value \in Values
      BY <1>1, CallShape DEF IInv, TypeOK, Replace
    <2>2. r \in Node /\ r.name = nodes[cursor].name /\ r.value = call.value
      BY <2>1 DEF Node
    <2>3. nodes' = [nodes EXCEPT ![cursor] = r]
      BY DEF Replace
    <2> HIDE DEF r
    <2>4. QED
      BY <1>1, <2>2, <2>3, Overwrite DEF IInv, TypeOK
  <1>3. \A n \in Names : Store'[n] = IF n = call.name THEN call.value ELSE Store[n]
    <2> SUFFICES ASSUME NEW n \in Names
                 PROVE  Store'[n] = IF n = call.name THEN call.value ELSE Store[n]
      OBVIOUS
    <2>1. Holder(n)' = Holder(n)
      BY <1>2 DEF Holder
    <2>2. CASE n = call.name
      <3>1. Holder(n) = {cursor}
        BY <1>1, <2>2 DEF Holder, IInv, UniqueNames
      <3>2. QED
        BY <1>2, <2>1, <2>2, <3>1 DEF Store
    <2>3. CASE n # call.name
      <3>1. \A i \in Holder(n) : nodes'[i].value = nodes[i].value
        BY <1>1, <1>2, <2>3 DEF Holder
      <3>2. QED
        BY <2>1, <2>3, <3>1 DEF Store
    <2>4. QED
      BY <2>2, <2>3
  <1>4. Store' = [Store EXCEPT ![call.name] = call.value]
    BY <1>3 DEF Store
  <1>5. QED
    BY <1>4 DEF Replace, Return, Map!Bind, Idle, Map!Idle

LEMMA AppendBinds ==
  IInv /\ IInv' /\ (AppendFirst \/ AppendLast) => Map!Bind
  <1> SUFFICES ASSUME IInv, IInv', AppendFirst \/ AppendLast PROVE Map!Bind
    OBVIOUS
  <1>1. /\ call.op = "set" /\ call # Idle /\ cursor = Null
        /\ call.name \in Names
    BY CallShape DEF IInv, TypeOK, AppendFirst, AppendLast
  <1>2. \A i \in 1..Len(nodes) : nodes[i].name # call.name
    BY <1>1 DEF IInv, WalkedPast, Null
  <1>3. /\ Len(nodes') = Len(nodes) + 1
        /\ nodes'[Len(nodes) + 1] = NewNode
        /\ \A i \in 1..Len(nodes) : /\ nodes'[i].name = nodes[i].name
                                    /\ nodes'[i].value = nodes[i].value
    <2>1. CASE AppendFirst
      BY <2>1 DEF AppendFirst, IInv, TypeOK, ListShape, Null
    <2>2. CASE AppendLast
      <3>1. tail \in 1..Len(nodes) /\ NewAddress \in Nat
        BY <2>2 DEF AppendLast, IInv, TypeOK, ListShape, Null, NewAddress
      <3> DEFINE r == [nodes[tail] EXCEPT !.next = NewAddress]
                 linked == [nodes EXCEPT ![tail].next = NewAddress]
      <3>2. nodes[tail] \in Node
        BY <3>1 DEF IInv, TypeOK
      <3>3. r \in Node /\ r.name = nodes[tail].name /\ r.value = nodes[tail].value
        BY <3>1, <3>2 DEF Node
      <3>4. linked = [nodes EXCEPT ![tail] = r]
        OBVIOUS
      <3>5. nodes' = Append(linked, NewNode)
        BY <2>2 DEF AppendLast
      <3> HIDE DEF r, linked
      <3>6. /\ linked \in Seq(Node)
            /\ Len(linked) = Len(nodes)
            /\ linked[tail] = r
            /\ \A j \in 1..Len(nodes) : j # tail => linked[j] = nodes[j]
        BY <3>1, <3>3, <3>4, Overwrite DEF IInv, TypeOK
      <3>7. QED
        BY <3>1, <3>3, <3>5, <3>6 DEF IInv, TypeOK
    <2>3. QED
      BY <2>1, <2>2
  <1>4. Len(nodes) \in Nat
    BY DEF IInv, TypeOK
  <1>5. \A n \in Names : Store'[n] = IF n = call.name THEN call.value ELSE Store[n]
    <2> SUFFICES ASSUME NEW n \in Names
                 PROVE  Store'[n] = IF n = call.name THEN call.value ELSE Store[n]
      OBVIOUS
    <2>1. CASE n = call.name
      <3>1. Holder(n)' = {Len(nodes) + 1}
        BY <1>2, <1>3, <1>4, <2>1 DEF Holder, NewNode
      <3>2. QED
        BY <1>3, <2>1, <3>1 DEF Store, NewNode
    <2>2. CASE n # call.name
      <3>1. Holder(n)' = Holder(n)
        BY <1>3, <1>4, <2>2 DEF Holder, NewNode
      <3>2. \A i \in Holder(n) : nodes'[i].value = nodes[i].value
        BY <1>3 DEF Holder
      <3>3. QED
        BY <2>2, <3>1, <3>2 DEF Store
    <2>3. QED
      BY <2>1, <2>2
  <1>6. Store' = [Store EXCEPT ![call.name] = call.value]
    BY <1>5 DEF Store
  <1>7. QED
    BY <1>1, <1>6 DEF AppendFirst, AppendLast, Return, Map!Bind, Idle, Map!Idle

LEMMA GetFetches == IInv /\ (GetFound \/ GetMissing) => Map!Fetch
  <1> SUFFICES ASSUME IInv, GetFound \/ GetMissing PROVE Map!Fetch
    OBVIOUS
  <1>1. call.op = "get" /\ call # Idle /\ call.name \in Names
    BY CallShape DEF IInv, TypeOK, GetFound, GetMissing
  <1>2. Store' = Store
    BY UnchangedStore DEF GetFound, GetMissing
  <1>3. answer' = <<"value", Store[call.name]>>
    <2>1. CASE GetFound
      <3>1. cursor \in 1..Len(nodes) /\ nodes[cursor].name = call.name
        BY <2>1 DEF GetFound, Matches, IInv, TypeOK, Null
      <3>2. QED
        BY <1>1, <2>1, <3>1, StoreOfHolder DEF GetFound, Return, IInv
    <2>2. CASE GetMissing
      <3>1. \A i \in 1..Len(nodes) : nodes[i].name # call.name
        BY <1>1, <2>2 DEF GetMissing, IInv, WalkedPast
      <3>2. QED
        BY <1>1, <2>2, <3>1, StoreOfAbsent DEF GetMissing, Return
    <2>3. QED
      BY <2>1, <2>2
  <1>4. QED
    BY <1>1, <1>2, <1>3 DEF GetFound, GetMissing, Return, Map!Fetch, Idle, Map!Idle

LEMMA StepIsAbstract ==
  IInv /\ IInv' /\ [Next]_vars => [Map!Next]_(Map!varStore)
  <1> SUFFICES ASSUME IInv, IInv', [Next]_vars
               PROVE  [Map!Next]_(Map!varStore)
    OBVIOUS
  <1>1. CASE Invoke
    BY <1>1, UnchangedStore
    DEF Invoke, Map!Next, Map!Invoke, Idle, Map!Idle, Calls, Map!Calls
  <1>2. CASE Advance
    BY <1>2, UnchangedStore DEF Advance, Map!varStore
  <1>3. CASE Replace
    BY <1>3, ReplaceBinds DEF Map!Next
  <1>4. CASE AppendFirst \/ AppendLast
    BY <1>4, AppendBinds DEF Map!Next
  <1>5. CASE SetOutOfMemory
    BY <1>5, UnchangedStore
    DEF SetOutOfMemory, Return, Map!Next, Map!RefuseBind, Idle, Map!Idle
  <1>6. CASE GetFound \/ GetMissing
    BY <1>6, GetFetches DEF Map!Next
  <1>7. CASE UNCHANGED vars
    BY <1>7, UnchangedStore DEF vars, Map!varStore
  <1>8. QED
    BY <1>1, <1>2, <1>3, <1>4, <1>5, <1>6, <1>7 DEF Next, Serve

\* variables.c implements the partial map that variables.h promises.
THEOREM ListImplementsMap == Spec => ImplementsMap
  <1>1. QED
    BY Invariance, InitIsAbstract, StepIsAbstract, PTL DEF Spec, ImplementsMap, Map!Spec

\* What a step may do to the places of the list.
KeepsPlaces ==
  /\ Len(nodes') \in {Len(nodes), Len(nodes) + 1}
  /\ \A i \in 1..Len(nodes) : nodes'[i].name = nodes[i].name
  /\ \A i, j \in 1..Len(nodes) :
       nodes'[i].value # nodes[i].value /\ nodes'[j].value # nodes[j].value
         => i = j

LEMMA StepKeepsPlaces == IInv /\ [Next]_vars => [KeepsPlaces]_vars
  <1> SUFFICES ASSUME IInv, [Next]_vars
               PROVE  KeepsPlaces
    OBVIOUS
  <1>1. nodes \in Seq(Node) /\ cursor \in 0..Len(nodes) /\ Len(nodes) \in Nat
    BY DEF IInv, TypeOK
  <1>2. CASE nodes' = nodes
    BY <1>1, <1>2 DEF KeepsPlaces
  <1>3. CASE Replace
    <2>1. cursor \in 1..Len(nodes)
      BY <1>1, <1>3 DEF Replace, Matches, Null
    <2> DEFINE r == [nodes[cursor] EXCEPT !.value = call.value]
    <2>2. nodes' = [nodes EXCEPT ![cursor] = r]
      BY <1>3 DEF Replace
    <2>3. nodes[cursor] \in Node /\ call.value \in Values
      BY <1>1, <1>3, <2>1, CallShape DEF Replace, IInv, TypeOK
    <2>4. r \in Node /\ r.name = nodes[cursor].name
      BY <2>3 DEF Node
    <2> HIDE DEF r
    <2>5. /\ Len(nodes') = Len(nodes) /\ nodes'[cursor] = r
          /\ \A j \in 1..Len(nodes) : j # cursor => nodes'[j] = nodes[j]
      BY <1>1, <2>1, <2>2, <2>4, Overwrite
    <2> QED
      BY <1>1, <2>4, <2>5 DEF KeepsPlaces
  <1>4. CASE AppendFirst
    <2>1. nodes = <<>>
      BY <1>4 DEF AppendFirst, IInv, ListShape, Null
    <2>2. nodes' = <<NewNode>>
      BY <1>4, <2>1 DEF AppendFirst
    <2> QED
      BY <2>1, <2>2 DEF KeepsPlaces
  <1>5. CASE AppendLast
    <2>1. tail \in 1..Len(nodes)
      BY <1>1, <1>5 DEF AppendLast, IInv, ListShape, TypeOK, Null
    <2> DEFINE r == [nodes[tail] EXCEPT !.next = NewAddress]
               t == [nodes EXCEPT ![tail] = r]
    <2>2. r \in Node /\ r.name = nodes[tail].name /\ r.value = nodes[tail].value
      <3>1. nodes[tail] \in Node /\ NewAddress \in Nat
        BY <1>1, <2>1 DEF NewAddress
      <3> QED
        BY <3>1 DEF Node
    <2>3. nodes' = Append(t, NewNode)
      BY <1>5 DEF AppendLast
    <2> HIDE DEF r
    <2>4. /\ t \in Seq(Node) /\ Len(t) = Len(nodes) /\ t[tail] = r
          /\ \A j \in 1..Len(nodes) : j # tail => t[j] = nodes[j]
      BY <1>1, <2>1, <2>2, Overwrite
    <2> HIDE DEF t
    <2>5. /\ Len(nodes') = Len(nodes) + 1
          /\ \A j \in 1..Len(nodes) : nodes'[j] = t[j]
      BY <1>1, <2>3, <2>4
    <2> QED
      BY <1>1, <2>2, <2>4, <2>5 DEF KeepsPlaces
  <1>6. QED
    BY <1>2, <1>3, <1>4, <1>5
    DEF Next, Serve, Invoke, Advance, SetOutOfMemory, GetFound, GetMissing, vars

\* No variable ever moves, is renamed or is lost: a step appends one variable at
\* most, and changes one value at most.
THEOREM VariablesKeepTheirPlaces == Spec => PlacesAreStable
  <1>1. QED
    BY Invariance, StepKeepsPlaces, PTL DEF Spec, PlacesAreStable, KeepsPlaces

------------------------------------------------------------------------------
\* One turn of a walk: it goes to the node that was allocated next, or behind the last.
WalksOn ==
  /\ call' = call /\ nodes' = nodes
  /\ cursor \in 1..Len(nodes)
  /\ cursor' = IF cursor = Len(nodes) THEN Null ELSE cursor + 1

\* Every turn of the loops in variables_set and variables_get returns or goes to the node
\* that was allocated next, or behind the last, where the call returns (variables.c:67-146).
\* So a call takes no more turns than the list has nodes, and one: the chain has neither
\* a cycle nor an end that is not its tail.
THEOREM EveryTurnWalksOn ==
  Spec => [][call # Idle => call' = Idle \/ WalksOn]_vars
  <1>1. ASSUME IInv, [Next]_vars PROVE [call # Idle => call' = Idle \/ WalksOn]_vars
    <2>1. CASE Advance
      <3>1. cursor \in 1..Len(nodes)
        BY <1>1, <2>1 DEF Advance, IInv, TypeOK, Null
      <3>2. cursor' = IF cursor = Len(nodes) THEN Null ELSE cursor + 1
        BY <1>1, <2>1, <3>1 DEF Advance, IInv, ListShape
      <3>3. QED
        BY <2>1, <3>1, <3>2 DEF Advance, WalksOn
    <2>2. CASE Invoke
      BY <2>2 DEF Invoke
    <2>3. CASE Replace \/ AppendFirst \/ AppendLast \/ SetOutOfMemory \/ GetFound \/ GetMissing
      BY <2>3 DEF Replace, AppendFirst, AppendLast, SetOutOfMemory, GetFound, GetMissing, Return
    <2>4. QED
      BY <1>1, <2>1, <2>2, <2>3 DEF Next, Serve
  <1>2. QED
    BY <1>1, InitIInv, StepPreserves, PTL DEF Spec

==============================================================================
