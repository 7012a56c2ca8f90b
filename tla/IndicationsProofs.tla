-------------------------- MODULE IndicationsProofs --------------------------
(***************************************************************************)
(* What TLAPS proves of Indications, for every set of kinds, every length  *)
(* of the poll, every burst and every set of faults.                       *)
(***************************************************************************)
EXTENDS Indications, TLAPS, FiniteSetTheorems

(* Where the parent has no child to look after, there is none alive. *)
Quiet ==
    pc \in {"subscribe", "fork", "next", "unsubscribe", "done", "off"} =>
        child \in {"none", "killed", "reaped"}

(* What the parent may conclude from the kinds it has gone through. *)
Seen ==
    /\ child \in {"unsubscribe", "exit0"} => ind \in got
    /\ pc \in {"subscribe", "fork"} => Kinds \ left \subseteq got
    /\ pc \in {"trigger", "poll", "raised"} =>
          Kinds \ (left \cup {ind}) \subseteq got
    /\ pc \in {"next", "unsubscribe", "done"} /\ status = "PASS" =>
          Kinds \ left \subseteq got
    /\ pc \in {"unsubscribe", "done"} /\ status = "PASS" => left = {}

(* The two counters, whose bounds are the loops', follow in Counts.        *)
Types ==
    /\ reg \in [Kinds -> SUBSET Parts] /\ kept \subseteq Kinds \X Parts
    /\ todo \in [Kinds -> 0..3] /\ ctodo \in [Kinds -> 0..3]
    /\ flight \in [Kinds -> [Kinds -> 0..Burst]]
    /\ left \subseteq Kinds /\ ind \in Kinds /\ got \subseteq Kinds
    /\ pc \in ParentPcs
    /\ status \in {"PASS", "FAIL"}
    /\ child \in ChildPcs

(* Where the parent deletes, what is there has been refused to it or is    *)
(* still to come in its loop.                                              *)
Deleted ==
    pc \in {"unsubscribe", "done"} =>
        \A k \in Kinds, p \in Parts : p \in reg[k] =>
            \/ <<k, p>> \in kept
            \/ pc = "unsubscribe" /\ \E i \in 1..todo[k] : p = Deleting[i]

IndInv == Types /\ Quiet /\ Seen /\ Deleted

LEMMA IndInvInit == ASSUME Init PROVE IndInv
  <1> USE IndAssumption DEF Init
  <1>1. Types
    BY DEF Types, ParentPcs, ChildPcs, AllCalls, NoCalls
  <1>2. Quiet BY DEF Quiet
  <1>3. Seen BY DEF Seen
  <1>4. Deleted BY DEF Deleted
  <1> QED BY <1>1, <1>2, <1>3, <1>4 DEF IndInv

(* A loop of calls has one for every part.                                 *)
LEMMA EveryPart ==
  /\ \A n \in 1..3 : Making[n] \in Parts /\ Deleting[n] \in Parts
  /\ \A p \in Parts : \E n \in 1..3 : p = Deleting[n]
  <1>1. /\ Deleting[1] = "filter" /\ Deleting[2] = "handler"
        /\ Deleting[3] = "subscription"
        /\ Making[3] = "filter" /\ Making[2] = "handler"
        /\ Making[1] = "subscription"
    BY DEF Making, Deleting
  <1> QED BY <1>1 DEF Parts

(* A kind whose call is next has a call left, and then one less.           *)
LEMMA NextCall ==
  ASSUME NEW calls \in [Kinds -> 0..3], NEW k \in NextOf(calls)
  PROVE  /\ k \in Kinds /\ calls[k] \in 1..3
         /\ CallMade(calls, k) \in [Kinds -> 0..3]
         /\ CallMade(calls, k)[k] = calls[k] - 1
         /\ \A j \in Kinds \ {k} : CallMade(calls, k)[j] = calls[j]
  BY DEF NextOf, CallMade

(* An answered call keeps the type of reg, and changes one part at most.   *)
LEMMA RegType ==
  ASSUME reg \in [Kinds -> SUBSET Parts], NEW k \in Kinds, NEW n \in 1..3,
         PostCreate(k, n) \/ PostDelete(k, n)
  PROVE  reg' \in [Kinds -> SUBSET Parts]
  <1>1. Making[n] \in Parts BY EveryPart
  <1>2. CASE PostCreate(k, n) BY <1>1, <1>2 DEF PostCreate
  <1>3. CASE PostDelete(k, n) BY <1>3 DEF PostDelete
  <1> QED BY <1>2, <1>3

(* A deletion takes nothing else away and adds nothing, and what it was    *)
(* meant for is left only if it was refused.                               *)
LEMMA DeletedStep ==
  ASSUME Types, Deleted, pc = "unsubscribe", UNCHANGED pc,
         NEW k \in NextOf(todo), PostDelete(k, todo[k]),
         todo' = CallMade(todo, k),
         kept' = kept \cup ({<<k, Deleting[todo[k]]>>} \cap Instances')
  PROVE  Deleted' /\ kept' \subseteq Kinds \X Parts
  <1>1. k \in Kinds /\ todo[k] \in 1..3 /\ todo'[k] = todo[k] - 1
        /\ \A j \in Kinds \ {k} : todo'[j] = todo[j]
    BY NextCall DEF Types
  <1>2. reg' \in [Kinds -> SUBSET Parts]
    BY <1>1, RegType DEF Types
  <1>3. \A j \in Kinds : reg'[j] \subseteq reg[j]
    BY DEF PostDelete, Types
  <1>4. Instances' \subseteq Kinds \X Parts BY DEF Instances
  <1>5. ASSUME NEW j \in Kinds, NEW p \in Parts, p \in reg'[j]
        PROVE  \/ <<j, p>> \in kept'
               \/ \E i \in 1..todo'[j] : p = Deleting[i]
    <2>1. CASE <<j, p>> \in kept BY <2>1
    <2>2. CASE \E i \in 1..todo[j] : p = Deleting[i]
      <3>1. PICK i \in 1..todo[j] : p = Deleting[i] BY <2>2
      <3>2. CASE j = k /\ i = todo[k]
        <4>1. <<k, p>> \in Instances' BY <1>5, <3>2 DEF Instances
        <4> QED BY <3>1, <3>2, <4>1
      <3>3. CASE ~(j = k /\ i = todo[k])
        <4>1. i \in 1..todo'[j] BY <1>1, <3>3 DEF Types
        <4> QED BY <3>1, <4>1
      <3> QED BY <3>2, <3>3
    <2> QED BY <1>3, <1>5, <2>1, <2>2 DEF Deleted
  <1> QED BY <1>4, <1>5 DEF Deleted, Types

LEMMA ParentKeepsInv == ASSUME IndInv, Parent PROVE IndInv'
  <1> USE DEF IndInv, Types, Quiet, Seen, ParentPcs, ChildPcs, son
  <1>1. ASSUME NEW k \in Kinds, Subscribe(k) PROVE IndInv'
    <2>1. k \in NextOf(todo) /\ todo' = CallMade(todo, k)
      BY <1>1 DEF Subscribe
    <2>2. todo[k] \in 1..3 /\ todo' \in [Kinds -> 0..3] BY <2>1, NextCall
    <2>3. reg' \in [Kinds -> SUBSET Parts]
      BY <1>1, <2>2, RegType DEF Subscribe
    <2> QED BY <1>1, <2>2, <2>3 DEF Subscribe, Deleted
  <1>2. ASSUME NEW k \in Kinds, Fork(k) PROVE IndInv'
    BY <1>2 DEF Fork, Deleted
  <1>3. CASE PostFails BY <1>3 DEF PostFails, Deleted
  <1>4. CASE Trigger
    <2>1. flight' \in [Kinds -> [Kinds -> 0..Burst]]
      BY <1>4 DEF Trigger, Deliver
    <2> QED BY <1>4, <2>1 DEF Trigger, Deleted
  <1>5. CASE Poll BY <1>5 DEF Poll, Deleted
  <1>6. CASE KillChild BY <1>6 DEF KillChild, NoCalls, Deleted
  <1>7. CASE NextKind
    <2>1. CASE status # "PASS" \/ left = {}
      <3>1. pc' = "unsubscribe" /\ \A k \in Kinds : todo'[k] = 3
        BY <1>7, <2>1 DEF NextKind, AllCalls
      <3>2. Deleted' BY <1>7, <3>1, EveryPart DEF NextKind, Deleted
      <3>3. todo' \in [Kinds -> 0..3]
        BY <1>7, <2>1 DEF NextKind, AllCalls
      <3> QED BY <1>7, <2>1, <3>2, <3>3 DEF NextKind
    <2>2. CASE ~(status # "PASS" \/ left = {})
      BY <1>7, <2>2 DEF NextKind, Deleted
    <2> QED BY <2>1, <2>2
  <1>8. CASE UnsubscribeAll
    <2>1. ASSUME NEW k \in NextOf(todo),
                 /\ PostDelete(k, todo[k]) /\ todo' = CallMade(todo, k)
                 /\ kept' = kept \cup
                              ({<<k, Deleting[todo[k]]>>} \cap Instances')
                 /\ UNCHANGED <<pc, status>>
          PROVE  IndInv'
      <3>1. Deleted' /\ kept' \subseteq Kinds \X Parts
        BY <1>8, <2>1, DeletedStep DEF UnsubscribeAll
      <3>2. k \in Kinds /\ todo[k] \in 1..3 /\ todo' \in [Kinds -> 0..3]
        BY <2>1, NextCall
      <3>3. reg' \in [Kinds -> SUBSET Parts] BY <2>1, <3>2, RegType
      <3> QED BY <1>8, <2>1, <3>1, <3>2, <3>3 DEF UnsubscribeAll
    <2>2. CASE /\ todo = NoCalls /\ pc' = "done"
               /\ UNCHANGED <<reg, todo, kept>>
      <3>1. Deleted' BY <1>8, <2>2 DEF UnsubscribeAll, Deleted, NoCalls
      <3> QED BY <1>8, <2>2, <3>1 DEF UnsubscribeAll
    <2> QED BY <1>8, <2>1, <2>2 DEF UnsubscribeAll
  <1> QED BY <1>1, <1>2, <1>3, <1>4, <1>5, <1>6, <1>7, <1>8 DEF Parent

(* A child acts only while the parent looks after it. *)
LEMMA ChildKeepsInv == ASSUME IndInv, Child PROVE IndInv'
  <1> USE DEF IndInv, Types, Quiet, Seen, Deleted, ParentPcs, ChildPcs,
              parent
  <1>1. ASSUME NEW k \in Kinds, Take(k) PROVE IndInv'
    <2>1. flight' \in [Kinds -> [Kinds -> 0..Burst]]
      <3>1. flight[ind][k] - 1 \in 0..Burst BY <1>1, IndAssumption DEF Take
      <3> QED BY <1>1, <3>1 DEF Take
    <2>2. ctodo' \in [Kinds -> 0..3] BY <1>1 DEF Take, NoCalls
    <2> QED BY <1>1, <2>1, <2>2 DEF Take
  <1>2. CASE TakeNothing BY <1>2 DEF TakeNothing
  <1>3. CASE ChildUnsubscribe
    <2>1. CASE child \in {"unsubscribe", "tail"} /\ UNCHANGED child
      <3>1. PICK k \in NextOf(ctodo) :
                   PostDelete(k, ctodo[k]) /\ ctodo' = CallMade(ctodo, k)
        BY <1>3, <2>1 DEF ChildUnsubscribe
      <3>2. k \in Kinds /\ ctodo[k] \in 1..3 /\ ctodo' \in [Kinds -> 0..3]
        BY <3>1, NextCall
      <3>3. reg' \in [Kinds -> SUBSET Parts] BY <3>1, <3>2, RegType
      <3> QED BY <1>3, <2>1, <3>2, <3>3 DEF ChildUnsubscribe
    <2>2. CASE UNCHANGED <<reg, ctodo>>
      BY <1>3, <2>2 DEF ChildUnsubscribe
    <2> QED BY <1>3, <2>1, <2>2 DEF ChildUnsubscribe
  <1>4. CASE ChildPostFails
    BY <1>4 DEF ChildPostFails, AllCalls, NoCalls
  <1> QED BY <1>1, <1>2, <1>3, <1>4 DEF Child

THEOREM IndInvariant == Spec => []IndInv
  <1>1. Init => IndInv BY IndInvInit
  <1>2. IndInv /\ [Next]_vars => IndInv'
    <2> SUFFICES ASSUME IndInv, [Next]_vars PROVE IndInv' OBVIOUS
    <2>1. CASE Next BY <2>1, ParentKeepsInv, ChildKeepsInv DEF Next
    <2>2. CASE UNCHANGED vars
      BY <2>2 DEF vars, IndInv, Types, Quiet, Seen, Deleted
    <2> QED BY <2>1, <2>2
  <1> QED BY <1>1, <1>2, PTL DEF Spec

(* Although poll_for_ind never kills the child, no child outlives its kind *)
(* (the kill in the except clause of main).                                *)
THEOREM NoChildOutlives == Spec => []NoStrayChild
  <1>1. IndInv => NoStrayChild BY DEF IndInv, Quiet, NoStrayChild
  <1> QED BY <1>1, IndInvariant, PTL

(* What is left at the CIMOM when the script returns was refused to the    *)
(* parent, even if a child was killed between two of its deletions, was    *)
(* refused some of them or ran the end of main itself, and whatever an     *)
(* earlier script had left (the last loop of main).                        *)
THEOREM AllUnsubscribed == Spec => []Unsubscribed
  <1>1. IndInv => Unsubscribed
    BY DEF IndInv, Deleted, Unsubscribed, Instances
  <1> QED BY <1>1, IndInvariant, PTL

(* PASS stands for every kind of indication. *)
THEOREM PassIsSeen == Spec => []PassMeansSeen
  <1>1. IndInv => PassMeansSeen
    BY DEF IndInv, Types, Seen, PassMeansSeen
  <1> QED BY <1>1, IndInvariant, PTL

-----------------------------------------------------------------------------
(* The rounds of poll_for_ind and of handle_request: a child that serves   *)
(* has a round left.                                                       *)
Counts ==
    /\ polls \in 0..MaxPolls
    /\ served \in 0..Cardinality(Kinds)
    /\ child = "serve" => served < Cardinality(Kinds)

LEMMA CountKinds == Cardinality(Kinds) \in Nat \ {0}
  BY IndAssumption, FS_CardinalityType, FS_EmptySet

LEMMA CountsStep ==
  ASSUME IndInv, Counts, [Next]_vars PROVE Counts'
  <1> USE IndAssumption, CountKinds DEF Counts, parent, son
  <1>1. CASE Parent
    BY <1>1 DEF Parent, Subscribe, Fork, PostFails, Trigger, Poll,
                KillChild, NextKind, UnsubscribeAll
  <1>2. ASSUME NEW k \in Kinds, Take(k) PROVE Counts'
    BY <1>2 DEF Take
  <1>3. CASE TakeNothing \/ ChildUnsubscribe \/ ChildPostFails
    BY <1>3 DEF TakeNothing, ChildUnsubscribe, ChildPostFails
  <1>4. CASE UNCHANGED vars BY <1>4 DEF vars
  <1> QED BY <1>1, <1>2, <1>3, <1>4 DEF Next, Child

(* Every variable stays in its range, and the two loops, over i in         *)
(* poll_for_ind and over exp_ind_ct in handle_request, within their        *)
(* bounds.                                                                 *)
THEOREM TypesKept == Spec => []TypeOK
  <1>1. Init => Counts
    BY IndAssumption, CountKinds DEF Init, Counts
  <1>2. IndInv /\ Counts /\ [Next]_vars => Counts' BY CountsStep
  <1>3. IndInv /\ Counts => TypeOK
    BY DEF IndInv, Types, Counts, TypeOK
  <1> QED BY <1>1, <1>2, <1>3, IndInvariant, PTL DEF Spec
-----------------------------------------------------------------------------
(***************************************************************************)
(* The parent gets to its end.  Its work is a finite set of steps: each    *)
(* step of the parent takes one out at least, and no child puts one back.  *)
(* That the parent takes its steps is the fairness of FairSpec, which TLC  *)
(* uses for ScriptEnds.                                                    *)
(***************************************************************************)
LoopPcs == {"fork", "trigger", "poll", "raised", "next"}
Places  == LoopPcs \cup {"create", "delete", "end"}
Rounds  == 0..(MaxPolls + 3)
Busy    == pc \notin {"done", "off"}

(* The places of the loop that the kind at hand has still to go through. *)
Rest == CASE pc = "trigger" -> {"trigger", "poll", "raised", "next"}
          [] pc = "poll"    -> {"poll", "raised", "next"}
          [] pc = "raised"  -> {"raised", "next"}
          [] pc = "next"    -> {"next"}
          [] OTHER          -> {}

(* Round i of kind k at place p is still ahead. *)
Ahead(p, k, i) ==
    \/ p = "create" /\ pc = "subscribe" /\ i \in 1..todo[k]
    \/ p \in LoopPcs /\ pc \in LoopPcs \cup {"subscribe"} /\ k \in left
    \/ /\ p \in Rest /\ k = ind
       /\ p = "poll" /\ pc = "poll" => i + polls <= MaxPolls
    \/ /\ p = "delete" /\ Busy /\ i \in 1..3
       /\ pc = "unsubscribe" => i <= todo[k]
    \/ p = "end" /\ Busy

Work == {s \in (Places \X Kinds) \X Rounds : Ahead(s[1][1], s[1][2], s[2])}

(* The kind at hand is not to be taken again. *)
Taken == pc \in {"trigger", "poll", "raised", "next"} => ind \notin left

LEMMA WorkFinite == IsFiniteSet(Work)
  <1>1. IsFiniteSet(Places)
    <2>1. Places = {"fork"} \cup {"trigger"} \cup {"poll"} \cup {"raised"}
                     \cup {"next"} \cup {"create"} \cup {"delete"}
                     \cup {"end"}
      BY DEF Places, LoopPcs
    <2> QED BY <2>1, FS_Singleton, FS_Union
  <1>2. IsFiniteSet(Rounds) BY IndAssumption, FS_Interval DEF Rounds
  <1>3. IsFiniteSet((Places \X Kinds) \X Rounds)
    BY <1>1, <1>2, IndAssumption, FS_Product
  <1> QED BY <1>3, FS_Subset DEF Work

(* What is enough for a step to take something out of the work. *)
NoneBack == \A p \in Places, k \in Kinds, i \in Rounds :
                Ahead(p, k, i)' => Ahead(p, k, i)
OneOut   == \E p \in Places, k \in Kinds, i \in Rounds :
                Ahead(p, k, i) /\ ~Ahead(p, k, i)'

LEMMA WorkShrinks ==
  /\ NoneBack => Work' \subseteq Work
  /\ OneOut => Work' # Work
  <1>1. ASSUME NoneBack PROVE Work' \subseteq Work
    BY <1>1 DEF NoneBack, Work
  <1>2. ASSUME OneOut PROVE Work' # Work
    <2>1. PICK p \in Places, k \in Kinds, i \in Rounds :
                 Ahead(p, k, i) /\ ~Ahead(p, k, i)'
      BY <1>2 DEF OneOut
    <2>2. <<<<p, k>>, i>> \in Work BY <2>1 DEF Work
    <2>3. <<<<p, k>>, i>> \notin Work' BY <2>1 DEF Work
    <2> QED BY <2>2, <2>3
  <1> QED BY <1>1, <1>2

LEMMA ParentNearer ==
  ASSUME IndInv, Counts, Taken, Parent
  PROVE  NoneBack /\ OneOut /\ Taken'
  <1> USE IndAssumption DEF IndInv, Types, Counts, Taken, NoneBack, OneOut,
                            Ahead, Busy, Rest, LoopPcs, Places, Rounds, son
  <1>1. ASSUME NEW k \in Kinds, Subscribe(k)
        PROVE  NoneBack /\ OneOut /\ Taken'
    <2>1. k \in NextOf(todo) /\ todo' = CallMade(todo, k)
      BY <1>1 DEF Subscribe
    <2>2. /\ todo[k] \in 1..3 /\ todo'[k] = todo[k] - 1
          /\ \A j \in Kinds : todo'[j] \in 0..3 /\ todo'[j] <= todo[j]
      BY <2>1, NextCall
    <2>3. NoneBack BY <1>1, <2>2 DEF Subscribe
    <2>4. OneOut
      <3>1. PICK i \in Rounds : i = todo[k] BY <2>2
      <3>2. Ahead("create", k, i) /\ ~Ahead("create", k, i)'
        BY <1>1, <2>2, <3>1 DEF Subscribe
      <3> QED BY <3>2
    <2> QED BY <1>1, <2>3, <2>4 DEF Subscribe
  <1>2. CASE PostFails
    <2>1. Ahead("end", ind, 0) /\ ~Ahead("end", ind, 0)'
      BY <1>2 DEF PostFails
    <2> QED BY <1>2, <2>1 DEF PostFails
  <1>3. ASSUME NEW k \in Kinds, Fork(k)
        PROVE  NoneBack /\ OneOut /\ Taken'
    <2>1. Ahead("fork", k, 0) /\ ~Ahead("fork", k, 0)' BY <1>3 DEF Fork
    <2>2. NoneBack BY <1>3 DEF Fork
    <2> QED BY <1>3, <2>1, <2>2 DEF Fork
  <1>4. CASE Trigger
    <2>1. Ahead("trigger", ind, 0) /\ ~Ahead("trigger", ind, 0)'
      BY <1>4 DEF Trigger
    <2>2. NoneBack BY <1>4 DEF Trigger
    <2> QED BY <1>4, <2>1, <2>2 DEF Trigger
  <1>5. CASE Poll
    <2>1. CASE UNCHANGED pc
      <3>1. PICK i \in Rounds : i = MaxPolls - polls OBVIOUS
      <3>2. Ahead("poll", ind, i) /\ ~Ahead("poll", ind, i)'
        BY <1>5, <2>1, <3>1 DEF Poll
      <3>3. NoneBack BY <1>5, <2>1 DEF Poll
      <3> QED BY <1>5, <2>1, <3>1, <3>2, <3>3 DEF Poll
    <2>2. CASE pc' \in {"raised", "next"} /\ UNCHANGED polls
      <3>1. Ahead("poll", ind, 0) /\ ~Ahead("poll", ind, 0)'
        BY <1>5, <2>2 DEF Poll
      <3>2. NoneBack BY <1>5, <2>2 DEF Poll
      <3> QED BY <1>5, <2>2, <3>1, <3>2 DEF Poll
    <2> QED BY <1>5, <2>1, <2>2 DEF Poll
  <1>6. CASE KillChild
    <2>1. Ahead("raised", ind, 0) /\ ~Ahead("raised", ind, 0)'
      BY <1>6 DEF KillChild
    <2>2. NoneBack BY <1>6 DEF KillChild
    <2> QED BY <1>6, <2>1, <2>2 DEF KillChild
  <1>7. CASE NextKind
    <2>1. Ahead("next", ind, 0) /\ ~Ahead("next", ind, 0)'
      BY <1>7 DEF NextKind
    <2>2. NoneBack BY <1>7 DEF NextKind
    <2> QED BY <1>7, <2>1, <2>2 DEF NextKind
  <1>8. CASE UnsubscribeAll
    <2>1. CASE UNCHANGED pc
      <3>1. PICK k \in NextOf(todo) : todo' = CallMade(todo, k)
        BY <1>8, <2>1 DEF UnsubscribeAll
      <3>2. /\ k \in Kinds /\ todo[k] \in 1..3 /\ todo'[k] = todo[k] - 1
            /\ \A j \in Kinds : todo'[j] \in 0..3 /\ todo'[j] <= todo[j]
        <4>1. k \in Kinds /\ todo[k] \in 1..3 /\ todo'[k] = todo[k] - 1
          BY <3>1, NextCall
        <4>2. ASSUME NEW j \in Kinds
              PROVE  todo'[j] \in 0..3 /\ todo'[j] <= todo[j]
          <5>1. CASE j = k BY <4>1, <5>1
          <5>2. CASE j # k
            <6>1. todo'[j] = todo[j] BY <3>1, <5>2, NextCall
            <6> QED BY <6>1
          <5> QED BY <5>1, <5>2
        <4> QED BY <4>1, <4>2
      <3>3. PICK i \in Rounds : i = todo[k] BY <3>2
      <3>4. Ahead("delete", k, i) /\ ~Ahead("delete", k, i)'
        BY <1>8, <2>1, <3>2, <3>3 DEF UnsubscribeAll
      <3>5. NoneBack BY <1>8, <2>1, <3>2 DEF UnsubscribeAll
      <3> QED BY <1>8, <2>1, <3>2, <3>4, <3>5 DEF UnsubscribeAll
    <2>2. CASE pc' = "done" /\ UNCHANGED reg
      <3>1. Ahead("end", ind, 0) /\ ~Ahead("end", ind, 0)'
        BY <1>8, <2>2 DEF UnsubscribeAll
      <3> QED BY <1>8, <2>2, <3>1 DEF UnsubscribeAll
    <2> QED BY <1>8, <2>1, <2>2 DEF UnsubscribeAll
  <1> QED BY <1>1, <1>2, <1>3, <1>4, <1>5, <1>6, <1>7, <1>8 DEF Parent

(* A child touches nothing that the parent's work hangs on.                *)
LEMMA ChildAside == ASSUME IndInv, Taken, Child PROVE NoneBack /\ Taken'
  <1>1. UNCHANGED parent
    BY DEF Child, Take, TakeNothing, ChildUnsubscribe, ChildPostFails
  <1> QED BY <1>1 DEF Taken, NoneBack, Ahead, Busy, Rest, parent

(* The parent takes finitely many steps, and gets to its end with the last *)
(* of them, however its child fares and whatever is delivered              *)
(* (poll_for_ind, and the loops of main over the kinds).                   *)
THEOREM ParentIsShort ==
  Spec => /\ [](IsFiniteSet(Work) /\ (Work = {} <=> pc \in {"done", "off"}))
          /\ [][Work' \subseteq Work /\ (Parent => Work' # Work)]_vars
  <1>1. Init => Taken BY DEF Init, Taken
  <1>2. IndInv /\ Counts /\ Taken /\ [Next]_vars =>
          /\ Counts' /\ Taken'
          /\ [Work' \subseteq Work /\ (Parent => Work' # Work)]_vars
    <2> SUFFICES ASSUME IndInv, Counts, Taken, [Next]_vars
                 PROVE  /\ Taken'
                        /\ [/\ Work' \subseteq Work
                            /\ Parent => Work' # Work]_vars
      BY CountsStep
    <2>1. CASE Parent BY <2>1, ParentNearer, WorkShrinks
    <2>2. CASE Child /\ ~Parent BY <2>2, ChildAside, WorkShrinks
    <2>3. CASE UNCHANGED vars BY <2>3 DEF vars, Taken
    <2> QED BY <2>1, <2>2, <2>3 DEF Next
  <1>3. Init => Counts BY IndAssumption, CountKinds DEF Init, Counts
  <1>4. IndInv => IsFiniteSet(Work) /\ (Work = {} <=> pc \in {"done", "off"})
    <2> SUFFICES ASSUME IndInv PROVE Work = {} <=> pc \in {"done", "off"}
      BY WorkFinite
    <2>1. CASE Busy
      <3>1. Ahead("end", ind, 0) /\ ind \in Kinds /\ 0 \in Rounds
        BY <2>1, IndAssumption DEF Ahead, Rounds, IndInv, Types
      <3>2. <<<<"end", ind>>, 0>> \in Work BY <3>1 DEF Work, Places
      <3> QED BY <2>1, <3>2 DEF Busy
    <2>2. CASE ~Busy
      <3>1. \A p \in Places, k \in Kinds, i \in Rounds : ~Ahead(p, k, i)
        BY <2>2 DEF Ahead, Busy, Rest, LoopPcs
      <3> QED BY <2>2, <3>1 DEF Work, Busy
    <2> QED BY <2>1, <2>2
  <1> QED BY <1>1, <1>2, <1>3, <1>4, IndInvariant, PTL DEF Spec
=============================================================================
