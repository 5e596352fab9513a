------------------------- MODULE ModelLoaderProofs -------------------------
(***************************************************************************)
(* Proofs about load_model and llama_binding_free_model, for every length *)
(* of the tensor-split array, every set of splits and every bound on the  *)
(* loads.                                                                  *)
(*                                                                         *)
(* HandlesOwnResources is not inductive alone: freeing a handle removes   *)
(* its model and its context from the live sets, which keeps the sets     *)
(* equal to those of the remaining handles only if no other handle holds  *)
(* the same model or the same context.  The strengthening says that a     *)
(* handle holds the model and the context of one load, and a load that    *)
(* has already happened: a new load's number is then fresh.               *)
(***************************************************************************)
EXTENDS ModelLoader, TLAPS

\* Each handle holds the model and the context one earlier load created.
HandlesFromOneLoad ==
  \A h \in handles : h.model = h.ctx /\ h.model \in 1..loads

IInv == TypeOK /\ HandlesOwnResources /\ HandlesFromOneLoad

USE LoaderAssumption

-----------------------------------------------------------------------------
\* The copy loop fills the array with ratios and zeros.
LEMMA FilledType ==
  ASSUME NEW split \in Splits,
         splitValues \in [1..Slots -> Ratios \cup {0}]
  PROVE  Filled(split) \in [1..Slots -> Ratios \cup {0}]
<1>1. split \in Seq(Ratios)
  OBVIOUS
<1> QED
  BY <1>1 DEF Filled

\* What every load does before it allocates anything.
LEMMA ParseSplitType ==
  ASSUME TypeOK, NEW split \in Splits, ParseSplit(split), loads < MaxLoads
  PROVE  /\ splitValues' \in [1..Slots -> Ratios \cup {0}]
         /\ passed' \in [1..Slots -> Ratios \cup {0}] \cup {<<>>}
         /\ lastSplit' \in Splits \cup {<<>>}
         /\ loads' = loads + 1
         /\ loads' \in 0..MaxLoads
<1>1. Filled(split) \in [1..Slots -> Ratios \cup {0}]
  BY FilledType DEF TypeOK
<1> QED
  BY <1>1 DEF ParseSplit, TypeOK

LEMMA InitIInv == Init => IInv
BY DEF Init, IInv, TypeOK, HandlesOwnResources, HandlesFromOneLoad

LEMMA NextIInv == IInv /\ [Next]_vars => IInv'
<1> SUFFICES ASSUME IInv, [Next]_vars
             PROVE  IInv'
  OBVIOUS
<1> USE DEF IInv, TypeOK, HandlesOwnResources, HandlesFromOneLoad
<1>1. ASSUME NEW split \in Splits, LoadModelFail(split)
      PROVE  IInv'
  BY <1>1, ParseSplitType DEF LoadModelFail
<1>2. ASSUME NEW split \in Splits, LoadContextFail(split)
      PROVE  IInv'
  <2>1. loads' = loads + 1 /\ loads' \in 0..MaxLoads
        /\ splitValues' \in [1..Slots -> Ratios \cup {0}]
        /\ passed' \in [1..Slots -> Ratios \cup {0}] \cup {<<>>}
        /\ lastSplit' \in Splits \cup {<<>>}
    BY <1>2, ParseSplitType DEF LoadContextFail
  <2>2. created' = created \cup {loads + 1} /\ UNCHANGED <<models, ctxs, handles>>
    BY <1>2 DEF LoadContextFail
  <2>3. created' \subseteq 1..MaxLoads
    BY <2>1, <2>2
  <2>4. \A h \in handles : h.model \in 1..loads'
    BY <2>1
  <2> QED
    BY <2>1, <2>2, <2>3, <2>4
<1>3. ASSUME NEW split \in Splits, LoadOk(split)
      PROVE  IInv'
  <2> DEFINE n == loads + 1
             new == [model |-> n, ctx |-> n]
  <2>1. loads' = n /\ n \in 1..MaxLoads
    BY <1>3, ParseSplitType DEF LoadOk
  <2>2. /\ models' = models \cup {n}
        /\ ctxs' = ctxs \cup {n}
        /\ handles' = handles \cup {new}
        /\ created' = created \cup {n}
    BY <1>3 DEF LoadOk
  <2>3. \A h \in handles : h.model # n
    OBVIOUS
  <2>4. TypeOK'
    BY <1>3, <2>1, <2>2, ParseSplitType DEF LoadOk
  <2>5. HandlesOwnResources'
    <3>1. models' = {h.model : h \in handles'}
      <4>1. ASSUME NEW x \in models'
            PROVE  \E h \in handles' : x = h.model
        <5>1. CASE x \in models
          <6>1. PICK h \in handles : x = h.model
            BY <5>1
          <6> QED
            BY <6>1, <2>2
        <5>2. CASE x = n
          <6>1. new \in handles' /\ new.model = n
            BY <2>2
          <6> QED
            BY <5>2, <6>1
        <5> QED
          BY <4>1, <5>1, <5>2, <2>2
      <4>2. \A h \in handles' : h.model \in models'
        BY <2>2
      <4> QED
        BY <4>1, <4>2, Zenon
    <3>2. ctxs' = {h.ctx : h \in handles'}
      <4>1. ASSUME NEW x \in ctxs'
            PROVE  \E h \in handles' : x = h.ctx
        <5>1. CASE x \in ctxs
          <6>1. PICK h \in handles : x = h.ctx
            BY <5>1
          <6> QED
            BY <6>1, <2>2
        <5>2. CASE x = n
          <6>1. new \in handles' /\ new.ctx = n
            BY <2>2
          <6> QED
            BY <5>2, <6>1
        <5> QED
          BY <4>1, <5>1, <5>2, <2>2
      <4>2. \A h \in handles' : h.ctx \in ctxs'
        BY <2>2
      <4> QED
        BY <4>1, <4>2, Zenon
    <3>3. \A h, g \in handles' : h.model = g.model => h = g
      BY <2>2, <2>3
    <3> QED
      BY <3>1, <3>2, <3>3
  <2>6. HandlesFromOneLoad'
    BY <2>1, <2>2
  <2> QED
    BY <2>4, <2>5, <2>6
<1>4. ASSUME NEW h \in handles, FreeModel(h)
      PROVE  IInv'
  <2>1. /\ models' = models \ {h.model}
        /\ ctxs' = ctxs \ {h.ctx}
        /\ handles' = handles \ {h}
        /\ UNCHANGED <<splitValues, passed, lastSplit, created, loads>>
    BY <1>4 DEF FreeModel
  <2>2. \A g \in handles \ {h} : g.model # h.model /\ g.ctx # h.ctx
    OBVIOUS
  <2>3. models' = {g.model : g \in handles'} /\ ctxs' = {g.ctx : g \in handles'}
    BY <2>1, <2>2
  <2> QED
    BY <2>1, <2>3
<1>5. CASE UNCHANGED vars
  BY <1>5 DEF vars
<1> QED
  BY <1>1, <1>2, <1>3, <1>4, <1>5 DEF Next

-----------------------------------------------------------------------------
\* The tensor-split array, the arguments and the allocations keep their
\* types: in particular the copy loop never writes past the array.
THEOREM TypeCorrect == Spec => []TypeOK
<1>1. IInv => TypeOK
  BY DEF IInv
<1> QED
  BY InitIInv, NextIInv, <1>1, PTL DEF Spec

\* Every live model and context belongs to exactly one handle the host
\* holds, over any sequence of loads (with their failure paths) and frees.
THEOREM NoLeakedHandles == Spec => []HandlesOwnResources
<1>1. IInv => HandlesOwnResources
  BY DEF IInv
<1> QED
  BY InitIInv, NextIInv, <1>1, PTL DEF Spec

=============================================================================
