--------------------------- MODULE TrustStoreProofs ---------------------------
(***************************************************************************)
(* Proofs about TrustStore, for any number of threads, nodes and keys: the *)
(* atomicity of each dictionary, and when the two can differ.              *)
(***************************************************************************)
EXTENDS TrustStore, TLAPS

\* Without an overlap a node has one writer, ...
OneWriter ==
    \A n \in Node : ~overlap[n] =>
        \A t, u \in Thread : Writing(t, n) /\ Writing(u, n) => t = u

\* ... whose key is in the objects once it has stored it there.
WriterStored ==
    \A t \in Thread :
        pc[t] = "second" /\ ~overlap[call[t].node] => objects[call[t].node] = call[t].key

IInv == TypeOK /\ OneWriter /\ WriterStored /\ AgreeUnlessOverlap

LEMMA CallFields ==
    ASSUME NEW c \in Call
    PROVE  /\ c # NoCall
           /\ c.node \in Node
           /\ c.key \in Key \cup {NoKey}
           /\ c.op \in {"load", "remove", "load_malformed", "is_trusted", "get_public_key"}
  BY NoCallAssumption DEF Call

\* A thread that is at an access is in a call.
LEMMA InCall ==
    ASSUME TypeOK, NEW t \in Thread, pc[t] # "idle"
    PROVE  /\ call[t] \in Call /\ call[t] # NoCall
           /\ call[t].node \in Node /\ call[t].key \in Key \cup {NoKey}
<1>1. call[t] \in Call
  BY DEF TypeOK
<1> QED
  BY <1>1, CallFields

-----------------------------------------------------------------------------
LEMMA InitIInv == Init => IInv
  BY DEF Init, IInv, TypeOK, OneWriter, WriterStored, AgreeUnlessOverlap, Writing

LEMMA StartIInv ==
    ASSUME IInv, NEW t \in Thread, NEW c \in Call, Start(t, c)
    PROVE  IInv'
<1> USE DEF Start, Writes
<1>1. TypeOK
  BY DEF IInv
<1>2. c # NoCall /\ c.node \in Node /\ c.key \in Key \cup {NoKey}
  BY CallFields
<1>3. /\ call' = [call EXCEPT ![t] = c] /\ pc' = [pc EXCEPT ![t] = "first"]
      /\ call[t] = NoCall /\ UNCHANGED <<objects, bytes, trusts, holds>>
      /\ call'[t] = c /\ pc'[t] = "first"
      /\ \A u \in Thread \ {t} : call'[u] = call[u] /\ pc'[u] = pc[u]
  BY <1>1 DEF TypeOK
<1>4. \A n \in Node : ~Writing(t, n)
  BY <1>3 DEF Writing
<1>5. \A u \in Thread, n \in Node : u # t => (Writing(u, n)' <=> Writing(u, n))
  BY <1>3 DEF Writing
<1>6. \A n \in Node : Writing(t, n)' <=> c.op \in Writes /\ c.node = n
  BY <1>2, <1>3 DEF Writing
<1>7. /\ overlap' \in [Node -> BOOLEAN]
      /\ \A n \in Node : ~(c.op \in Writes /\ c.node = n) => overlap'[n] = overlap[n]
      /\ c.op \in Writes => overlap'[c.node] = \E u \in Thread : Writing(u, c.node)
  BY <1>1, <1>2 DEF TypeOK
<1>8. TypeOK'
  BY <1>1, <1>2, <1>3, <1>7 DEF TypeOK
<1>9. OneWriter'
  <2> SUFFICES ASSUME NEW n \in Node, ~overlap'[n], NEW u \in Thread, NEW v \in Thread,
                      Writing(u, n)', Writing(v, n)'
               PROVE  u = v
    BY DEF OneWriter
  <2>1. CASE c.op \in Writes /\ c.node = n
    BY <1>5, <1>7, <2>1
  <2>2. CASE ~(c.op \in Writes /\ c.node = n)
    BY <1>5, <1>6, <1>7, <2>2 DEF IInv, OneWriter
  <2> QED
    BY <2>1, <2>2
<1>10. WriterStored'
  <2> SUFFICES ASSUME NEW u \in Thread, pc'[u] = "second", ~overlap'[call'[u].node]
               PROVE  objects[call[u].node] = call[u].key /\ u # t
    BY <1>3 DEF WriterStored
  <2>1. u # t /\ pc[u] = "second" /\ call'[u] = call[u]
    BY <1>3
  <2>2. call[u].node \in Node /\ Writing(u, call[u].node)
    BY <1>1, <2>1, InCall DEF TypeOK, Writing
  <2>3. ~overlap[call[u].node]
    BY <1>7, <2>1, <2>2
  <2> QED
    BY <2>1, <2>3 DEF IInv, WriterStored
<1>11. AgreeUnlessOverlap'
  <2> SUFFICES ASSUME NEW n \in Node, objects[n] # bytes[n]
               PROVE  overlap'[n] \/ \E u \in Thread : Writing(u, n)' /\ pc'[u] # "done"
    BY <1>3 DEF AgreeUnlessOverlap
  <2>1. CASE c.op \in Writes /\ c.node = n
    BY <1>3, <1>6, <2>1
  <2>2. CASE ~(c.op \in Writes /\ c.node = n)
    BY <1>3, <1>4, <1>5, <1>7, <2>2 DEF IInv, AgreeUnlessOverlap
  <2> QED
    BY <2>1, <2>2
<1> QED
  BY <1>8, <1>9, <1>10, <1>11 DEF IInv

LEMMA StoreObjectIInv ==
    ASSUME IInv, NEW t \in Thread, StoreObject(t)
    PROVE  IInv'
<1>1. TypeOK
  BY DEF IInv
<1> DEFINE m == call[t].node
<1>2. /\ pc[t] = "first" /\ call[t].op \in Writes
      /\ objects' = [objects EXCEPT ![m] = call[t].key]
      /\ pc' = [pc EXCEPT ![t] = "second"]
      /\ UNCHANGED <<bytes, call, trusts, holds, overlap>>
  BY DEF StoreObject, At, Goto
<1>3. m \in Node /\ call[t].key \in Key \cup {NoKey} /\ call[t] # NoCall /\ Writing(t, m)
  BY <1>1, <1>2, InCall DEF Writing
<1>4. /\ objects'[m] = call[t].key /\ \A n \in Node \ {m} : objects'[n] = objects[n]
      /\ pc'[t] = "second" /\ \A u \in Thread \ {t} : pc'[u] = pc[u]
  BY <1>1, <1>2, <1>3 DEF TypeOK
<1>5. TypeOK'
  BY <1>1, <1>2, <1>3, <1>4 DEF TypeOK
<1>6. OneWriter'
  BY <1>2 DEF IInv, OneWriter, Writing
<1>7. WriterStored'
  <2> SUFFICES ASSUME NEW u \in Thread, pc'[u] = "second", ~overlap[call[u].node]
               PROVE  objects'[call[u].node] = call[u].key
    BY <1>2 DEF WriterStored
  <2>1. CASE u = t
    BY <1>4, <2>1
  <2>2. CASE u # t
    <3>1. pc[u] = "second" /\ call[u].node \in Node /\ Writing(u, call[u].node)
      BY <1>1, <1>4, <2>2, InCall DEF TypeOK, Writing
    <3>2. call[u].node # m
      BY <1>3, <2>2, <3>1 DEF IInv, OneWriter
    <3> QED
      BY <1>4, <3>1, <3>2 DEF IInv, WriterStored
  <2> QED
    BY <2>1, <2>2
<1>8. AgreeUnlessOverlap'
  <2> SUFFICES ASSUME NEW n \in Node, objects'[n] # bytes[n]
               PROVE  overlap[n] \/ \E u \in Thread : Writing(u, n) /\ pc'[u] # "done"
    BY <1>2 DEF AgreeUnlessOverlap, Writing
  <2>1. CASE n = m
    BY <1>3, <1>4, <2>1
  <2>2. CASE n # m
    BY <1>4, <2>2 DEF IInv, AgreeUnlessOverlap
  <2> QED
    BY <2>1, <2>2
<1> QED
  BY <1>5, <1>6, <1>7, <1>8 DEF IInv

LEMMA StoreBytesIInv ==
    ASSUME IInv, NEW t \in Thread, StoreBytes(t)
    PROVE  IInv'
<1>1. TypeOK
  BY DEF IInv
<1> DEFINE m == call[t].node
<1>2. /\ pc[t] = "second" /\ call[t].op \in Writes
      /\ bytes' = [bytes EXCEPT ![m] = call[t].key]
      /\ pc' = [pc EXCEPT ![t] = "done"]
      /\ UNCHANGED <<objects, call, trusts, holds, overlap>>
  BY DEF StoreBytes, At, Goto
<1>3. m \in Node /\ call[t].key \in Key \cup {NoKey} /\ call[t] # NoCall /\ Writing(t, m)
  BY <1>1, <1>2, InCall DEF Writing
<1>4. /\ bytes'[m] = call[t].key /\ \A n \in Node \ {m} : bytes'[n] = bytes[n]
      /\ pc'[t] = "done" /\ \A u \in Thread \ {t} : pc'[u] = pc[u]
  BY <1>1, <1>2, <1>3 DEF TypeOK
<1>5. TypeOK'
  BY <1>1, <1>2, <1>3, <1>4 DEF TypeOK
<1>6. OneWriter' /\ WriterStored'
  BY <1>2, <1>4 DEF IInv, OneWriter, WriterStored, Writing
<1>7. AgreeUnlessOverlap'
  <2> SUFFICES ASSUME NEW n \in Node, objects[n] # bytes'[n]
               PROVE  overlap[n] \/ \E u \in Thread : Writing(u, n) /\ pc'[u] # "done"
    BY <1>2 DEF AgreeUnlessOverlap, Writing
  <2>1. CASE n = m
    BY <1>2, <1>4, <2>1 DEF IInv, WriterStored
  <2>2. CASE n # m
    BY <1>3, <1>4, <2>2 DEF IInv, AgreeUnlessOverlap, Writing
  <2> QED
    BY <2>1, <2>2
<1> QED
  BY <1>5, <1>6, <1>7 DEF IInv

\* The steps that touch neither dictionary nor the calls in progress.
LEMMA ReadIInv ==
    ASSUME IInv, NEW t \in Thread, RejectLoad(t) \/ ReadBytes(t) \/ ReadObject(t)
    PROVE  IInv'
<1>1. TypeOK
  BY DEF IInv
<1>2. /\ pc[t] = "first" /\ call[t].op \notin Writes
      /\ pc' = [pc EXCEPT ![t] = "done"]
      /\ UNCHANGED <<objects, bytes, call, overlap>>
  BY DEF RejectLoad, ReadBytes, ReadObject, At, Goto, Writes
<1>3. /\ pc'[t] = "done" /\ \A u \in Thread \ {t} : pc'[u] = pc[u]
      /\ call[t] # NoCall /\ call[t].node \in Node
  BY <1>1, <1>2, InCall DEF TypeOK
<1>4. TypeOK'
  BY <1>1, <1>2, <1>3 DEF TypeOK, RejectLoad, ReadBytes, ReadObject
<1>5. OneWriter' /\ WriterStored' /\ AgreeUnlessOverlap'
  BY <1>2, <1>3 DEF IInv, OneWriter, WriterStored, AgreeUnlessOverlap, Writing
<1> QED
  BY <1>4, <1>5 DEF IInv

LEMMA FinishIInv ==
    ASSUME IInv, NEW t \in Thread, Finish(t)
    PROVE  IInv'
<1>1. TypeOK
  BY DEF IInv
<1>2. /\ pc[t] = "done" /\ pc' = [pc EXCEPT ![t] = "idle"]
      /\ call' = [call EXCEPT ![t] = NoCall]
      /\ UNCHANGED <<objects, bytes, trusts, holds, overlap>>
  BY DEF Finish, Goto
<1>3. /\ pc'[t] = "idle" /\ call'[t] = NoCall
      /\ \A u \in Thread \ {t} : pc'[u] = pc[u] /\ call'[u] = call[u]
  BY <1>1, <1>2 DEF TypeOK
<1>4. TypeOK'
  BY <1>1, <1>2, <1>3 DEF TypeOK
<1>5. OneWriter' /\ WriterStored'
  BY <1>2, <1>3 DEF IInv, OneWriter, WriterStored, Writing
<1>6. AgreeUnlessOverlap'
  BY <1>2, <1>3 DEF IInv, AgreeUnlessOverlap, Writing
<1> QED
  BY <1>4, <1>5, <1>6 DEF IInv

-----------------------------------------------------------------------------
\* The inductive invariant holds in every reachable state.
THEOREM Invariance == Spec => []IInv
<1>1. Init => IInv
  BY InitIInv
<1>2. IInv /\ [Next]_vars => IInv'
  <2> SUFFICES ASSUME IInv, [Next]_vars PROVE IInv'
    OBVIOUS
  <2>1. ASSUME NEW t \in Thread, Step(t) PROVE IInv'
    BY <2>1, StoreObjectIInv, StoreBytesIInv, ReadIInv, FinishIInv DEF Step
  <2>2. ASSUME NEW t \in Thread, NEW c \in Call, Start(t, c) PROVE IInv'
    BY <2>2, StartIInv
  <2>3. CASE UNCHANGED vars
    BY <2>3 DEF vars, IInv, TypeOK, OneWriter, WriterStored, AgreeUnlessOverlap, Writing
  <2> QED
    BY <2>1, <2>2, <2>3 DEF Next
<1> QED
  BY <1>1, <1>2, PTL DEF Spec

\* The store keeps its type, whatever its threads do.
THEOREM TypeCorrect == Spec => []TypeOK
<1>1. IInv => TypeOK
  BY DEF IInv
<1> QED
  BY <1>1, Invariance, PTL

\* Only writes of one node that overlap can leave its two entries different, and the
\* next write that overlaps no other makes them equal.
THEOREM MapsAgree == Spec => []AgreeUnlessOverlap
<1>1. IInv => AgreeUnlessOverlap
  BY DEF IInv
<1> QED
  BY <1>1, Invariance, PTL

-----------------------------------------------------------------------------
\* Every step, seen through the bytes.
LEMMA BytesStep ==
    ASSUME TypeOK, [Next]_vars
    PROVE  [Bytes!AtomicNext]_(Bytes!atomicVars)
<1> DEFINE eff == {u \in Thread : pc[u] = "done"}
<1>1. \A u \in Thread : pc[u] = "idle" <=> call[u] = NoCall
  BY DEF TypeOK
<1>2. pc \in [Thread -> {"idle", "first", "second", "done"}]
  BY DEF TypeOK
<1>3. ASSUME NEW t \in Thread, NEW c \in Call, Start(t, c) PROVE Bytes!Invoke(t, c)
  <2>1. pc[t] = "idle" /\ pc' = [pc EXCEPT ![t] = "first"]
        /\ call' = [call EXCEPT ![t] = c] /\ UNCHANGED <<bytes, trusts>>
    BY <1>3 DEF Start
  <2>2. eff' = eff
    BY <1>2, <2>1
  <2> QED
    BY <1>1, <2>1, <2>2 DEF Bytes!Invoke
<1>4. ASSUME NEW t \in Thread, StoreObject(t) PROVE UNCHANGED Bytes!atomicVars
  <2>1. pc[t] = "first" /\ pc' = [pc EXCEPT ![t] = "second"] /\ UNCHANGED <<bytes, call, trusts>>
    BY <1>4 DEF StoreObject, At, Goto
  <2>2. eff' = eff
    BY <1>2, <2>1
  <2> QED
    BY <2>1, <2>2 DEF Bytes!atomicVars
<1>5. ASSUME NEW t \in Thread, pc[t] \in {"first", "second"}, Goto(t, "done")
      PROVE  call[t] # NoCall /\ t \notin eff /\ eff' = eff \cup {t}
  BY <1>1, <1>2, <1>5 DEF Goto
<1>6. ASSUME NEW t \in Thread, StoreBytes(t) PROVE Bytes!Effect(t)
  <2>1. /\ call[t].op \in Writes /\ UNCHANGED <<call, trusts>>
        /\ bytes' = [bytes EXCEPT ![call[t].node] = call[t].key]
        /\ pc[t] = "second" /\ Goto(t, "done")
    BY <1>6 DEF StoreBytes, At
  <2> QED
    BY <1>5, <2>1 DEF Bytes!Effect
<1>7. ASSUME NEW t \in Thread, RejectLoad(t) \/ ReadObject(t) PROVE Bytes!Effect(t)
  <2>1. /\ call[t].op \in {"load_malformed", "get_public_key"} /\ UNCHANGED <<bytes, call, trusts>>
        /\ pc[t] = "first" /\ Goto(t, "done")
    BY <1>7 DEF RejectLoad, ReadObject, At
  <2> QED
    BY <1>5, <2>1 DEF Bytes!Effect, Writes
<1>8. ASSUME NEW t \in Thread, ReadBytes(t) PROVE Bytes!Effect(t)
  <2>1. /\ call[t].op \in {"is_trusted"} /\ UNCHANGED <<bytes, call>>
        /\ trusts' = [trusts EXCEPT ![t] = bytes[call[t].node]]
        /\ pc[t] = "first" /\ Goto(t, "done")
    BY <1>8 DEF ReadBytes, At
  <2> QED
    BY <1>5, <2>1 DEF Bytes!Effect
<1>9. ASSUME NEW t \in Thread, Finish(t) PROVE Bytes!Return(t)
  <2>1. pc[t] = "done" /\ pc' = [pc EXCEPT ![t] = "idle"]
        /\ call' = [call EXCEPT ![t] = NoCall] /\ UNCHANGED <<bytes, trusts>>
    BY <1>9 DEF Finish, Goto
  <2>2. t \in eff /\ eff' = eff \ {t}
    BY <1>2, <2>1
  <2> QED
    BY <2>1, <2>2 DEF Bytes!Return
<1>10. ASSUME UNCHANGED vars PROVE UNCHANGED Bytes!atomicVars
  BY <1>10 DEF vars, Bytes!atomicVars
<1>11. ASSUME NEW t \in Thread, Step(t) PROVE Bytes!AtomicNext \/ UNCHANGED Bytes!atomicVars
  BY <1>4, <1>6, <1>7, <1>8, <1>9, <1>11 DEF Step, Bytes!AtomicNext
<1> QED
  BY <1>3, <1>10, <1>11 DEF Next, Bytes!AtomicNext

\* Every step, seen through the objects.
LEMMA ObjectsStep ==
    ASSUME TypeOK, [Next]_vars
    PROVE  [Objects!AtomicNext]_(Objects!atomicVars)
<1> DEFINE eff == {u \in Thread : pc[u] \in {"second", "done"}}
<1>1. \A u \in Thread : pc[u] = "idle" <=> call[u] = NoCall
  BY DEF TypeOK
<1>2. pc \in [Thread -> {"idle", "first", "second", "done"}]
  BY DEF TypeOK
<1>3. ASSUME NEW t \in Thread, NEW c \in Call, Start(t, c) PROVE Objects!Invoke(t, c)
  <2>1. pc[t] = "idle" /\ pc' = [pc EXCEPT ![t] = "first"]
        /\ call' = [call EXCEPT ![t] = c] /\ UNCHANGED <<objects, holds>>
    BY <1>3 DEF Start
  <2>2. eff' = eff
    BY <1>2, <2>1
  <2> QED
    BY <1>1, <2>1, <2>2 DEF Objects!Invoke
<1>4. ASSUME NEW t \in Thread, StoreBytes(t) PROVE UNCHANGED Objects!atomicVars
  <2>1. pc[t] = "second" /\ pc' = [pc EXCEPT ![t] = "done"] /\ UNCHANGED <<objects, call, holds>>
    BY <1>4 DEF StoreBytes, At, Goto
  <2>2. eff' = eff
    BY <1>2, <2>1
  <2> QED
    BY <2>1, <2>2 DEF Objects!atomicVars
<1>5. ASSUME NEW t \in Thread, pc[t] = "first", Goto(t, "done") \/ Goto(t, "second")
      PROVE  call[t] # NoCall /\ t \notin eff /\ eff' = eff \cup {t}
  BY <1>1, <1>2, <1>5 DEF Goto
<1>6. ASSUME NEW t \in Thread, StoreObject(t) PROVE Objects!Effect(t)
  <2>1. /\ call[t].op \in Writes /\ UNCHANGED <<call, holds>>
        /\ objects' = [objects EXCEPT ![call[t].node] = call[t].key]
        /\ pc[t] = "first" /\ Goto(t, "second")
    BY <1>6 DEF StoreObject, At
  <2> QED
    BY <1>5, <2>1 DEF Objects!Effect
<1>7. ASSUME NEW t \in Thread, RejectLoad(t) \/ ReadBytes(t) PROVE Objects!Effect(t)
  <2>1. /\ call[t].op \in {"load_malformed", "is_trusted"} /\ UNCHANGED <<objects, call, holds>>
        /\ pc[t] = "first" /\ Goto(t, "done")
    BY <1>7 DEF RejectLoad, ReadBytes, At
  <2> QED
    BY <1>5, <2>1 DEF Objects!Effect, Writes
<1>8. ASSUME NEW t \in Thread, ReadObject(t) PROVE Objects!Effect(t)
  <2>1. /\ call[t].op \in {"get_public_key"} /\ UNCHANGED <<objects, call>>
        /\ holds' = [holds EXCEPT ![t] = objects[call[t].node]]
        /\ pc[t] = "first" /\ Goto(t, "done")
    BY <1>8 DEF ReadObject, At
  <2> QED
    BY <1>5, <2>1 DEF Objects!Effect
<1>9. ASSUME NEW t \in Thread, Finish(t) PROVE Objects!Return(t)
  <2>1. pc[t] = "done" /\ pc' = [pc EXCEPT ![t] = "idle"]
        /\ call' = [call EXCEPT ![t] = NoCall] /\ UNCHANGED <<objects, holds>>
    BY <1>9 DEF Finish, Goto
  <2>2. t \in eff /\ eff' = eff \ {t}
    BY <1>2, <2>1
  <2> QED
    BY <2>1, <2>2 DEF Objects!Return
<1>10. ASSUME UNCHANGED vars PROVE UNCHANGED Objects!atomicVars
  BY <1>10 DEF vars, Objects!atomicVars
<1>11. ASSUME NEW t \in Thread, Step(t) PROVE Objects!AtomicNext \/ UNCHANGED Objects!atomicVars
  BY <1>4, <1>6, <1>7, <1>8, <1>9, <1>11 DEF Step, Objects!AtomicNext
<1> QED
  BY <1>3, <1>10, <1>11 DEF Next, Objects!AtomicNext

\* Trust decisions are linearizable, without a lock.
THEOREM TrustLinearizable == Spec => TrustIsAtomic
<1>1. Init => Bytes!AtomicInit
  BY DEF Init, Bytes!AtomicInit
<1>2. IInv /\ [Next]_vars => [Bytes!AtomicNext]_(Bytes!atomicVars)
  BY BytesStep DEF IInv
<1> QED
  BY <1>1, <1>2, Invariance, PTL DEF Spec, TrustIsAtomic, Bytes!AtomicSpec

\* The look-up of key objects is linearizable too, taken by itself.
THEOREM ObjectsLinearizable == Spec => ObjectsAreAtomic
<1>1. Init => Objects!AtomicInit
  BY DEF Init, Objects!AtomicInit
<1>2. IInv /\ [Next]_vars => [Objects!AtomicNext]_(Objects!atomicVars)
  BY ObjectsStep DEF IInv
<1> QED
  BY <1>1, <1>2, Invariance, PTL DEF Spec, ObjectsAreAtomic, Objects!AtomicSpec
=============================================================================
