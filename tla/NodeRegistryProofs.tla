------------------------- MODULE NodeRegistryProofs -------------------------
(***************************************************************************)
(* Proofs about NodeRegistry, for any nodes, slices, capacities and bounds.*)
(***************************************************************************)
EXTENDS NodeRegistry, SequenceTheorems, TLAPS

(* What a frame carries follows from its kind.                             *)
LEMMA FrameFields ==
  ASSUME NEW f \in Frame
  PROVE  /\ f.kind = "register" => f.ids \in SUBSET Task
         /\ f.kind = "terminal" => f.task \in Task /\ f.failed \in BOOLEAN
BY DEF Frame

(* Registers and results are frames.                                       *)
LEMMA FramesMade ==
  /\ \A ids \in SUBSET Task : Register(ids) \in Frame
  /\ \A t \in Task, failed \in BOOLEAN : Terminal(t, failed) \in Frame
BY DEF Frame, Register, Terminal

(* The first frame of a stream is a frame, and the rest a queue of them.   *)
LEMMA UpHead ==
  ASSUME TypeOK, NEW n \in Node, NEW sid \in Stream, up[n][sid] # <<>>
  PROVE  /\ Head(up[n][sid]) \in Frame
         /\ Tail(up[n][sid]) \in Seq(Frame)
<1>1. up[n][sid] \in Seq(Frame)
  BY DEF TypeOK
<1> QED
  BY <1>1, HeadTailProperties

(* Taking a frame from a stream keeps the type of the streams.             *)
LEMMA ConsumeType ==
  ASSUME TypeOK, NEW n \in Node, NEW sid \in Stream, up[n][sid] # <<>>,
         Consume(n, sid)
  PROVE  up' \in [Node -> [Stream -> Seq(Frame)]]
<1>1. Tail(up[n][sid]) \in Seq(Frame)
  BY UpHead
<1> QED
  BY <1>1 DEF TypeOK, Consume

(* Adding a frame keeps it, too.                                           *)
LEMMA SendType ==
  ASSUME TypeOK, NEW n \in Node, NEW sid \in Stream, NEW f \in Frame,
         Send(n, sid, f)
  PROVE  up' \in [Node -> [Stream -> Seq(Frame)]]
<1>1. Append(up[n][sid], f) \in Seq(Frame)
  BY AppendProperties DEF TypeOK
<1> QED
  BY <1>1 DEF TypeOK, Send

(* A settlement keeps the type of what the scheduler remembers.            *)
LEMMA ClientSettleType ==
  ASSUME TypeOK, NEW t \in Task, NEW failed \in BOOLEAN, NEW active \in BOOLEAN,
         ClientSettle(t, failed, active)
  PROVE  /\ outstanding' \in SUBSET Task
         /\ attempts' \in [Slice -> 0..MaxAttempts]
         /\ nextId' \in [Slice -> 0..MaxAttempts]
         /\ verdict' \in [Slice -> Verdict]
         /\ boots' \in 0..MaxBoots
<1>1. t.slice \in Slice
  BY DEF Task
<1>2. MaxAttempts \in Nat
  BY BoundAssumption
<1> DEFINE retry == failed /\ attempts[t.slice] < MaxAttempts
           count == IF retry THEN attempts[t.slice] + 1 ELSE 0
<1>3. count \in 0..MaxAttempts
  BY <1>1, <1>2 DEF TypeOK
<1> HIDE DEF count
<1>4. /\ attempts' = [attempts EXCEPT ![t.slice] = count]
      /\ nextId' = [nextId EXCEPT ![t.slice] = IF active THEN 0 ELSE count]
  BY DEF ClientSettle, count
<1>5. attempts' \in [Slice -> 0..MaxAttempts] /\ nextId' \in [Slice -> 0..MaxAttempts]
  BY <1>1, <1>2, <1>3, <1>4 DEF TypeOK
<1>6. verdict' \in [Slice -> Verdict]
  BY <1>1 DEF ClientSettle, TypeOK, Verdict
<1> QED
  BY <1>5, <1>6 DEF ClientSettle, TypeOK

-----------------------------------------------------------------------------
(* The types hold initially, and every step keeps them.                    *)
LEMMA TypeInit == Init => TypeOK
<1>1. MaxAttempts \in Nat /\ MaxStream \in Nat /\ MaxBoots \in Nat
  BY BoundAssumption
<1>2. <<>> \in Seq(Frame) /\ <<>> \in Seq(Task)
  OBVIOUS
<1> QED
  BY <1>1, <1>2 DEF Init, TypeOK, Verdict, NoStream

(* One step per action of Next, and one per variable it changes.           *)
LEMMA TypeStep == TypeOK /\ [Next]_vars => TypeOK'
<1> SUFFICES ASSUME TypeOK, [Next]_vars PROVE TypeOK'
  OBVIOUS
<1> USE DEF registryVars, clientVars, nodeVars
<1>0. MaxAttempts \in Nat /\ MaxStream \in Nat /\ MaxBoots \in Nat
  BY BoundAssumption
<1>1. ASSUME NEW n \in Node, NEW s \in Slice, Dispatch(n, s)
      PROVE  TypeOK'
  <2> DEFINE t == [slice |-> s, attempt |-> nextId[s]]
  <2>1. t \in Task
    BY DEF TypeOK, Task
  <2> HIDE DEF t
  <2>2. down' \in [Node -> Seq(Task)]
    <3>1. Append(down[n], t) \in Seq(Task)
      BY <2>1, AppendProperties DEF TypeOK
    <3> QED
      BY <1>1, <3>1 DEF Dispatch, TypeOK, t
  <2>3. /\ owed' = [owed EXCEPT ![n] = @ \cup {t}]
        /\ finished' = [finished EXCEPT ![n] = @ \ {t}]
        /\ outstanding' = outstanding \cup {t}
    BY <1>1 DEF Dispatch, t
  <2> QED
    BY <1>1, <2>1, <2>2, <2>3 DEF Dispatch, TypeOK
<1>2. ASSUME NEW t \in lost, NotifyLost(t)
      PROVE  TypeOK'
  <2>1. /\ outstanding' \in SUBSET Task
        /\ attempts' \in [Slice -> 0..MaxAttempts]
        /\ nextId' \in [Slice -> 0..MaxAttempts]
        /\ verdict' \in [Slice -> Verdict]
        /\ boots' \in 0..MaxBoots
    <3>1. t \in Task /\ HasActiveSlice(t.slice) \in BOOLEAN
      BY DEF TypeOK, HasActiveSlice
    <3> QED
      BY <1>2, <3>1, ClientSettleType DEF NotifyLost
  <2> QED
    BY <1>2, <2>1 DEF NotifyLost, TypeOK
<1>3. ASSUME NEW n \in Node, NEW sid \in Stream, OnRegister(n, sid)
      PROVE  TypeOK'
  <2> DEFINE ids == Head(up[n][sid]).ids
             missing == Missing(n, sid, ids)
             back == TakenBack(n, sid, ids)
  <2>1. up' \in [Node -> [Stream -> Seq(Frame)]]
    BY <1>3, ConsumeType DEF OnRegister
  <2>2. back \in SUBSET Task /\ missing \in SUBSET Task
    <3>1. ids \in SUBSET Task
      BY <1>3, UpHead, FrameFields DEF OnRegister
    <3> QED
      BY <3>1 DEF TypeOK, Active, Missing, TakenBack
  <2>3. /\ owed' = [owed EXCEPT ![n] = @ \ missing]
        /\ restored' = [restored EXCEPT ![n] = (@ \ missing) \cup back]
        /\ lost' = owed[n] \cap missing
    BY <1>3 DEF OnRegister
  <2> HIDE DEF missing, back
  <2>4. /\ owed' \in [Node -> SUBSET Task]
        /\ restored' \in [Node -> SUBSET Task]
        /\ lost' \in SUBSET Task
    BY <2>2, <2>3 DEF TypeOK
  <2> QED
    BY <1>3, <2>1, <2>4 DEF OnRegister, BindNode, TypeOK
<1>4. ASSUME NEW n \in Node, NEW sid \in Stream, OnTerminal(n, sid)
      PROVE  TypeOK'
  <2> DEFINE frame == Head(up[n][sid])
             t == frame.task
  <2>1. up' \in [Node -> [Stream -> Seq(Frame)]]
    BY <1>4, ConsumeType DEF OnTerminal
  <2>2. t \in Task /\ frame.failed \in BOOLEAN
    BY <1>4, UpHead, FrameFields DEF OnTerminal
  <2>3. /\ outstanding' \in SUBSET Task
        /\ attempts' \in [Slice -> 0..MaxAttempts]
        /\ nextId' \in [Slice -> 0..MaxAttempts]
        /\ verdict' \in [Slice -> Verdict]
        /\ boots' \in 0..MaxBoots
    <3>1. CASE t \in owed[n]
      <4>1. ActiveBesides(n, t) \in BOOLEAN
        BY DEF ActiveBesides
      <4>2. ClientSettle(t, frame.failed, ActiveBesides(n, t))
        BY <1>4, <3>1 DEF OnTerminal
      <4> QED
        BY <2>2, <4>1, <4>2, ClientSettleType
    <3>2. CASE t \notin owed[n]
      BY <1>4, <3>2 DEF OnTerminal, TypeOK
    <3> QED
      BY <3>1, <3>2
  <2>4. /\ owed' = [owed EXCEPT ![n] = @ \ {t}]
        /\ restored' = [restored EXCEPT ![n] = @ \ {t}]
        /\ finished' = [finished EXCEPT ![n] = @ \cup {t}]
    BY <1>4 DEF OnTerminal
  <2> HIDE DEF t
  <2>5. /\ owed' \in [Node -> SUBSET Task]
        /\ restored' \in [Node -> SUBSET Task]
        /\ finished' \in [Node -> SUBSET Task]
    BY <2>2, <2>4 DEF TypeOK
  <2>6. /\ fresh' = [fresh EXCEPT ![n] = TRUE]
        /\ UNCHANGED <<session, known, lost, down, nodeVars>>
    BY <1>4 DEF OnTerminal
  <2> QED
    BY <2>1, <2>3, <2>5, <2>6 DEF TypeOK
<1>5. ASSUME NEW n \in Node, NEW sid \in Stream, Ignore(n, sid)
      PROVE  TypeOK'
  <2>1. up' \in [Node -> [Stream -> Seq(Frame)]]
    BY <1>5, ConsumeType DEF Ignore
  <2> QED
    BY <1>5, <2>1 DEF Ignore, TypeOK
<1>6. ASSUME NEW n \in Node, NEW sid \in Stream, OnClose(n, sid)
      PROVE  TypeOK'
  <2>1. <<>> \in Seq(Frame)
    OBVIOUS
  <2> QED
    BY <1>6, <2>1 DEF OnClose, TypeOK, NoStream
<1>7. ASSUME NEW n \in Node, Expire(n)
      PROVE  TypeOK'
  BY <1>7 DEF Expire, TypeOK
<1>8. ASSUME NEW n \in Node, Reconcile(n)
      PROVE  TypeOK'
  BY <1>8 DEF Reconcile, TypeOK
<1>9. ASSUME Restart
      PROVE  TypeOK'
  <2>1. <<>> \in Seq(Frame) /\ <<>> \in Seq(Task)
    OBVIOUS
  <2>2. known' \in [Node -> SUBSET Stream]
    BY <1>0, <1>9 DEF Restart, TypeOK, Stream
  <2> QED
    BY <1>0, <1>9, <2>1, <2>2 DEF Restart, TypeOK, Verdict
<1>10. ASSUME NEW n \in Node, Connect(n)
       PROVE  TypeOK'
  <2> DEFINE sid == dialled[n] + 1
             replayed == IF n \in RustNode THEN {c[1] : c \in cache[n]} ELSE {}
             frame == Register(held[n] \cup replayed)
  <2>1. sid \in Stream /\ sid \in 0..MaxStream
    <3>1. dialled[n] < Dials[n]
      BY <1>10 DEF Connect
    <3>2. dialled[n] \in 0..MaxStream
      BY DEF TypeOK
    <3>3. Dials[n] \in 0..MaxStream
      BY BoundAssumption
    <3> QED
      BY <1>0, <3>1, <3>2, <3>3 DEF Stream
  <2>2. frame \in Frame
    <3>1. held[n] \cup replayed \in SUBSET Task
      BY DEF TypeOK, Result
    <3> QED
      BY <3>1, FramesMade
  <2>3. Send(n, sid, frame) /\ conn' = [conn EXCEPT ![n] = sid]
        /\ dialled' = [dialled EXCEPT ![n] = sid]
    BY <1>10 DEF Connect
  <2> HIDE DEF sid, frame
  <2>4. up' \in [Node -> [Stream -> Seq(Frame)]]
    BY <2>1, <2>2, <2>3, SendType
  <2>5. conn' \in [Node -> Stream \cup {NoStream}] /\ dialled' \in [Node -> 0..MaxStream]
    BY <2>1, <2>3 DEF TypeOK
  <2>6. /\ sent' = [sent EXCEPT ![n] = {}]
        /\ UNCHANGED <<registryVars, lost, clientVars, down, beats, held, cache>>
    BY <1>10 DEF Connect
  <2> QED
    BY <2>4, <2>5, <2>6 DEF TypeOK
<1>11. ASSUME NEW n \in Node, Heartbeat(n)
       PROVE  TypeOK'
  <2>1. conn[n] \in Stream /\ Register(held[n]) \in Frame
    BY <1>11, FramesMade DEF Heartbeat, TypeOK
  <2>2. up' \in [Node -> [Stream -> Seq(Frame)]]
    BY <1>11, <2>1, SendType DEF Heartbeat
  <2>3. /\ beats' = [beats EXCEPT ![n] = @ + 1]
        /\ UNCHANGED <<registryVars, lost, clientVars, down, conn, dialled, held, cache,
                       sent>>
    BY <1>11 DEF Heartbeat
  <2>4. beats' \in [Node -> Nat]
    BY <2>3 DEF TypeOK
  <2> QED
    BY <2>2, <2>3, <2>4 DEF TypeOK
<1>12. ASSUME NEW n \in Node, Break(n)
       PROVE  TypeOK'
  <2>1. <<>> \in Seq(Task)
    OBVIOUS
  <2> QED
    BY <1>12, <2>1 DEF Break, TypeOK
<1>13. ASSUME NEW n \in Node, Receive(n)
       PROVE  TypeOK'
  <2>1. Head(down[n]) \in Task /\ Tail(down[n]) \in Seq(Task)
    BY <1>13, HeadTailProperties DEF Receive, TypeOK
  <2> DEFINE t == Head(down[n])
  <2>2. /\ held' = held \/ held' = [held EXCEPT ![n] = held[n] \cup {t}]
        /\ cache' = cache \/ cache' = [cache EXCEPT ![n] = cache[n] \cup {<<t, TRUE>>}]
        /\ down' = [down EXCEPT ![n] = Tail(down[n])]
    BY <1>13 DEF Receive
  <2> HIDE DEF t
  <2>3. t \in Task
    BY <2>1 DEF t
  <2>4. <<t, TRUE>> \in Result
    BY <2>3 DEF Result
  <2>5. held' \in [Node -> SUBSET Task]
    <3>1. held \in [Node -> SUBSET Task]
      BY DEF TypeOK
    <3> QED
      BY <2>2, <2>3, <3>1
  <2>6. cache' \in [Node -> SUBSET Result]
    <3>1. cache \in [Node -> SUBSET Result]
      BY DEF TypeOK
    <3> QED
      BY <2>2, <2>4, <3>1
  <2>7. down' \in [Node -> Seq(Task)]
    BY <2>1, <2>2 DEF TypeOK
  <2>8. UNCHANGED <<registryVars, lost, clientVars, up, conn, dialled, beats, sent>>
    BY <1>13 DEF Receive
  <2> QED
    BY <2>5, <2>6, <2>7, <2>8 DEF TypeOK
<1>14. ASSUME NEW n \in Node, NEW t \in held[n], NEW failed \in BOOLEAN,
              Finish(n, t, failed)
       PROVE  TypeOK'
  <2>1. t \in Task /\ Terminal(t, failed) \in Frame
    BY FramesMade DEF TypeOK
  <2>2. up' \in [Node -> [Stream -> Seq(Frame)]]
    <3>1. CASE n \notin RustNode /\ conn[n] # NoStream
      <4>1. conn[n] \in Stream
        BY <3>1 DEF TypeOK
      <4> QED
        BY <1>14, <2>1, <3>1, <4>1, SendType DEF Finish
    <3>2. CASE n \in RustNode \/ conn[n] = NoStream
      BY <1>14, <3>2 DEF Finish, TypeOK
    <3> QED
      BY <3>1, <3>2
  <2>3. cache' \in [Node -> SUBSET Result]
    <3>1. <<t, failed>> \in Result
      BY <2>1 DEF Result
    <3>2. cache' = cache \/ cache' = [cache EXCEPT ![n] = cache[n] \cup {<<t, failed>>}]
      BY <1>14 DEF Finish
    <3>3. cache \in [Node -> SUBSET Result]
      BY DEF TypeOK
    <3> QED
      BY <3>1, <3>2, <3>3
  <2>4. /\ held' = [held EXCEPT ![n] = @ \ {t}]
        /\ UNCHANGED <<registryVars, lost, clientVars, down, conn, dialled, beats, sent>>
    BY <1>14 DEF Finish
  <2> QED
    BY <2>2, <2>3, <2>4 DEF TypeOK
<1>15. ASSUME NEW n \in Node, NEW c \in cache[n], SendResult(n, c)
       PROVE  TypeOK'
  <2>1. c \in Result /\ conn[n] \in Stream
    BY <1>15 DEF SendResult, TypeOK
  <2>2. Terminal(c[1], c[2]) \in Frame
    BY <2>1, FramesMade DEF Result
  <2>3. up' \in [Node -> [Stream -> Seq(Frame)]]
    BY <1>15, <2>1, <2>2, SendType DEF SendResult
  <2> QED
    BY <1>15, <2>1, <2>3 DEF SendResult, TypeOK
<1>16. ASSUME NEW n \in Node, Crash(n)
       PROVE  TypeOK'
  <2>1. <<>> \in Seq(Task)
    OBVIOUS
  <2> QED
    BY <1>16, <2>1 DEF Crash, TypeOK
<1>17. CASE UNCHANGED vars
  BY <1>17 DEF vars, TypeOK
<1> QED
  BY <1>1, <1>2, <1>3, <1>4, <1>5, <1>6, <1>7, <1>8, <1>9, <1>10, <1>11, <1>12,
     <1>13, <1>14, <1>15, <1>16, <1>17 DEF Next

(* Every variable keeps its type.                                          *)
THEOREM TypeCorrect == Spec => []TypeOK
<1> QED
  BY TypeInit, TypeStep, PTL DEF Spec

-----------------------------------------------------------------------------
(* InflightHasOwner is inductive together with TypeOK: a handler that takes*)
(* tasks away first settles them all (Quiet), so no task is both lost and  *)
(* owed, and the task of a dispatch is new because its slice has none out. *)

(* Initially nothing is out.                                               *)
LEMMA OwnerInit == Init => InflightHasOwner
BY DEF Init, InflightHasOwner, Obligations

(* Moving tasks of one node to lost, or to nowhere if none is owed, leaves *)
(* the set of obligations as it was.                                       *)
LEMMA TakenAway ==
  ASSUME TypeOK, InflightHasOwner, Quiet, NEW n \in Node, NEW taken,
         owed' = [owed EXCEPT ![n] = owed[n] \ taken],
         lost' = owed[n] \cap taken,
         outstanding' = outstanding
  PROVE  /\ outstanding' = Obligations'
         /\ \A m, k \in Node : m # k => owed'[m] \cap owed'[k] = {}
         /\ \A m \in Node : owed'[m] \cap lost' = {}
<1>1. /\ owed' \in [Node -> SUBSET Task]
      /\ owed'[n] = owed[n] \ taken
      /\ \A m \in Node \ {n} : owed'[m] = owed[m]
  BY DEF TypeOK
<1>2. Obligations' = Obligations
  BY <1>1 DEF Obligations, Quiet
<1>3. outstanding' = Obligations'
  BY <1>2 DEF InflightHasOwner
<1>4. \A m, k \in Node : m # k => owed[m] \cap owed[k] = {}
  BY DEF InflightHasOwner
<1>5. \A m, k \in Node : m # k => owed'[m] \cap owed'[k] = {}
  BY <1>1, <1>4
<1>6. \A m \in Node : owed'[m] \cap lost' = {}
  BY <1>1, <1>4
<1> QED
  BY <1>3, <1>5, <1>6

(* Every step keeps what is out and what is owed the same.                 *)
LEMMA OwnerStep == TypeOK /\ InflightHasOwner /\ [Next]_vars => InflightHasOwner'
<1> SUFFICES ASSUME TypeOK, InflightHasOwner, [Next]_vars PROVE InflightHasOwner'
  OBVIOUS
<1> USE DEF registryVars, clientVars, nodeVars
<1>1. ASSUME NEW n \in Node, NEW s \in Slice, Dispatch(n, s)
      PROVE  InflightHasOwner'
  <2> DEFINE t == [slice |-> s, attempt |-> nextId[s]]
  <2>0. t \in Task
    BY DEF TypeOK, Task
  <2>1. t \notin outstanding
    BY <1>1 DEF Dispatch
  <2>2. \A m \in Node : t \notin Active(m)
    BY <1>1 DEF Dispatch, HasActiveSlice
  <2>3. /\ owed' = [owed EXCEPT ![n] = owed[n] \cup {t}]
        /\ outstanding' = outstanding \cup {t}
        /\ UNCHANGED <<restored, lost>>
    BY <1>1 DEF Dispatch
  <2> HIDE DEF t
  <2>4. /\ owed'[n] = owed[n] \cup {t}
        /\ \A m \in Node \ {n} : owed'[m] = owed[m]
    BY <2>3 DEF TypeOK
  <2>5. outstanding' = Obligations'
    BY <2>0, <2>3, <2>4 DEF InflightHasOwner, Obligations
  <2>6. t \notin lost
    BY <2>1 DEF InflightHasOwner, Obligations, TypeOK
  <2>7. \A m \in Node : t \notin owed[m] /\ t \notin restored[m]
    BY <2>2 DEF Active
  <2>8. \A m, k \in Node : m # k => owed'[m] \cap owed'[k] = {}
    BY <2>4, <2>7 DEF InflightHasOwner
  <2>9. \A m \in Node : owed'[m] \cap (restored'[m] \cup lost') = {}
    BY <2>3, <2>4, <2>6, <2>7 DEF InflightHasOwner
  <2> QED
    BY <2>5, <2>8, <2>9 DEF InflightHasOwner
<1>2. ASSUME NEW t \in lost, NotifyLost(t)
      PROVE  InflightHasOwner'
  <2>1. /\ lost' = lost \ {t}
        /\ outstanding' = outstanding \ {t}
        /\ UNCHANGED <<owed, restored>>
    BY <1>2 DEF NotifyLost, ClientSettle
  <2>2. \A m \in Node : t \notin owed[m]
    BY DEF InflightHasOwner
  <2>3. Obligations' = Obligations \ {t}
    BY <2>1, <2>2 DEF Obligations, TypeOK
  <2>4. \A m \in Node : owed'[m] \cap (restored'[m] \cup lost') = {}
    BY <2>1 DEF InflightHasOwner
  <2> QED
    BY <2>1, <2>3, <2>4 DEF InflightHasOwner
<1>3. ASSUME NEW n \in Node, NEW sid \in Stream, OnRegister(n, sid)
      PROVE  InflightHasOwner'
  <2> DEFINE ids == Head(up[n][sid]).ids
             missing == Missing(n, sid, ids)
             back == TakenBack(n, sid, ids)
  <2>1. /\ owed' = [owed EXCEPT ![n] = owed[n] \ missing]
        /\ restored' = [restored EXCEPT ![n] = (restored[n] \ missing) \cup back]
        /\ lost' = owed[n] \cap missing
        /\ Quiet
        /\ outstanding' = outstanding
    BY <1>3 DEF OnRegister
  <2>2. back \cap owed[n] = {}
    BY DEF Active, TakenBack
  <2> HIDE DEF missing, back
  <2>3. /\ outstanding' = Obligations'
        /\ \A m, k \in Node : m # k => owed'[m] \cap owed'[k] = {}
        /\ \A m \in Node : owed'[m] \cap lost' = {}
    BY <2>1, TakenAway
  <2>4. \A m \in Node : owed'[m] \cap restored'[m] = {}
    BY <2>1, <2>2 DEF TypeOK, InflightHasOwner
  <2> QED
    BY <2>3, <2>4 DEF InflightHasOwner
<1>4. ASSUME NEW n \in Node, NEW sid \in Stream, OnTerminal(n, sid)
      PROVE  InflightHasOwner'
  <2> DEFINE t == Head(up[n][sid]).task
  <2>1. /\ owed' = [owed EXCEPT ![n] = owed[n] \ {t}]
        /\ restored' = [restored EXCEPT ![n] = restored[n] \ {t}]
        /\ UNCHANGED lost
        /\ outstanding' = IF t \in owed[n] THEN outstanding \ {t} ELSE outstanding
        /\ Quiet
    BY <1>4 DEF OnTerminal, ClientSettle
  <2> HIDE DEF t
  <2>2. /\ owed'[n] = owed[n] \ {t} /\ restored'[n] = restored[n] \ {t}
        /\ \A m \in Node \ {n} : owed'[m] = owed[m] /\ restored'[m] = restored[m]
    BY <2>1 DEF TypeOK
  <2>3. outstanding' = Obligations'
    <3>1. CASE t \in owed[n]
      <4>1. \A m \in Node \ {n} : t \notin owed[m]
        BY <3>1 DEF InflightHasOwner
      <4> QED
        BY <2>1, <2>2, <3>1, <4>1 DEF InflightHasOwner, Obligations, Quiet
    <3>2. CASE t \notin owed[n]
      BY <2>1, <2>2, <3>2 DEF InflightHasOwner, Obligations
    <3> QED
      BY <3>1, <3>2
  <2> QED
    BY <2>1, <2>2, <2>3 DEF InflightHasOwner
<1>5. ASSUME NEW n \in Node, Reconcile(n)
      PROVE  InflightHasOwner'
  <2>1. /\ owed' = [owed EXCEPT ![n] = owed[n] \ owed[n]]
        /\ restored' = [restored EXCEPT ![n] = {}]
        /\ lost' = owed[n] \cap owed[n]
        /\ Quiet
        /\ outstanding' = outstanding
    BY <1>5 DEF Reconcile
  <2>2. /\ outstanding' = Obligations'
        /\ \A m, k \in Node : m # k => owed'[m] \cap owed'[k] = {}
        /\ \A m \in Node : owed'[m] \cap lost' = {}
    BY <2>1, TakenAway
  <2>3. \A m \in Node : owed'[m] \cap restored'[m] = {}
    BY <2>1 DEF TypeOK, InflightHasOwner
  <2> QED
    BY <2>2, <2>3 DEF InflightHasOwner
<1>6. ASSUME Restart
      PROVE  InflightHasOwner'
  BY <1>6 DEF Restart, InflightHasOwner, Obligations
<1>7. ASSUME UNCHANGED <<owed, restored, lost, outstanding>>
      PROVE  InflightHasOwner'
  BY <1>7 DEF InflightHasOwner, Obligations
<1>8. ASSUME NEW n \in Node, NEW sid \in Stream, Ignore(n, sid) \/ OnClose(n, sid)
      PROVE  InflightHasOwner'
  BY <1>7, <1>8 DEF Ignore, OnClose
<1>9. ASSUME NEW n \in Node, \/ Expire(n) \/ Connect(n) \/ Heartbeat(n) \/ Break(n)
                             \/ Receive(n) \/ Crash(n)
      PROVE  InflightHasOwner'
  BY <1>7, <1>9 DEF Expire, Connect, Heartbeat, Break, Receive, Crash
<1>10. ASSUME NEW n \in Node, NEW t \in held[n], NEW failed \in BOOLEAN,
              Finish(n, t, failed)
       PROVE  InflightHasOwner'
  BY <1>7, <1>10 DEF Finish
<1>11. ASSUME NEW n \in Node, NEW c \in cache[n], SendResult(n, c)
       PROVE  InflightHasOwner'
  BY <1>7, <1>11 DEF SendResult
<1>12. CASE UNCHANGED vars
  BY <1>7, <1>12 DEF vars
<1> QED
  BY <1>1, <1>2, <1>3, <1>4, <1>5, <1>6, <1>8, <1>9, <1>10, <1>11, <1>12 DEF Next

(* The scheduler never waits for a task nobody will report, and never gets *)
(* a task settled twice.                                                   *)
THEOREM OwnedInflight == Spec => []InflightHasOwner
<1> QED
  BY TypeInit, TypeStep, OwnerInit, OwnerStep, PTL DEF Spec

-----------------------------------------------------------------------------
(* With InflightHasOwner before and after a step, what the ledger sees of  *)
(* it is what happens to outstanding and verdict.                          *)

(* The initial states are the ledger's.                                    *)
LEMMA LedgerInit == Init => Ledger!Init
BY DEF Init, Ledger!Init, Obligations

(* A settlement the scheduler is told of is one of the ledger.             *)
LEMMA SettleMaps ==
  ASSUME TypeOK, NEW t \in outstanding, NEW failed \in BOOLEAN, NEW active \in BOOLEAN,
         ClientSettle(t, failed, active),
         outstanding = Obligations, outstanding' = Obligations'
  PROVE  Ledger!Next
<1>1. t \in Task /\ t.slice \in Slice
  BY DEF TypeOK, Task
<1> DEFINE v == IF failed /\ attempts[t.slice] < MaxAttempts THEN verdict[t.slice]
                ELSE IF failed THEN "givenup" ELSE "done"
<1>2. verdict[t.slice] \in Verdict
  BY <1>1 DEF TypeOK
<1>3. v \in Ledger!Verdict
  BY <1>2 DEF Verdict, Ledger!Verdict
<1>4. Ledger!Settle(t, v)
  BY DEF ClientSettle, Ledger!Settle
<1> QED
  BY <1>1, <1>3, <1>4 DEF Ledger!Next

(* Every step is one of the ledger, or changes nothing it sees.            *)
LEMMA LedgerStep ==
  TypeOK /\ InflightHasOwner /\ InflightHasOwner' /\ [Next]_vars
    => [Ledger!Next]_Ledger!ledgerVars
<1> SUFFICES ASSUME TypeOK, InflightHasOwner, InflightHasOwner', [Next]_vars
             PROVE  [Ledger!Next]_Ledger!ledgerVars
  OBVIOUS
<1> USE DEF registryVars, clientVars, nodeVars
<1>0. outstanding = Obligations /\ outstanding' = Obligations'
  BY DEF InflightHasOwner
<1>1. ASSUME NEW n \in Node, NEW s \in Slice, Dispatch(n, s)
      PROVE  Ledger!Next
  <2> DEFINE t == [slice |-> s, attempt |-> nextId[s]]
  <2>1. t \in Task /\ t.slice = s
    BY DEF TypeOK, Task
  <2>2. /\ verdict[s] = "open"
        /\ \A u \in outstanding : u.slice # s
        /\ outstanding' = outstanding \cup {t}
        /\ verdict' = verdict
    BY <1>1 DEF Dispatch
  <2>3. Ledger!Accept(t)
    BY <1>0, <2>1, <2>2 DEF Ledger!Accept
  <2> QED
    BY <2>1, <2>3 DEF Ledger!Next
<1>2. ASSUME NEW t \in lost, NotifyLost(t)
      PROVE  Ledger!Next
  <2>1. t \in outstanding
    BY DEF InflightHasOwner, Obligations, TypeOK
  <2>2. HasActiveSlice(t.slice) \in BOOLEAN /\ ClientSettle(t, TRUE, HasActiveSlice(t.slice))
    BY <1>2 DEF NotifyLost, HasActiveSlice
  <2> QED
    BY <1>0, <2>1, <2>2, SettleMaps
<1>3. ASSUME NEW n \in Node, NEW sid \in Stream, OnTerminal(n, sid)
      PROVE  [Ledger!Next]_Ledger!ledgerVars
  <2> DEFINE frame == Head(up[n][sid])
             t == frame.task
  <2>1. CASE t \in owed[n]
    <3>1. frame.failed \in BOOLEAN
      BY <1>3, UpHead, FrameFields DEF OnTerminal
    <3>2. t \in outstanding
      BY <2>1 DEF InflightHasOwner, Obligations, TypeOK
    <3>3. ActiveBesides(n, t) \in BOOLEAN
      BY DEF ActiveBesides
    <3>4. ClientSettle(t, frame.failed, ActiveBesides(n, t))
      BY <1>3, <2>1 DEF OnTerminal
    <3> QED
      BY <1>0, <3>1, <3>2, <3>3, <3>4, SettleMaps
  <2>2. CASE t \notin owed[n]
    <3>1. UNCHANGED <<outstanding, verdict>>
      BY <1>3, <2>2 DEF OnTerminal
    <3> QED
      BY <1>0, <3>1 DEF Ledger!ledgerVars
  <2> QED
    BY <2>1, <2>2
<1>4. ASSUME Restart
      PROVE  Ledger!Next
  <2>1. Ledger!Restart
    BY <1>0, <1>4 DEF Restart, Ledger!Restart
  <2> QED
    BY <2>1 DEF Ledger!Next
<1>5. ASSUME UNCHANGED <<outstanding, verdict>>
      PROVE  UNCHANGED Ledger!ledgerVars
  BY <1>0, <1>5 DEF Ledger!ledgerVars
<1>6. ASSUME NEW n \in Node, NEW sid \in Stream,
             OnRegister(n, sid) \/ Ignore(n, sid) \/ OnClose(n, sid)
      PROVE  UNCHANGED Ledger!ledgerVars
  BY <1>5, <1>6 DEF OnRegister, Ignore, OnClose
<1>7. ASSUME NEW n \in Node,
             \/ Expire(n) \/ Reconcile(n) \/ Connect(n) \/ Heartbeat(n) \/ Break(n)
             \/ Receive(n) \/ Crash(n)
      PROVE  UNCHANGED Ledger!ledgerVars
  BY <1>5, <1>7 DEF Expire, Reconcile, Connect, Heartbeat, Break, Receive, Crash
<1>8. ASSUME NEW n \in Node, NEW t \in held[n], NEW failed \in BOOLEAN,
             Finish(n, t, failed)
      PROVE  UNCHANGED Ledger!ledgerVars
  BY <1>5, <1>8 DEF Finish
<1>9. ASSUME NEW n \in Node, NEW c \in cache[n], SendResult(n, c)
      PROVE  UNCHANGED Ledger!ledgerVars
  BY <1>5, <1>9 DEF SendResult
<1>10. CASE UNCHANGED vars
  BY <1>5, <1>10 DEF vars
<1> QED
  BY <1>1, <1>2, <1>3, <1>4, <1>6, <1>7, <1>8, <1>9, <1>10 DEF Next

(* The registry with its client implements the ledger: per slice one task  *)
(* at a time, each settled exactly once, decided only by its settlement.   *)
THEOREM Refinement == Spec => ImplementsLedger
<1>1. TypeOK /\ InflightHasOwner /\ [Next]_vars => TypeOK' /\ InflightHasOwner'
  BY TypeStep, OwnerStep
<1> QED
  BY TypeInit, OwnerInit, LedgerInit, LedgerStep, <1>1, PTL
     DEF Spec, ImplementsLedger, Ledger!Spec

-----------------------------------------------------------------------------
(* NoGhostSlot.  A slot of a bound node is freed by a frame that is under  *)
(* way or still to be sent; to know that it is when a slot is taken back,  *)
(* the same must be known of every id in a register frame, behind it.      *)

(* The result of t is on stream q behind position i.                       *)
Behind(q, i, t) ==
  \E j \in 1..Len(q) : j > i /\ q[j].kind = "terminal" /\ q[j].task = t

Cached(n, t) == \E c \in cache[n] : c[1] = t
Unsent(n, t) == \E c \in cache[n] \ sent[n] : c[1] = t
OnItsWay(n, t) == \E i \in 1..Len(down[n]) : down[n][i] = t

(* A frame behind position i of the node's stream will free the slot of t, *)
(* or the node still has one to send that will.                            *)
Pending(n, t, i) ==
  t \in held[n] \/ Unsent(n, t) \/ Behind(up[n][conn[n]], i, t)

(* What was sent is kept, and what is kept is not held.                    *)
ResultsKept ==
  \A n \in Node : sent[n] \subseteq cache[n] /\ \A t \in held[n] : ~Cached(n, t)

(* Streams not yet dialled are empty, and no record is bound to one.       *)
NodesDialled == \A n \in Node : conn[n] <= dialled[n]

StreamsDialled ==
  \A n \in Node :
    /\ session[n] <= dialled[n]
    /\ \A sid \in Stream : sid > dialled[n] => up[n][sid] = <<>>

(* What a register frame lists is pending behind that frame.               *)
SnapshotsPending(n) ==
  conn[n] # NoStream =>
    \A i \in 1..Len(up[n][conn[n]]) :
      up[n][conn[n]][i].kind = "register" =>
        \A t \in up[n][conn[n]][i].ids : Pending(n, t, i)

RestoredPending(n) == Bound(n) => \A t \in restored[n] : Pending(n, t, 0)

OwedPending(n) ==
  Bound(n) =>
    \A t \in owed[n] :
      Pending(n, t, 0) \/ OnItsWay(n, t) \/ (Silent(n, t) /\ GivenAgain(t))

PendingAt(n) == SnapshotsPending(n) /\ RestoredPending(n) /\ OwedPending(n)
SlotsPending == \A n \in Node : PendingAt(n)

(* One task of a slice is out at a time, and only while the slice is open. *)
OneOut ==
  \A t \in outstanding :
    /\ verdict[t.slice] = "open"
    /\ \A u \in outstanding : u.slice = t.slice => u = t

Seen(t) == \E n \in Node : t \in held[n] \/ Cached(n, t) \/ OnItsWay(n, t)

(* The id of t is one that the slice has not come to yet.                  *)
Ahead(t) ==
  \/ t.attempt > attempts[t.slice]
  \/ /\ t.attempt = attempts[t.slice]
     /\ nextId[t.slice] = attempts[t.slice]
     /\ \A u \in outstanding : u.slice # t.slice

(* Until the service restarts, ids ahead are unknown to the nodes, and the *)
(* next is one of those unless a retry was refused.                        *)
NextIsNew ==
  boots = 0 =>
    \A t \in Task : verdict[t.slice] = "open" =>
      /\ nextId[t.slice] \in {0, attempts[t.slice]}
      /\ Ahead(t) => ~Seen(t)

(* A task given out for the first time is on its way once, and while it is *)
(* the node neither holds it nor keeps a result of it.                     *)
FirstIsAlone ==
  \A n \in Node : \A i \in 1..Len(down[n]) :
    down[n][i] \in outstanding /\ ~GivenAgain(down[n][i]) =>
      /\ down[n][i] \notin held[n]
      /\ ~Cached(n, down[n][i])
      /\ \A j \in 1..Len(down[n]) : down[n][j] = down[n][i] => j = i

SlotInv ==
  /\ ResultsKept
  /\ NodesDialled
  /\ StreamsDialled
  /\ SlotsPending
  /\ OneOut
  /\ NextIsNew
  /\ FirstIsAlone

(* Initially nobody holds, keeps or is sent anything.                      *)
LEMMA SlotInit == Init => SlotInv
<1> SUFFICES ASSUME Init PROVE SlotInv
  OBVIOUS
<1>1. ResultsKept /\ OneOut /\ SlotsPending
  BY DEF Init, ResultsKept, OneOut, SlotsPending, PendingAt, SnapshotsPending,
         RestoredPending, OwedPending, Bound
<1>2. NodesDialled /\ StreamsDialled
  BY DEF Init, NodesDialled, StreamsDialled, NoStream
<1>3. \A t \in Task : ~Seen(t)
  BY DEF Init, Seen, Cached, OnItsWay
<1>4. NextIsNew /\ FirstIsAlone
  BY <1>3 DEF Init, NextIsNew, FirstIsAlone, Task
<1> QED
  BY <1>1, <1>2, <1>4 DEF SlotInv

(* What the two writes to a stream change.                                 *)
LEMMA ConsumeChanges ==
  ASSUME TypeOK, NEW n \in Node, NEW sid \in Stream, Consume(n, sid)
  PROVE  /\ up'[n][sid] = Tail(up[n][sid])
         /\ \A s \in Stream \ {sid} : up'[n][s] = up[n][s]
         /\ \A m \in Node \ {n} : up'[m] = up[m]
BY DEF TypeOK, Consume

LEMMA SendChanges ==
  ASSUME TypeOK, NEW n \in Node, NEW sid \in Stream, NEW f, Send(n, sid, f)
  PROVE  /\ up'[n][sid] = Append(up[n][sid], f)
         /\ \A s \in Stream \ {sid} : up'[n][s] = up[n][s]
         /\ \A m \in Node \ {n} : up'[m] = up[m]
BY DEF TypeOK, Send

(* Taking the first frame moves the others forward by one.                 *)
LEMMA BehindTail ==
  ASSUME NEW q \in Seq(Frame), q # <<>>, NEW t, NEW i \in Nat
  PROVE  /\ Behind(q, i + 1, t) => Behind(Tail(q), i, t)
         /\ ~(Head(q).kind = "terminal" /\ Head(q).task = t)
              => (Behind(q, 0, t) => Behind(Tail(q), 0, t))
<1>1. /\ Len(q) \in Nat /\ Len(Tail(q)) = Len(q) - 1 /\ Len(q) >= 1
      /\ \A j \in 1..Len(Tail(q)) : Tail(q)[j] = q[j + 1]
      /\ Head(q) = q[1]
  BY HeadTailProperties
<1> DEFINE R(j) == q[j].kind = "terminal" /\ q[j].task = t
<1>2. ASSUME NEW k \in Nat, NEW j \in 1..Len(q), j > k + 1, R(j)
      PROVE  Behind(Tail(q), k, t)
  <2>1. j - 1 \in 1..Len(Tail(q)) /\ j - 1 > k /\ Tail(q)[j - 1] = q[j]
    BY <1>1, <1>2
  <2> QED
    BY <1>2, <2>1 DEF Behind
<1>3. Behind(q, i + 1, t) => Behind(Tail(q), i, t)
  BY <1>2 DEF Behind
<1>4. ASSUME ~R(1), Behind(q, 0, t)
      PROVE  Behind(Tail(q), 0, t)
  <2>1. PICK j \in 1..Len(q) : j > 0 /\ R(j)
    BY <1>4 DEF Behind
  <2>2. j > 0 + 1
    BY <1>1, <1>4, <2>1
  <2> QED
    BY <1>2, <2>1, <2>2
<1> QED
  BY <1>1, <1>3, <1>4

(* Adding a frame leaves the others where they are.                        *)
LEMMA OnlyLastIsNew ==
  ASSUME NEW q \in Seq(Frame), NEW f \in Frame, NEW i \in 1..Len(Append(q, f)),
         ~(i \in 1..Len(q) /\ Append(q, f)[i] = q[i])
  PROVE  Append(q, f)[i] = f
<1>1. /\ Len(q) \in Nat /\ Len(Append(q, f)) = Len(q) + 1
      /\ \A j \in 1..Len(q) : Append(q, f)[j] = q[j]
      /\ Append(q, f)[Len(q) + 1] = f
  BY AppendProperties
<1>2. i = Len(q) + 1
  BY <1>1
<1> QED
  BY <1>1, <1>2

LEMMA BehindAppend ==
  ASSUME NEW q \in Seq(Frame), NEW f \in Frame, NEW t, NEW i \in 0..Len(q)
  PROVE  /\ Behind(q, i, t) => Behind(Append(q, f), i, t)
         /\ f.kind = "terminal" /\ f.task = t => Behind(Append(q, f), i, t)
<1>1. /\ Len(q) \in Nat /\ Len(Append(q, f)) = Len(q) + 1
      /\ \A j \in 1..Len(q) : Append(q, f)[j] = q[j]
      /\ Append(q, f)[Len(q) + 1] = f
  BY AppendProperties
<1> QED
  BY <1>1 DEF Behind

(* Results enter the cache when a task leaves held, and are sent from it.  *)
LEMMA ResultsStep == TypeOK /\ ResultsKept /\ [Next]_vars => ResultsKept'
<1> SUFFICES ASSUME TypeOK, ResultsKept, [Next]_vars PROVE ResultsKept'
  OBVIOUS
<1> USE DEF registryVars, clientVars, nodeVars
<1>0. /\ held \in [Node -> SUBSET Task]
      /\ cache \in [Node -> SUBSET Result]
      /\ sent \in [Node -> SUBSET Result]
  BY DEF TypeOK
<1>1. ASSUME UNCHANGED <<held, cache, sent>>
      PROVE  ResultsKept'
  BY <1>1 DEF ResultsKept, Cached
<1>2. ASSUME NEW n \in Node, NEW s \in Slice, Dispatch(n, s)
      PROVE  ResultsKept'
  BY <1>1, <1>2 DEF Dispatch
<1>3. ASSUME NEW t \in lost, NotifyLost(t)
      PROVE  ResultsKept'
  BY <1>1, <1>3 DEF NotifyLost
<1>4. ASSUME NEW n \in Node, NEW sid \in Stream,
             OnRegister(n, sid) \/ OnTerminal(n, sid) \/ Ignore(n, sid) \/ OnClose(n, sid)
      PROVE  ResultsKept'
  BY <1>1, <1>4 DEF OnRegister, OnTerminal, Ignore, OnClose
<1>5. ASSUME NEW n \in Node, Expire(n) \/ Reconcile(n) \/ Heartbeat(n) \/ Break(n)
      PROVE  ResultsKept'
  BY <1>1, <1>5 DEF Expire, Reconcile, Heartbeat, Break
<1>6. ASSUME NEW n \in Node, Connect(n) \/ Crash(n)
      PROVE  ResultsKept'
  BY <1>0, <1>6 DEF Connect, Crash, ResultsKept, Cached
<1>7. ASSUME NEW n \in Node, Receive(n)
      PROVE  ResultsKept'
  <2> DEFINE t == Head(down[n])
             keptId == t \in held[n] \/ t \in {c[1] : c \in cache[n]}
             full == n \in RustNode /\ Cardinality(held[n]) >= Capacity[n]
  <2>1. sent' = sent
    BY <1>7 DEF Receive
  <2>2. CASE keptId
    BY <1>1, <1>7, <2>1, <2>2 DEF Receive
  <2>3. CASE ~keptId /\ full
    <3>1. held' = held /\ cache' = [cache EXCEPT ![n] = cache[n] \cup {<<t, TRUE>>}]
      BY <1>7, <2>3 DEF Receive
    <3>2. t \notin held[n] /\ <<t, TRUE>>[1] = t
      BY <2>3
    <3> HIDE DEF t
    <3>3. ASSUME NEW m \in Node, NEW u \in held[m], Cached(m, u)'
          PROVE  FALSE
      <4>1. PICK c \in cache'[m] : c[1] = u
        BY <1>0, <3>1, <3>3 DEF Cached
      <4>2. c \in cache[m] \/ (m = n /\ c = <<t, TRUE>>)
        BY <1>0, <3>1
      <4> QED
        BY <3>2, <4>1, <4>2 DEF ResultsKept, Cached
    <3>4. \A m \in Node : sent'[m] \subseteq cache'[m]
      BY <1>0, <2>1, <3>1 DEF ResultsKept
    <3> QED
      BY <3>1, <3>3, <3>4 DEF ResultsKept
  <2>4. CASE ~keptId /\ ~full
    <3>1. cache' = cache /\ held' = [held EXCEPT ![n] = held[n] \cup {t}]
      BY <1>7, <2>4 DEF Receive
    <3>2. ~Cached(n, t)
      BY <2>4 DEF Cached
    <3> HIDE DEF t
    <3> QED
      BY <1>0, <2>1, <3>1, <3>2 DEF ResultsKept, Cached
  <2> QED
    BY <2>2, <2>3, <2>4
<1>8. ASSUME NEW n \in Node, NEW t \in held[n], NEW failed \in BOOLEAN,
             Finish(n, t, failed)
      PROVE  ResultsKept'
  <2>1. /\ held' = [held EXCEPT ![n] = held[n] \ {t}]
        /\ cache' = cache \/ cache' = [cache EXCEPT ![n] = cache[n] \cup {<<t, failed>>}]
        /\ sent' = sent
    BY <1>8 DEF Finish
  <2>2. CASE cache' = cache
    BY <1>0, <2>1, <2>2 DEF ResultsKept, Cached
  <2>3. CASE cache' = [cache EXCEPT ![n] = cache[n] \cup {<<t, failed>>}]
    BY <1>0, <2>1, <2>3 DEF ResultsKept, Cached
  <2> QED
    BY <2>1, <2>2, <2>3
<1>9. ASSUME NEW n \in Node, NEW c \in cache[n], SendResult(n, c)
      PROVE  ResultsKept'
  BY <1>0, <1>9 DEF SendResult, ResultsKept, Cached
<1>10. CASE Restart \/ UNCHANGED vars
  BY <1>1, <1>10 DEF Restart, vars
<1> QED
  BY <1>2, <1>3, <1>4, <1>5, <1>6, <1>7, <1>8, <1>9, <1>10 DEF Next

(* A node is connected by the last stream it dialled, or not at all.       *)
LEMMA NodesStep == TypeOK /\ NodesDialled /\ [Next]_vars => NodesDialled'
<1> SUFFICES ASSUME TypeOK, NodesDialled, [Next]_vars PROVE NodesDialled'
  OBVIOUS
<1> USE DEF registryVars, clientVars, nodeVars
<1>0. /\ dialled \in [Node -> 0..MaxStream]
      /\ conn \in [Node -> Stream \cup {NoStream}]
      /\ MaxStream \in Nat
  BY BoundAssumption DEF TypeOK
<1>1. CASE UNCHANGED <<conn, dialled>>
  BY <1>1 DEF NodesDialled
<1>2. ASSUME NEW n \in Node, Connect(n)
      PROVE  NodesDialled'
  BY <1>0, <1>2 DEF Connect, NodesDialled
<1>3. ASSUME NEW n \in Node, Break(n) \/ Crash(n)
      PROVE  NodesDialled'
  BY <1>0, <1>3 DEF Break, Crash, NodesDialled, NoStream
<1> QED
  BY <1>1, <1>2, <1>3
     DEF Next, vars, Dispatch, NotifyLost, OnRegister, OnTerminal, Ignore, OnClose,
         Expire, Reconcile, Restart, Heartbeat, Receive, Finish, SendResult

(* A stream is dialled before anything is on it.                           *)
LEMMA StreamsStep ==
  TypeOK /\ NodesDialled /\ StreamsDialled /\ [Next]_vars => StreamsDialled'
<1> SUFFICES ASSUME TypeOK, NodesDialled, StreamsDialled, [Next]_vars PROVE StreamsDialled'
  OBVIOUS
<1> USE DEF registryVars, clientVars, nodeVars
<1>0. /\ session \in [Node -> Stream \cup {NoStream}]
      /\ dialled \in [Node -> 0..MaxStream]
      /\ conn \in [Node -> Stream \cup {NoStream}]
      /\ MaxStream \in Nat
  BY BoundAssumption DEF TypeOK
<1>1. ASSUME UNCHANGED <<session, dialled, up>>
      PROVE  StreamsDialled'
  BY <1>1 DEF StreamsDialled
<1>2. ASSUME NEW n \in Node, NEW s \in Slice, Dispatch(n, s)
      PROVE  StreamsDialled'
  BY <1>1, <1>2 DEF Dispatch
<1>3. ASSUME NEW t \in lost, NotifyLost(t)
      PROVE  StreamsDialled'
  BY <1>1, <1>3 DEF NotifyLost
<1>4. ASSUME NEW n \in Node, NEW sid \in Stream, up[n][sid] # <<>>, Consume(n, sid),
             dialled' = dialled, session' = session \/ session' = [session EXCEPT ![n] = sid]
      PROVE  StreamsDialled'
  <2>1. ~(sid > dialled[n])
    BY <1>4 DEF StreamsDialled
  <2>2. sid <= dialled[n]
    BY <1>0, <2>1 DEF Stream
  <2> QED
    BY <1>0, <1>4, <2>2, ConsumeChanges DEF StreamsDialled
<1>5. ASSUME NEW n \in Node, NEW sid \in Stream, NEW f, sid <= dialled'[n], Send(n, sid, f),
             session' = session, \A m \in Node : dialled'[m] >= dialled[m],
             dialled' \in [Node -> 0..MaxStream]
      PROVE  StreamsDialled'
  <2>1. \A s \in Stream : s > dialled'[n] => s # sid /\ s > dialled[n]
    BY <1>0, <1>5 DEF Stream
  <2>2. ASSUME NEW m \in Node
        PROVE  session[m] <= dialled'[m]
    <3>1. /\ session[m] \in Nat /\ dialled[m] \in Nat /\ dialled'[m] \in Nat
          /\ dialled'[m] >= dialled[m]
      BY <1>0, <1>5 DEF Stream, NoStream
    <3>2. session[m] <= dialled[m]
      BY DEF StreamsDialled
    <3> QED
      BY <3>1, <3>2
  <2>3. \A m \in Node, s \in Stream : s > dialled'[m] => s > dialled[m]
    BY <1>0, <1>5 DEF Stream
  <2> QED
    BY <1>5, <2>1, <2>2, <2>3, SendChanges DEF StreamsDialled
<1>6. ASSUME NEW n \in Node, NEW sid \in Stream, OnRegister(n, sid)
      PROVE  StreamsDialled'
  BY <1>4, <1>6 DEF OnRegister, BindNode
<1>7. ASSUME NEW n \in Node, NEW sid \in Stream, OnTerminal(n, sid) \/ Ignore(n, sid)
      PROVE  StreamsDialled'
  BY <1>4, <1>7 DEF OnTerminal, Ignore
<1>8. ASSUME NEW n \in Node, NEW sid \in Stream, OnClose(n, sid)
      PROVE  StreamsDialled'
  <2>1. /\ session' = [session EXCEPT ![n] = IF @ = sid THEN NoStream ELSE @]
        /\ up' = [up EXCEPT ![n][sid] = <<>>]
        /\ dialled' = dialled
    BY <1>8 DEF OnClose
  <2>2. \A m \in Node : session'[m] <= dialled[m]
    BY <1>0, <2>1 DEF StreamsDialled, NoStream
  <2>3. \A m \in Node, s \in Stream : up'[m][s] = up[m][s] \/ up'[m][s] = <<>>
    BY <2>1 DEF TypeOK
  <2> QED
    BY <2>1, <2>2, <2>3 DEF StreamsDialled
<1>9. ASSUME NEW n \in Node, Expire(n) \/ Reconcile(n) \/ Break(n) \/ Receive(n) \/ Crash(n)
      PROVE  StreamsDialled'
  BY <1>1, <1>9 DEF Expire, Reconcile, Break, Receive, Crash
<1>10. ASSUME Restart
       PROVE  StreamsDialled'
  BY <1>0, <1>10 DEF Restart, StreamsDialled, NoStream
<1>11. ASSUME NEW n \in Node, Connect(n)
       PROVE  StreamsDialled'
  <2> DEFINE sid == dialled[n] + 1
             ids == held[n] \cup (IF n \in RustNode THEN {c[1] : c \in cache[n]} ELSE {})
  <2>1. dialled' = [dialled EXCEPT ![n] = sid] /\ session' = session
        /\ Send(n, sid, Register(ids)) /\ dialled[n] < Dials[n]
    BY <1>11 DEF Connect
  <2>2. sid \in Stream /\ sid \in 0..MaxStream
    <3>1. Dials[n] \in 0..MaxStream
      BY BoundAssumption
    <3> QED
      BY <1>0, <2>1, <3>1 DEF Stream
  <2> HIDE DEF ids
  <2>3. /\ dialled' \in [Node -> 0..MaxStream]
        /\ \A m \in Node : dialled'[m] >= dialled[m]
        /\ sid <= dialled'[n]
    BY <1>0, <2>1, <2>2
  <2> HIDE DEF sid
  <2> QED
    BY <1>5, <2>1, <2>2, <2>3
<1>12. ASSUME NEW n \in Node, NEW f, conn[n] # NoStream, Send(n, conn[n], f),
              UNCHANGED <<session, dialled>>
       PROVE  StreamsDialled'
  <2>1. /\ conn[n] \in Stream /\ conn[n] <= dialled'[n]
        /\ \A m \in Node : dialled'[m] >= dialled[m]
    BY <1>0, <1>12 DEF NodesDialled
  <2> QED
    BY <1>0, <1>5, <1>12, <2>1
<1>13. ASSUME NEW n \in Node, Heartbeat(n)
       PROVE  StreamsDialled'
  <2>1. /\ conn[n] # NoStream /\ Send(n, conn[n], Register(held[n]))
        /\ UNCHANGED <<session, dialled>>
    BY <1>13 DEF Heartbeat
  <2> QED
    BY <1>12, <2>1
<1>14. ASSUME NEW n \in Node, NEW t \in held[n], NEW failed \in BOOLEAN,
              Finish(n, t, failed)
       PROVE  StreamsDialled'
  <2>1. UNCHANGED <<session, dialled>>
    BY <1>14 DEF Finish
  <2>2. CASE up' = up
    BY <1>1, <2>1, <2>2
  <2>3. CASE up' # up
    <3>1. conn[n] # NoStream /\ Send(n, conn[n], Terminal(t, failed))
      BY <1>14, <2>3 DEF Finish
    <3> QED
      BY <1>12, <2>1, <3>1
  <2> QED
    BY <2>2, <2>3
<1>15. ASSUME NEW n \in Node, NEW c \in cache[n], SendResult(n, c)
       PROVE  StreamsDialled'
  <2>1. /\ conn[n] # NoStream /\ Send(n, conn[n], Terminal(c[1], c[2]))
        /\ UNCHANGED <<session, dialled>>
    BY <1>15 DEF SendResult
  <2> QED
    BY <1>12, <2>1
<1>16. CASE UNCHANGED vars
  BY <1>1, <1>16 DEF vars
<1> QED
  BY <1>2, <1>3, <1>6, <1>7, <1>8, <1>9, <1>10, <1>11, <1>13, <1>14, <1>15, <1>16
     DEF Next
(* What a step is to the scheduler: a dispatch, a settlement of a task that*)
(* is out and owed no longer, a restart, or nothing.                       *)
Settles(t) ==
  /\ t \in outstanding
  /\ \E failed, active \in BOOLEAN : ClientSettle(t, failed, active)
  /\ \A n \in Node : owed'[n] \subseteq owed[n] /\ t \notin owed'[n]
  /\ UNCHANGED <<down, held, cache>>

LEMMA ClientStep ==
  ASSUME TypeOK, InflightHasOwner, [Next]_vars
  PROVE  \/ \E n \in Node, s \in Slice : Dispatch(n, s)
         \/ \E t \in Task : Settles(t)
         \/ Restart
         \/ UNCHANGED clientVars
<1> USE DEF registryVars, clientVars, nodeVars
<1>1. ASSUME NEW t \in lost, NotifyLost(t)
      PROVE  t \in Task /\ Settles(t)
  <2>1. t \in Task /\ t \in outstanding /\ \A n \in Node : t \notin owed[n]
    BY DEF InflightHasOwner, Obligations, TypeOK
  <2>2. HasActiveSlice(t.slice) \in BOOLEAN
    BY DEF HasActiveSlice
  <2> QED
    BY <1>1, <2>1, <2>2 DEF NotifyLost, Settles
<1>2. ASSUME NEW n \in Node, NEW sid \in Stream, OnTerminal(n, sid)
      PROVE  (\E t \in Task : Settles(t)) \/ UNCHANGED clientVars
  <2> DEFINE frame == Head(up[n][sid])
             t == frame.task
  <2>1. CASE t \in owed[n]
    <3>1. frame.failed \in BOOLEAN /\ t \in Task
      BY <1>2, UpHead, FrameFields DEF OnTerminal
    <3>2. t \in outstanding /\ \A m \in Node \ {n} : t \notin owed[m]
      BY <2>1, <3>1 DEF InflightHasOwner, Obligations
    <3>3. ActiveBesides(n, t) \in BOOLEAN
      BY DEF ActiveBesides
    <3>4. /\ ClientSettle(t, frame.failed, ActiveBesides(n, t))
          /\ owed' = [owed EXCEPT ![n] = owed[n] \ {t}]
          /\ UNCHANGED <<down, held, cache>>
      BY <1>2, <2>1 DEF OnTerminal
    <3>5. \E failed, active \in BOOLEAN : ClientSettle(t, failed, active)
      BY <3>1, <3>3, <3>4
    <3> HIDE DEF t
    <3>6. \A m \in Node : owed'[m] \subseteq owed[m] /\ t \notin owed'[m]
      BY <3>2, <3>4 DEF TypeOK
    <3> QED
      BY <3>1, <3>2, <3>4, <3>5, <3>6 DEF Settles
  <2>2. CASE t \notin owed[n]
    BY <1>2, <2>2 DEF OnTerminal
  <2> QED
    BY <2>1, <2>2
<1> QED
  BY <1>1, <1>2, ZenonT(30)
     DEF Next, vars, OnRegister, Ignore, OnClose, Expire, Reconcile, Connect, Heartbeat,
         Break, Receive, Finish, SendResult, Crash

(* A settlement leaves other slices alone, and a slice that stays open has *)
(* come to the next attempt.                                               *)
LEMMA Settled ==
  ASSUME TypeOK, OneOut, NEW t \in Task, Settles(t)
  PROVE  /\ boots' = boots
         /\ outstanding' = outstanding \ {t}
         /\ \A u \in outstanding' : u.slice # t.slice
         /\ \A s \in Slice \ {t.slice} :
              /\ attempts'[s] = attempts[s]
              /\ nextId'[s] = nextId[s]
              /\ verdict'[s] = verdict[s]
         /\ verdict[t.slice] = "open"
         /\ verdict'[t.slice] = "open" =>
              /\ attempts'[t.slice] = attempts[t.slice] + 1
              /\ nextId'[t.slice] \in {0, attempts'[t.slice]}
<1>1. PICK failed, active \in BOOLEAN : ClientSettle(t, failed, active)
  BY DEF Settles
<1>2. t.slice \in Slice /\ t \in outstanding
  BY DEF Task, Settles
<1> DEFINE retry == failed /\ attempts[t.slice] < MaxAttempts
           count == IF retry THEN attempts[t.slice] + 1 ELSE 0
<1>3. /\ outstanding' = outstanding \ {t}
      /\ attempts' = [attempts EXCEPT ![t.slice] = count]
      /\ nextId' = [nextId EXCEPT ![t.slice] = IF active THEN 0 ELSE count]
      /\ verdict' = [verdict EXCEPT ![t.slice] = IF retry THEN verdict[t.slice]
                                                 ELSE IF failed THEN "givenup" ELSE "done"]
      /\ boots' = boots
  BY <1>1 DEF ClientSettle
<1>4. /\ attempts \in [Slice -> 0..MaxAttempts]
      /\ nextId \in [Slice -> 0..MaxAttempts]
      /\ verdict \in [Slice -> Verdict]
  BY DEF TypeOK
<1> HIDE DEF retry, count
<1>5. \A s \in Slice \ {t.slice} :
        attempts'[s] = attempts[s] /\ nextId'[s] = nextId[s] /\ verdict'[s] = verdict[s]
  BY <1>3, <1>4
<1>6. verdict[t.slice] = "open" /\ \A u \in outstanding' : u.slice # t.slice
  BY <1>2, <1>3 DEF OneOut
<1>7. ASSUME verdict'[t.slice] = "open"
      PROVE  /\ attempts'[t.slice] = attempts[t.slice] + 1
             /\ nextId'[t.slice] \in {0, attempts'[t.slice]}
  <2>1. retry
    BY <1>2, <1>3, <1>4, <1>7
  <2>2. count = attempts[t.slice] + 1
    BY <2>1 DEF count
  <2> QED
    BY <1>2, <1>3, <1>4, <2>2
<1> QED
  BY <1>3, <1>5, <1>6, <1>7

LEMMA OneOutStep == TypeOK /\ InflightHasOwner /\ OneOut /\ [Next]_vars => OneOut'
<1> SUFFICES ASSUME TypeOK, InflightHasOwner, OneOut, [Next]_vars PROVE OneOut'
  OBVIOUS
<1>1. ASSUME NEW n \in Node, NEW s \in Slice, Dispatch(n, s)
      PROVE  OneOut'
  <2> DEFINE t == [slice |-> s, attempt |-> nextId[s]]
  <2>1. /\ outstanding' = outstanding \cup {t} /\ verdict' = verdict
        /\ verdict[s] = "open" /\ \A u \in outstanding : u.slice # s
        /\ t.slice = s
    BY <1>1 DEF Dispatch
  <2> HIDE DEF t
  <2> QED
    BY <2>1 DEF OneOut
<1>2. ASSUME NEW t \in Task, Settles(t)
      PROVE  OneOut'
  <2>1. \A u \in outstanding' : u \in outstanding /\ u.slice \in Slice \ {t.slice}
    <3>1. \A u \in outstanding : u.slice \in Slice
      BY DEF TypeOK, Task
    <3>2. outstanding' = outstanding \ {t} /\ \A u \in outstanding' : u.slice # t.slice
      BY <1>2, Settled
    <3> QED
      BY <3>1, <3>2
  <2> QED
    BY <1>2, <2>1, Settled DEF OneOut
<1>3. CASE Restart
  BY <1>3 DEF Restart, OneOut
<1>4. CASE UNCHANGED clientVars
  BY <1>4 DEF clientVars, OneOut
<1> QED
  BY <1>1, <1>2, <1>3, <1>4, ClientStep

(* While a task is owed, its id stays one that was given out before.       *)
LEMMA AgainKept ==
  ASSUME TypeOK, InflightHasOwner, OneOut, [Next]_vars, NEW n \in Node,
         NEW t \in owed[n], t \in owed'[n], GivenAgain(t)
  PROVE  GivenAgain(t)'
<1>1. t \in Task /\ t \in outstanding /\ t.slice \in Slice
  BY DEF TypeOK, InflightHasOwner, Obligations, Task
<1>2. ASSUME NEW u \in Task, Settles(u)
      PROVE  GivenAgain(t)'
  <2>1. t # u
    BY <1>2 DEF Settles
  <2>2. t \in outstanding' /\ t.slice # u.slice
    BY <1>1, <1>2, <2>1, Settled
  <2> QED
    BY <1>1, <1>2, <2>2, Settled DEF GivenAgain
<1>3. ASSUME Restart
      PROVE  GivenAgain(t)'
  BY <1>3 DEF Restart
<1>4. ASSUME NEW m \in Node, NEW s \in Slice, Dispatch(m, s)
      PROVE  GivenAgain(t)'
  BY <1>4 DEF Dispatch, GivenAgain
<1>5. ASSUME UNCHANGED clientVars
      PROVE  GivenAgain(t)'
  BY <1>5 DEF clientVars, GivenAgain
<1> QED
  BY <1>2, <1>3, <1>4, <1>5, ClientStep

(* Only a dispatch makes an id known to a node.                            *)
LEMMA SeenStep ==
  ASSUME TypeOK, [Next]_vars, UNCHANGED clientVars, NEW t, Seen(t)'
  PROVE  Seen(t)
<1> USE DEF registryVars, clientVars, nodeVars
<1>0. /\ held \in [Node -> SUBSET Task]
      /\ cache \in [Node -> SUBSET Result]
      /\ down \in [Node -> Seq(Task)]
  BY DEF TypeOK
<1>1. ASSUME UNCHANGED <<held, cache, down>>
      PROVE  Seen(t)
  BY <1>1 DEF Seen, Cached, OnItsWay
<1>2. ASSUME NEW n \in Node, NEW s \in Slice, Dispatch(n, s)
      PROVE  Seen(t)
  <2> DEFINE u == [slice |-> s, attempt |-> nextId[s]]
  <2>1. outstanding' = outstanding \cup {u} /\ u.slice = s /\ \A v \in outstanding : v.slice # s
    BY <1>2 DEF Dispatch
  <2> QED
    BY <2>1
<1>3. ASSUME NEW n \in Node, Break(n) \/ Crash(n)
      PROVE  Seen(t)
  <2>1. PICK m \in Node : t \in held'[m] \/ Cached(m, t)' \/ OnItsWay(m, t)'
    BY DEF Seen
  <2>2. /\ held'[m] \subseteq held[m] /\ cache'[m] \subseteq cache[m]
        /\ down'[m] = down[m] \/ down'[m] = <<>>
    BY <1>0, <1>3 DEF Break, Crash
  <2> QED
    BY <2>1, <2>2 DEF Seen, Cached, OnItsWay
<1>4. ASSUME NEW n \in Node, Receive(n)
      PROVE  Seen(t)
  <2> DEFINE u == Head(down[n])
  <2>1. /\ down' = [down EXCEPT ![n] = Tail(down[n])] /\ down[n] # <<>>
        /\ held' = held \/ held' = [held EXCEPT ![n] = held[n] \cup {u}]
        /\ cache' = cache \/ cache' = [cache EXCEPT ![n] = cache[n] \cup {<<u, TRUE>>}]
    BY <1>4 DEF Receive
  <2>2. /\ Len(down[n]) \in Nat /\ Len(down[n]) >= 1 /\ u = down[n][1]
        /\ Len(Tail(down[n])) = Len(down[n]) - 1
        /\ \A i \in 1..Len(Tail(down[n])) : Tail(down[n])[i] = down[n][i + 1]
    BY <1>0, <2>1, HeadTailProperties
  <2>3. OnItsWay(n, u) /\ (OnItsWay(n, t)' => OnItsWay(n, t))
    BY <1>0, <2>1, <2>2 DEF OnItsWay
  <2> HIDE DEF u
  <2>4. PICK m \in Node : t \in held'[m] \/ Cached(m, t)' \/ OnItsWay(m, t)'
    BY DEF Seen
  <2>5. CASE m # n
    BY <1>0, <2>1, <2>4, <2>5 DEF Seen, Cached, OnItsWay
  <2>6. CASE m = n /\ t = u
    BY <2>3, <2>6 DEF Seen
  <2>7. CASE m = n /\ t # u
    <3>1. t \in held'[n] => t \in held[n]
      BY <1>0, <2>1, <2>7
    <3>2. Cached(n, t)' => Cached(n, t)
      <4> SUFFICES ASSUME NEW c \in cache'[n], c[1] = t PROVE Cached(n, t)
        BY DEF Cached
      <4>1. c \in cache[n] \/ c = <<u, TRUE>>
        BY <1>0, <2>1, ZenonT(30)
      <4>2. <<u, TRUE>>[1] = u
        OBVIOUS
      <4> QED
        BY <2>7, <4>1, <4>2 DEF Cached
    <3> QED
      BY <2>3, <2>4, <2>7, <3>1, <3>2 DEF Seen
  <2> QED
    BY <2>5, <2>6, <2>7
<1>5. ASSUME NEW n \in Node, NEW u \in held[n], NEW failed \in BOOLEAN,
             Finish(n, u, failed)
      PROVE  Seen(t)
  <2>1. /\ held' = [held EXCEPT ![n] = held[n] \ {u}]
        /\ cache' = cache \/ cache' = [cache EXCEPT ![n] = cache[n] \cup {<<u, failed>>}]
        /\ down' = down
    BY <1>5 DEF Finish
  <2>2. PICK m \in Node : t \in held'[m] \/ Cached(m, t)' \/ OnItsWay(m, t)'
    BY DEF Seen
  <2>3. t \in held'[m] => t \in held[m]
    BY <1>0, <2>1
  <2>4. Cached(m, t)' => Cached(m, t) \/ (m = n /\ t = u)
    <3> SUFFICES ASSUME NEW c \in cache'[m], c[1] = t
                 PROVE  Cached(m, t) \/ (m = n /\ t = u)
      BY DEF Cached
    <3>1. c \in cache[m] \/ (m = n /\ c = <<u, failed>>)
      BY <1>0, <2>1
    <3> QED
      BY <3>1 DEF Cached
  <2> QED
    BY <2>1, <2>2, <2>3, <2>4 DEF Seen, OnItsWay
<1>6. CASE Restart
  BY <1>6 DEF Restart, TypeOK
<1> QED
  BY <1>1, <1>2, <1>3, <1>4, <1>5, <1>6
     DEF Next, vars, NotifyLost, OnRegister, OnTerminal, Ignore, OnClose, Expire,
         Reconcile, Connect, Heartbeat, SendResult

(* The task of a dispatch, unless its id was given out before, is new.     *)
LEMMA DispatchIsNew ==
  ASSUME TypeOK, NextIsNew, NEW n \in Node, NEW s \in Slice, Dispatch(n, s),
         NEW t, t = [slice |-> s, attempt |-> nextId[s]], ~GivenAgain(t)
  PROVE  ~Seen(t)
<1>1. t \in Task /\ t.slice = s /\ t.attempt = nextId[s]
  BY DEF TypeOK, Task
<1>2. boots = 0 /\ ~(nextId[s] = 0 /\ attempts[s] > 0)
  BY <1>1 DEF TypeOK, GivenAgain
<1>3. verdict[s] = "open" /\ \A u \in outstanding : u.slice # s
  BY DEF Dispatch
<1>4. nextId[s] \in {0, attempts[s]}
  BY <1>1, <1>2, <1>3 DEF NextIsNew
<1>5. nextId[s] = attempts[s]
  BY <1>2, <1>4 DEF TypeOK
<1>6. Ahead(t)
  BY <1>1, <1>3, <1>5 DEF Ahead
<1> QED
  BY <1>1, <1>2, <1>3, <1>6 DEF NextIsNew

(* What a dispatch does to what is under way.                              *)
LEMMA DispatchSends ==
  ASSUME TypeOK, NEW n \in Node, NEW s \in Slice, Dispatch(n, s),
         NEW t, t = [slice |-> s, attempt |-> nextId[s]]
  PROVE  /\ \A m \in Node \ {n} : down'[m] = down[m]
         /\ \/ down'[n] = down[n]
            \/ /\ Len(down[n]) \in Nat
               /\ Len(down'[n]) = Len(down[n]) + 1
               /\ \A i \in 1..Len(down[n]) : down'[n][i] = down[n][i]
               /\ down'[n][Len(down[n]) + 1] = t
         /\ conn[n] = session[n] => OnItsWay(n, t)'
         /\ \A m \in Node, u \in Task : OnItsWay(m, u) => OnItsWay(m, u)'
         /\ \A m \in Node, u \in Task : OnItsWay(m, u)' => OnItsWay(m, u) \/ u = t
<1>0. down \in [Node -> Seq(Task)] /\ t \in Task
  BY DEF TypeOK, Task
<1>1. down' = IF conn[n] = session[n] THEN [down EXCEPT ![n] = Append(down[n], t)] ELSE down
  BY DEF Dispatch
<1>2. /\ Len(down[n]) \in Nat
      /\ Len(Append(down[n], t)) = Len(down[n]) + 1
      /\ \A i \in 1..Len(down[n]) : Append(down[n], t)[i] = down[n][i]
      /\ Append(down[n], t)[Len(down[n]) + 1] = t
  BY <1>0, AppendProperties
<1>3. CASE conn[n] # session[n]
  BY <1>1, <1>3 DEF OnItsWay
<1>4. CASE conn[n] = session[n]
  <2>1. /\ down'[n] = Append(down[n], t)
        /\ \A m \in Node \ {n} : down'[m] = down[m]
    BY <1>0, <1>1, <1>4
  <2>2. OnItsWay(n, t)'
    BY <1>2, <2>1 DEF OnItsWay
  <2>3. ASSUME NEW m \in Node, NEW u \in Task
        PROVE  /\ OnItsWay(m, u) => OnItsWay(m, u)'
               /\ OnItsWay(m, u)' => OnItsWay(m, u) \/ u = t
    <3>1. CASE m = n
      <4>1. ASSUME OnItsWay(n, u)
            PROVE  OnItsWay(n, u)'
        BY <1>2, <2>1, <4>1 DEF OnItsWay
      <4>2. ASSUME NEW i \in 1..Len(down'[n]), down'[n][i] = u, u # t
            PROVE  OnItsWay(n, u)
        <5>1. i \in 1..Len(down[n])
          BY <1>2, <2>1, <4>2
        <5> QED
          BY <1>2, <2>1, <4>2, <5>1 DEF OnItsWay
      <4> QED
        BY <3>1, <4>1, <4>2 DEF OnItsWay
    <3>2. CASE m # n
      BY <2>1, <3>2 DEF OnItsWay
    <3> QED
      BY <3>1, <3>2
  <2> QED
    BY <1>2, <2>1, <2>2, <2>3
<1> QED
  BY <1>3, <1>4

LEMMA NextStep ==
  TypeOK /\ InflightHasOwner /\ OneOut /\ NextIsNew /\ [Next]_vars => NextIsNew'
<1> SUFFICES ASSUME TypeOK, InflightHasOwner, OneOut, NextIsNew, [Next]_vars, boots' = 0,
                    NEW t \in Task, verdict'[t.slice] = "open"
             PROVE  /\ nextId'[t.slice] \in {0, attempts'[t.slice]}
                    /\ Ahead(t)' => ~Seen(t)'
  BY DEF NextIsNew
<1>0. /\ t.slice \in Slice /\ t.attempt \in Nat
      /\ \A s \in Slice : attempts[s] \in Nat /\ nextId[s] \in Nat
  BY BoundAssumption DEF TypeOK, Task
<1>1. ASSUME NEW n \in Node, NEW s \in Slice, Dispatch(n, s)
      PROVE  /\ nextId'[t.slice] \in {0, attempts'[t.slice]}
             /\ Ahead(t)' => ~Seen(t)'
  <2>1. PICK u \in Task : u = [slice |-> s, attempt |-> nextId[s]]
    BY DEF TypeOK, Task
  <2>2. /\ UNCHANGED <<attempts, nextId, verdict, boots, held, cache>>
        /\ outstanding' = outstanding \cup {u}
        /\ verdict[s] = "open"
    BY <1>1, <2>1 DEF Dispatch, nodeVars
  <2>3. boots = 0 /\ nextId[t.slice] \in {0, attempts[t.slice]}
    BY <2>2 DEF NextIsNew
  <2>4. nextId[s] \in {0, attempts[s]}
    BY <2>1, <2>2, <2>3 DEF NextIsNew
  <2>5. ASSUME Ahead(t)'
        PROVE  Ahead(t) /\ t # u
    BY <1>0, <2>1, <2>2, <2>4, <2>5 DEF Ahead
  <2>6. ASSUME t # u, Seen(t)'
        PROVE  Seen(t)
    BY <1>1, <2>1, <2>2, <2>6, DispatchSends DEF Seen, Cached
  <2> QED
    BY <2>2, <2>3, <2>5, <2>6 DEF NextIsNew
<1>2. ASSUME NEW u \in Task, Settles(u)
      PROVE  /\ nextId'[t.slice] \in {0, attempts'[t.slice]}
             /\ Ahead(t)' => ~Seen(t)'
  <2>1. boots = 0 /\ (Seen(t)' <=> Seen(t))
    BY <1>2, Settled DEF Settles, Seen, Cached, OnItsWay
  <2>2. CASE t.slice = u.slice
    <3>1. /\ verdict[t.slice] = "open"
          /\ attempts'[t.slice] = attempts[t.slice] + 1
          /\ nextId'[t.slice] \in {0, attempts'[t.slice]}
      BY <1>2, <2>2, Settled
    <3>2. Ahead(t)' => Ahead(t)
      BY <1>0, <3>1 DEF Ahead
    <3> QED
      BY <2>1, <3>1, <3>2 DEF NextIsNew
  <2>3. CASE t.slice # u.slice
    <3>1. /\ attempts'[t.slice] = attempts[t.slice]
          /\ nextId'[t.slice] = nextId[t.slice]
          /\ verdict'[t.slice] = verdict[t.slice]
          /\ outstanding' = outstanding \ {u}
      BY <1>0, <1>2, <2>3, Settled
    <3>2. Ahead(t)' => Ahead(t)
      BY <2>3, <3>1 DEF Ahead
    <3> QED
      BY <2>1, <3>1, <3>2 DEF NextIsNew
  <2> QED
    BY <2>2, <2>3
<1>3. ASSUME Restart
      PROVE  FALSE
  BY <1>3 DEF Restart, TypeOK
<1>4. ASSUME UNCHANGED clientVars
      PROVE  /\ nextId'[t.slice] \in {0, attempts'[t.slice]}
             /\ Ahead(t)' => ~Seen(t)'
  <2>1. Ahead(t)' <=> Ahead(t)
    BY <1>4 DEF clientVars, Ahead
  <2>2. Seen(t)' => Seen(t)
    BY <1>4, SeenStep
  <2> QED
    BY <1>4, <2>1, <2>2 DEF clientVars, NextIsNew
<1> QED
  BY <1>1, <1>2, <1>3, <1>4, ClientStep

LEMMA FirstStep ==
  TypeOK /\ InflightHasOwner /\ OneOut /\ NextIsNew /\ FirstIsAlone /\ [Next]_vars
    => FirstIsAlone'
<1> SUFFICES ASSUME TypeOK, InflightHasOwner, OneOut, NextIsNew, FirstIsAlone, [Next]_vars
             PROVE  FirstIsAlone'
  OBVIOUS
<1> USE DEF registryVars, clientVars, nodeVars
<1> DEFINE Alone(n, i) ==
      /\ down[n][i] \notin held[n]
      /\ ~Cached(n, down[n][i])
      /\ \A j \in 1..Len(down[n]) : down[n][j] = down[n][i] => j = i
<1>0. /\ held \in [Node -> SUBSET Task]
      /\ cache \in [Node -> SUBSET Result]
      /\ down \in [Node -> Seq(Task)]
  BY DEF TypeOK
<1>1. ASSUME NEW n \in Node, NEW s \in Slice, Dispatch(n, s)
      PROVE  FirstIsAlone'
  <2>1. PICK t \in Task : t = [slice |-> s, attempt |-> nextId[s]]
    BY DEF TypeOK, Task
  <2>2. /\ UNCHANGED <<attempts, boots, held, cache>>
        /\ outstanding' = outstanding \cup {t}
    BY <1>1, <2>1 DEF Dispatch
  <2>3. \A u : GivenAgain(u)' <=> GivenAgain(u)
    BY <2>2 DEF GivenAgain
  <2>4. ~GivenAgain(t) => ~Seen(t)
    BY <1>1, <2>1, DispatchIsNew
  <2>5. ASSUME NEW m \in Node, down'[m] = down[m], NEW i \in 1..Len(down[m]),
               down[m][i] \in outstanding', ~GivenAgain(down[m][i])
        PROVE  Alone(m, i)
    <3>1. down[m][i] # t
      BY <2>4, <2>5 DEF Seen, OnItsWay
    <3> QED
      BY <2>2, <2>5, <3>1 DEF FirstIsAlone
  <2>6. ASSUME Len(down[n]) \in Nat, Len(down'[n]) = Len(down[n]) + 1,
               \A i \in 1..Len(down[n]) : down'[n][i] = down[n][i],
               down'[n][Len(down[n]) + 1] = t,
               NEW i \in 1..Len(down'[n]),
               down'[n][i] \in outstanding', ~GivenAgain(down'[n][i])
        PROVE  Alone(n, i)'
    <3>1. CASE i = Len(down[n]) + 1
      <4>1. t \notin held[n] /\ ~Cached(n, t) /\ ~OnItsWay(n, t)
        BY <2>4, <2>6, <3>1 DEF Seen
      <4>2. \A j \in 1..Len(down'[n]) : down'[n][j] = t => j = i
        BY <2>6, <3>1, <4>1 DEF OnItsWay
      <4> QED
        BY <2>2, <2>6, <3>1, <4>1, <4>2 DEF Cached
    <3>2. CASE i # Len(down[n]) + 1
      <4>1. i \in 1..Len(down[n]) /\ down'[n][i] = down[n][i]
        BY <2>6, <3>2
      <4>2. down[n][i] # t
        BY <2>4, <2>6, <4>1 DEF Seen, OnItsWay
      <4>3. Alone(n, i)
        BY <2>2, <2>6, <4>1, <4>2 DEF FirstIsAlone
      <4>4. \A j \in 1..Len(down'[n]) : down'[n][j] = down[n][i] => j = i
        BY <2>6, <4>2, <4>3
      <4> QED
        BY <2>2, <4>1, <4>3, <4>4 DEF Cached
    <3> QED
      BY <3>1, <3>2
  <2>7. \A m \in Node \ {n} : down'[m] = down[m]
    BY <1>1, <2>1, DispatchSends
  <2>8. \/ down'[n] = down[n]
        \/ /\ Len(down[n]) \in Nat /\ Len(down'[n]) = Len(down[n]) + 1
           /\ \A i \in 1..Len(down[n]) : down'[n][i] = down[n][i]
           /\ down'[n][Len(down[n]) + 1] = t
    BY <1>1, <2>1, DispatchSends
  <2>9. ASSUME NEW m \in Node, NEW i \in 1..Len(down'[m]),
               down'[m][i] \in outstanding', ~GivenAgain(down'[m][i])
        PROVE  Alone(m, i)'
    <3>1. CASE down'[m] = down[m]
      BY <2>2, <2>5, <2>9, <3>1 DEF Cached
    <3>2. CASE down'[m] # down[m]
      <4>1. m = n
        BY <2>7, <3>2
      <4> QED
        BY <2>6, <2>8, <2>9, <3>2, <4>1
    <3> QED
      BY <3>1, <3>2
  <2> QED
    BY <2>3, <2>9 DEF FirstIsAlone
<1>2. ASSUME NEW t \in Task, Settles(t)
      PROVE  FirstIsAlone'
  <2>1. /\ UNCHANGED <<down, held, cache>> /\ boots' = boots
        /\ outstanding' = outstanding \ {t}
    BY <1>2, Settled DEF Settles
  <2>2. ASSUME NEW u \in outstanding'
        PROVE  u \in outstanding /\ (GivenAgain(u)' <=> GivenAgain(u))
    <3>1. u \in outstanding /\ u.slice \in Slice
      BY <2>1, <2>2 DEF TypeOK, Task
    <3>2. u.slice # t.slice
      BY <1>2, <2>2, Settled
    <3>3. attempts'[u.slice] = attempts[u.slice]
      BY <1>2, <3>1, <3>2, Settled
    <3> QED
      BY <2>1, <3>1, <3>3 DEF GivenAgain
  <2> QED
    BY <2>1, <2>2 DEF FirstIsAlone, Cached
<1>3. CASE Restart
  BY <1>3 DEF Restart, FirstIsAlone
<1>4. ASSUME UNCHANGED clientVars
      PROVE  FirstIsAlone'
  <2>1. outstanding' = outstanding /\ \A u : GivenAgain(u)' <=> GivenAgain(u)
    BY <1>4 DEF GivenAgain
  <2>2. ASSUME UNCHANGED <<down, held, cache>>
        PROVE  FirstIsAlone'
    BY <2>1, <2>2 DEF FirstIsAlone, Cached
  <2>3. ASSUME NEW n \in Node, Break(n) \/ Crash(n)
        PROVE  FirstIsAlone'
    <3>1. /\ \A m \in Node : held'[m] \subseteq held[m] /\ cache'[m] \subseteq cache[m]
          /\ \A m \in Node : down'[m] = down[m] \/ down'[m] = <<>>
      BY <1>0, <2>3 DEF Break, Crash
    <3> QED
      BY <2>1, <3>1 DEF FirstIsAlone, Cached
  <2>4. ASSUME NEW n \in Node, Receive(n)
        PROVE  FirstIsAlone'
    <3> DEFINE u == Head(down[n])
    <3>1. /\ down' = [down EXCEPT ![n] = Tail(down[n])] /\ down[n] # <<>>
          /\ held' = held \/ held' = [held EXCEPT ![n] = held[n] \cup {u}]
          /\ cache' = cache \/ cache' = [cache EXCEPT ![n] = cache[n] \cup {<<u, TRUE>>}]
      BY <2>4 DEF Receive
    <3>2. /\ Len(down[n]) \in Nat /\ Len(down[n]) >= 1 /\ u = down[n][1]
          /\ Len(Tail(down[n])) = Len(down[n]) - 1
          /\ \A i \in 1..Len(Tail(down[n])) : Tail(down[n])[i] = down[n][i + 1]
      BY <1>0, <3>1, HeadTailProperties
    <3> HIDE DEF u
    <3>3. ASSUME NEW m \in Node, NEW i \in 1..Len(down'[m]),
                 down'[m][i] \in outstanding', ~GivenAgain(down'[m][i])
          PROVE  Alone(m, i)'
      <4>1. CASE m # n
        <5>1. down'[m] = down[m] /\ held'[m] = held[m] /\ cache'[m] = cache[m]
          BY <1>0, <3>1, <4>1
        <5> QED
          BY <2>1, <3>3, <5>1 DEF FirstIsAlone, Cached
      <4>2. CASE m = n
        <5>1. down'[n] = Tail(down[n])
          BY <1>0, <3>1
        <5>2. i + 1 \in 1..Len(down[n]) /\ down'[n][i] = down[n][i + 1]
          BY <3>2, <3>3, <4>2, <5>1
        <5>3. Alone(n, i + 1)
          BY <2>1, <3>3, <4>2, <5>2 DEF FirstIsAlone
        <5>4. PICK x : x = down[n][i + 1]
          OBVIOUS
        <5>5. x # u /\ x \notin held[n] /\ ~Cached(n, x)
          BY <3>2, <5>2, <5>3, <5>4
        <5>6. x \notin held'[n]
          BY <1>0, <3>1, <5>5
        <5>7. ASSUME NEW c \in cache'[n], c[1] = x
              PROVE  FALSE
          <6>1. c \in cache[n] \/ c = <<u, TRUE>>
            BY <1>0, <3>1, <5>7, ZenonT(30)
          <6>2. <<u, TRUE>>[1] = u
            OBVIOUS
          <6> QED
            BY <5>5, <5>7, <6>1, <6>2 DEF Cached
        <5>8. ASSUME NEW j \in 1..Len(down'[n]), down'[n][j] = x
              PROVE  j = i
          <6>1. j + 1 \in 1..Len(down[n]) /\ down'[n][j] = down[n][j + 1]
            BY <3>2, <5>1, <5>8
          <6>2. j + 1 = i + 1
            BY <5>3, <5>4, <5>8, <6>1
          <6> QED
            BY <3>3, <6>2
        <5>9. down'[n][i] = x
          BY <5>2, <5>4
        <5> QED
          BY <4>2, <5>6, <5>7, <5>8, <5>9 DEF Cached
      <4> QED
        BY <4>1, <4>2
    <3> QED
      BY <2>1, <3>3 DEF FirstIsAlone
  <2>5. ASSUME NEW n \in Node, NEW u \in held[n], NEW failed \in BOOLEAN,
               Finish(n, u, failed)
        PROVE  FirstIsAlone'
    <3>1. /\ held' = [held EXCEPT ![n] = held[n] \ {u}]
          /\ cache' = cache \/ cache' = [cache EXCEPT ![n] = cache[n] \cup {<<u, failed>>}]
          /\ down' = down
      BY <2>5 DEF Finish
    <3>2. ASSUME NEW m \in Node, NEW t, t \notin held[m], ~Cached(m, t)
          PROVE  t \notin held'[m] /\ ~Cached(m, t)'
      <4>1. t \notin held'[m]
        BY <1>0, <3>1, <3>2
      <4>2. ASSUME NEW c \in cache'[m], c[1] = t
            PROVE  FALSE
        <5>1. c \in cache[m] \/ (m = n /\ c = <<u, failed>>)
          BY <1>0, <3>1, <4>2
        <5>2. <<u, failed>>[1] = u
          OBVIOUS
        <5> QED
          BY <3>2, <4>2, <5>1, <5>2 DEF Cached
      <4> QED
        BY <4>1, <4>2 DEF Cached
    <3> QED
      BY <2>1, <3>1, <3>2 DEF FirstIsAlone
  <2> QED
    BY <1>1, <1>3, <2>2, <2>3, <2>4, <2>5
       DEF Next, vars, NotifyLost, OnRegister, OnTerminal, Ignore, OnClose, Expire,
           Reconcile, Connect, Heartbeat, SendResult
<1> QED
  BY <1>1, <1>2, <1>3, <1>4, ClientStep

(* A node that is not connected is not bound and sends nothing.            *)
LEMMA NotConnected ==
  ASSUME NEW n \in Node, conn'[n] = NoStream
  PROVE  PendingAt(n)'
BY DEF PendingAt, SnapshotsPending, RestoredPending, OwedPending, Bound

(* A node goes on: it may add a frame to its stream, and what was pending  *)
(* or on its way is so still, or was given out again to a silent node.     *)
LEMMA NodeGoesOn ==
  ASSUME TypeOK, NEW n \in Node, PendingAt(n), conn[n] # NoStream,
         conn'[n] = conn[n], session'[n] = session[n],
         owed'[n] \subseteq owed[n], restored'[n] \subseteq restored[n],
         NEW q, q = up[n][conn[n]],
         NEW r, r = up'[n][conn[n]],
         \/ r = q
         \/ \E f \in Frame : /\ r = Append(q, f)
                             /\ f.kind = "register" => f.ids \subseteq held'[n],
         \A t : t \in held[n] \/ Unsent(n, t)
                  => t \in held'[n] \/ Unsent(n, t)' \/ Behind(r, Len(q), t),
         \A t \in owed'[n] : OnItsWay(n, t) => \/ OnItsWay(n, t)'
                                               \/ t \in held'[n] \/ Unsent(n, t)'
                                               \/ Silent(n, t)' /\ GivenAgain(t)',
         \A t \in owed'[n] : Silent(n, t) /\ GivenAgain(t)
                               => Silent(n, t)' /\ GivenAgain(t)'
  PROVE  PendingAt(n)'
<1>1. q \in Seq(Frame) /\ Len(q) \in Nat
  BY DEF TypeOK
<1>2. ASSUME NEW t, NEW i \in 0..Len(q), Behind(q, i, t) \/ Behind(r, Len(q), t)
      PROVE  Behind(r, i, t)
  <2>1. CASE r = q
    <3>1. \A j \in 1..Len(q) : ~(j > Len(q))
      BY <1>1
    <3>2. ~Behind(r, Len(q), t)
      BY <2>1, <3>1 DEF Behind
    <3> QED
      BY <1>2, <2>1, <3>2
  <2>2. ASSUME NEW f \in Frame, r = Append(q, f)
        PROVE  Behind(r, i, t)
    <3>1. Behind(q, i, t) => Behind(r, i, t)
      BY <1>1, <2>2, BehindAppend
    <3>2. ASSUME NEW j \in 1..Len(r), j > Len(q), r[j].kind = "terminal", r[j].task = t
          PROVE  Behind(r, i, t)
      <4>1. j > i
        BY <1>1, <1>2, <3>2
      <4> QED
        BY <3>2, <4>1 DEF Behind
    <3> QED
      BY <1>2, <3>1, <3>2 DEF Behind
  <2> QED
    BY <2>1, <2>2
<1>3. ASSUME NEW t, NEW i \in 0..Len(q), Pending(n, t, i)
      PROVE  Pending(n, t, i)'
  BY <1>2, <1>3 DEF Pending
<1>4. SnapshotsPending(n)'
  <2> SUFFICES ASSUME NEW i \in 1..Len(r), r[i].kind = "register", NEW t \in r[i].ids
               PROVE  Pending(n, t, i)'
    BY DEF SnapshotsPending
  <2>1. CASE i \in 1..Len(q) /\ r[i] = q[i]
    <3>1. Pending(n, t, i)
      BY <2>1 DEF PendingAt, SnapshotsPending
    <3> QED
      BY <1>3, <2>1, <3>1
  <2>2. CASE ~(i \in 1..Len(q) /\ r[i] = q[i])
    <3>1. PICK f \in Frame : r = Append(q, f) /\ (f.kind = "register" => f.ids \subseteq held'[n])
      BY <2>2
    <3>2. r[i] = f
      <4>1. r = Append(q, f)
        BY <3>1
      <4>2. i \in 1..Len(Append(q, f)) /\ ~(i \in 1..Len(q) /\ Append(q, f)[i] = q[i])
        BY <2>2, <4>1
      <4>3. Append(q, f)[i] = f
        BY <1>1, <4>2, OnlyLastIsNew
      <4> QED
        BY <4>1, <4>3
    <3> QED
      BY <3>1, <3>2 DEF Pending
  <2> QED
    BY <2>1, <2>2
<1>5. RestoredPending(n)' /\ OwedPending(n)'
  <2> SUFFICES ASSUME Bound(n)' PROVE RestoredPending(n)' /\ OwedPending(n)'
    BY DEF RestoredPending, OwedPending
  <2>1. Bound(n) /\ 0 \in 0..Len(q)
    BY <1>1 DEF Bound
  <2>2. RestoredPending(n)'
    BY <1>3, <2>1 DEF PendingAt, RestoredPending
  <2>3. ASSUME NEW t \in owed'[n]
        PROVE  (Pending(n, t, 0) \/ OnItsWay(n, t) \/ (Silent(n, t) /\ GivenAgain(t)))'
    <3>1. Pending(n, t, 0) \/ OnItsWay(n, t) \/ (Silent(n, t) /\ GivenAgain(t))
      BY <2>1, <2>3 DEF PendingAt, OwedPending
    <3>2. Pending(n, t, 0) => Pending(n, t, 0)'
      BY <1>3, <2>1
    <3> QED
      BY <2>3, <3>1, <3>2 DEF Pending
  <2> QED
    BY <2>2, <2>3 DEF OwedPending
<1> QED
  BY <1>4, <1>5 DEF PendingAt

(* Nothing happens to a node but that slots of it may be freed.            *)
LEMMA NodeUntouched ==
  ASSUME TypeOK, NEW n \in Node, PendingAt(n),
         session'[n] = session[n], conn'[n] = conn[n], up'[n] = up[n],
         held'[n] = held[n], cache'[n] = cache[n], sent'[n] = sent[n],
         down'[n] = down[n],
         owed'[n] \subseteq owed[n], restored'[n] \subseteq restored[n],
         \A t \in owed'[n] : GivenAgain(t) => GivenAgain(t)'
  PROVE  PendingAt(n)'
<1>1. CASE conn[n] = NoStream
  BY <1>1, NotConnected
<1>2. CASE conn[n] # NoStream
  <2>1. \A t : /\ Unsent(n, t)' <=> Unsent(n, t)
               /\ OnItsWay(n, t)' <=> OnItsWay(n, t)
               /\ Silent(n, t)' <=> Silent(n, t)
    BY DEF Unsent, OnItsWay, Silent
  <2>2. PICK q : q = up[n][conn[n]] /\ q = up'[n][conn[n]]
    OBVIOUS
  <2> QED
    BY <1>2, <2>1, <2>2, NodeGoesOn
<1> QED
  BY <1>1, <1>2

(* Snapshots depend on nothing but what the node has and sent.             *)
LEMMA SnapshotsSame ==
  ASSUME NEW n \in Node, SnapshotsPending(n), conn'[n] = conn[n],
         held'[n] = held[n], cache'[n] = cache[n], sent'[n] = sent[n],
         up'[n][conn[n]] = up[n][conn[n]] \/ up'[n][conn[n]] = <<>>
  PROVE  SnapshotsPending(n)'
<1>1. CASE up'[n][conn[n]] = <<>>
  BY <1>1 DEF SnapshotsPending
<1>2. CASE up'[n][conn[n]] = up[n][conn[n]]
  <2>1. \A t, i : Pending(n, t, i)' <=> Pending(n, t, i)
    BY <1>2 DEF Pending, Unsent
  <2> QED
    BY <1>2, <2>1 DEF SnapshotsPending
<1> QED
  BY <1>1, <1>2

(* The service takes a frame from the stream the node is connected by.     *)
LEMMA FrameTaken ==
  ASSUME TypeOK, NEW n \in Node, SnapshotsPending(n), NEW sid \in Stream,
         sid = conn[n], conn'[n] = conn[n], up[n][sid] # <<>>, Consume(n, sid),
         held'[n] = held[n], cache'[n] = cache[n], sent'[n] = sent[n],
         NEW h, h = Head(up[n][sid])
  PROVE  /\ SnapshotsPending(n)'
         /\ \A t : h.kind = "register" /\ t \in h.ids => Pending(n, t, 0)'
         /\ \A t : ~(h.kind = "terminal" /\ h.task = t) /\ Pending(n, t, 0) => Pending(n, t, 0)'
<1> DEFINE q == up[n][sid]
<1>1. /\ q \in Seq(Frame) /\ up'[n][sid] = Tail(q)
      /\ Len(q) \in Nat /\ Len(Tail(q)) = Len(q) - 1 /\ Len(q) >= 1
      /\ \A j \in 1..Len(Tail(q)) : Tail(q)[j] = q[j + 1]
      /\ h = q[1]
  BY ConsumeChanges, HeadTailProperties DEF TypeOK
<1>2. \A t : Unsent(n, t)' <=> Unsent(n, t)
  BY DEF Unsent
<1>3. ASSUME NEW t, NEW i \in Nat, Pending(n, t, i + 1)
      PROVE  Pending(n, t, i)'
  <2>1. Behind(q, i + 1, t) => Behind(Tail(q), i, t)
    BY <1>1, BehindTail
  <2> QED
    BY <1>1, <1>2, <1>3, <2>1 DEF Pending
<1>4. ASSUME NEW t, ~(h.kind = "terminal" /\ h.task = t), Pending(n, t, 0)
      PROVE  Pending(n, t, 0)'
  <2>1. Behind(q, 0, t) => Behind(Tail(q), 0, t)
    BY <1>1, <1>4, BehindTail
  <2> QED
    BY <1>1, <1>2, <1>4, <2>1 DEF Pending
<1>5. conn[n] # NoStream
  BY DEF Stream, NoStream
<1>6. SnapshotsPending(n)'
  <2> SUFFICES ASSUME NEW i \in 1..Len(Tail(q)), Tail(q)[i].kind = "register",
                      NEW t \in Tail(q)[i].ids
               PROVE  Pending(n, t, i)'
    BY <1>1 DEF SnapshotsPending
  <2>1. i + 1 \in 1..Len(q) /\ q[i + 1] = Tail(q)[i] /\ i \in Nat
    BY <1>1
  <2>2. Pending(n, t, i + 1)
    BY <1>5, <2>1 DEF SnapshotsPending
  <2> QED
    BY <1>3, <2>1, <2>2
<1>7. ASSUME NEW t, h.kind = "register", t \in h.ids
      PROVE  Pending(n, t, 0)'
  <2>1. Pending(n, t, 0 + 1)
    BY <1>1, <1>5, <1>7 DEF SnapshotsPending
  <2> QED
    BY <1>3, <2>1
<1> QED
  BY <1>4, <1>6, <1>7

(* A register frame arrives: whatever takes a slot is listed in it, or took*)
(* its slot before.                                                        *)
LEMMA RegisterPends ==
  ASSUME TypeOK, NEW n \in Node, NEW sid \in Stream, PendingAt(n), OnRegister(n, sid),
         \A t \in owed'[n] : GivenAgain(t) => GivenAgain(t)'
  PROVE  PendingAt(n)'
<1> USE DEF nodeVars
<1> DEFINE h == Head(up[n][sid])
<1>1. /\ up[n][sid] # <<>> /\ Consume(n, sid) /\ h.kind = "register"
      /\ session' = [session EXCEPT ![n] = sid]
      /\ owed' = [owed EXCEPT ![n] = owed[n] \ Missing(n, sid, h.ids)]
      /\ restored' = [restored EXCEPT ![n] = (restored[n] \ Missing(n, sid, h.ids))
                                               \cup TakenBack(n, sid, h.ids)]
      /\ UNCHANGED <<down, conn, held, cache, sent>>
  BY DEF OnRegister, BindNode
<1>2. session'[n] = sid
  BY <1>1 DEF TypeOK
<1>3. /\ owed'[n] = owed[n] \ Missing(n, sid, h.ids)
      /\ restored'[n] = (restored[n] \ Missing(n, sid, h.ids)) \cup TakenBack(n, sid, h.ids)
  BY <1>1 DEF TypeOK
<1>4. CASE conn[n] # sid
  <2>1. ~Bound(n)'
    BY <1>1, <1>2, <1>4 DEF Bound
  <2>2. conn[n] # NoStream => up'[n][conn[n]] = up[n][conn[n]]
    BY <1>1, <1>4, ConsumeChanges, SMTT(30) DEF TypeOK
  <2>3. SnapshotsPending(n)'
    <3>1. CASE conn[n] = NoStream
      BY <1>1, <3>1 DEF SnapshotsPending
    <3>2. CASE conn[n] # NoStream
      BY <1>1, <2>2, <3>2, SnapshotsSame DEF PendingAt
    <3> QED
      BY <3>1, <3>2
  <2> QED
    BY <2>1, <2>3 DEF PendingAt, RestoredPending, OwedPending
<1>5. CASE conn[n] = sid
  <2>1. PICK f : f = h
    OBVIOUS
  <2>2. /\ SnapshotsPending(n)'
        /\ \A t : t \in f.ids => Pending(n, t, 0)'
        /\ \A t : Pending(n, t, 0) => Pending(n, t, 0)'
    BY <1>1, <1>5, <2>1, FrameTaken DEF PendingAt
  <2>3. CASE Recovering(n, sid)
    <3>1. owed'[n] \subseteq f.ids /\ restored'[n] \subseteq f.ids
      BY <1>3, <2>1, <2>3 DEF Missing, TakenBack, Active
    <3> QED
      BY <2>2, <3>1 DEF PendingAt, RestoredPending, OwedPending
  <2>4. CASE ~Recovering(n, sid)
    <3>1. /\ owed'[n] = owed[n] /\ restored'[n] = restored[n]
          /\ session[n] = sid
      BY <1>3, <2>4 DEF Recovering, Missing, TakenBack
    <3>2. Bound(n)
      BY <1>5, <3>1 DEF Bound, Stream, NoStream
    <3>3. RestoredPending(n)'
      BY <2>2, <3>1, <3>2 DEF PendingAt, RestoredPending
    <3>4. \A t : /\ OnItsWay(n, t) => OnItsWay(n, t)'
                 /\ Silent(n, t) => Silent(n, t)'
      BY <1>1 DEF OnItsWay, Silent
    <3>5. OwedPending(n)'
      BY <2>2, <3>1, <3>2, <3>4 DEF PendingAt, OwedPending
    <3> QED
      BY <2>2, <3>3, <3>5 DEF PendingAt
  <2> QED
    BY <2>3, <2>4
<1> QED
  BY <1>4, <1>5

(* A frame that frees a slot, or none, is taken: the slots that stay taken *)
(* wait for other frames.                                                  *)
LEMMA TerminalPends ==
  ASSUME TypeOK, NEW n \in Node, NEW sid \in Stream, PendingAt(n),
         up[n][sid] # <<>>, Consume(n, sid),
         UNCHANGED <<session, conn, held, cache, sent, down>>,
         owed'[n] \subseteq owed[n], restored'[n] \subseteq restored[n],
         NEW h, h = Head(up[n][sid]),
         sid = session[n] /\ h.kind = "terminal"
           => h.task \notin owed'[n] /\ h.task \notin restored'[n],
         \A t \in owed'[n] : GivenAgain(t) => GivenAgain(t)'
  PROVE  PendingAt(n)'
<1>1. CASE conn[n] = NoStream
  BY <1>1, NotConnected
<1>2. CASE conn[n] # NoStream /\ conn[n] # sid
  <2>1. up'[n][conn[n]] = up[n][conn[n]]
    BY <1>2, ConsumeChanges DEF TypeOK
  <2>2. \A t : /\ Unsent(n, t)' <=> Unsent(n, t)
               /\ OnItsWay(n, t)' <=> OnItsWay(n, t)
               /\ Silent(n, t)' <=> Silent(n, t)
    BY DEF Unsent, OnItsWay, Silent
  <2>3. PICK q : q = up[n][conn[n]] /\ q = up'[n][conn[n]]
    BY <2>1
  <2> QED
    BY <1>2, <2>2, <2>3, NodeGoesOn
<1>3. CASE conn[n] = sid
  <2>1. /\ SnapshotsPending(n)'
        /\ \A t : ~(h.kind = "terminal" /\ h.task = t) /\ Pending(n, t, 0)
                    => Pending(n, t, 0)'
    BY <1>3, FrameTaken DEF PendingAt
  <2>2. ASSUME Bound(n)'
        PROVE  /\ \A t \in restored'[n] : Pending(n, t, 0)'
               /\ \A t \in owed'[n] :
                    (Pending(n, t, 0) \/ OnItsWay(n, t) \/ (Silent(n, t) /\ GivenAgain(t)))'
    <3>1. Bound(n) /\ sid = session[n]
      BY <1>3, <2>2 DEF Bound
    <3>2. \A t : /\ OnItsWay(n, t) => OnItsWay(n, t)'
                 /\ Silent(n, t) => Silent(n, t)'
      BY DEF OnItsWay, Silent
    <3>3. \A t \in restored'[n] : Pending(n, t, 0)'
      BY <2>1, <3>1 DEF PendingAt, RestoredPending
    <3>4. ASSUME NEW t \in owed'[n]
          PROVE  (Pending(n, t, 0) \/ OnItsWay(n, t) \/ (Silent(n, t) /\ GivenAgain(t)))'
      <4>1. Pending(n, t, 0) \/ OnItsWay(n, t) \/ (Silent(n, t) /\ GivenAgain(t))
        BY <3>1, <3>4 DEF PendingAt, OwedPending
      <4> QED
        BY <2>1, <3>1, <3>2, <3>4, <4>1
    <3> QED
      BY <3>3, <3>4
  <2> QED
    BY <2>1, <2>2 DEF PendingAt, RestoredPending, OwedPending
<1> QED
  BY <1>1, <1>2, <1>3

(* The first frame of a new stream lists what the node holds or keeps, and *)
(* nothing has been sent on that stream.                                   *)
LEMMA ConnectPends ==
  ASSUME TypeOK, StreamsDialled, NEW n \in Node, Connect(n)
  PROVE  PendingAt(n)'
<1> USE DEF registryVars
<1> DEFINE ids == held[n] \cup (IF n \in RustNode THEN {c[1] : c \in cache[n]} ELSE {})
<1>1. PICK sid : sid = dialled[n] + 1
  OBVIOUS
<1>2. /\ Send(n, sid, Register(ids))
      /\ dialled[n] < Dials[n]
      /\ conn' = [conn EXCEPT ![n] = sid]
      /\ sent' = [sent EXCEPT ![n] = {}]
      /\ UNCHANGED <<session, held, cache>>
  BY <1>1 DEF Connect
<1>3. /\ sid \in Stream /\ sid > dialled[n]
      /\ conn'[n] = sid /\ sent'[n] = {}
  <2>1. dialled[n] \in 0..MaxStream /\ Dials[n] \in 0..MaxStream /\ MaxStream \in Nat
    BY BoundAssumption DEF TypeOK
  <2> QED
    BY <1>1, <1>2, <2>1 DEF TypeOK, Stream
<1>4. ~Bound(n)'
  <2>1. session[n] <= dialled[n] /\ session[n] \in Nat /\ dialled[n] \in Nat
    BY DEF StreamsDialled, TypeOK, Stream, NoStream
  <2> QED
    BY <1>1, <1>2, <1>3, <2>1 DEF Bound
<1>5. up'[n][sid] = <<Register(ids)>>
  <2>1. up[n][sid] = <<>>
    BY <1>3 DEF StreamsDialled
  <2>2. up'[n][sid] = Append(<<>>, Register(ids))
    BY <1>2, <1>3, <2>1, SendChanges
  <2> QED
    BY <2>2
<1>6. ASSUME NEW t \in ids
      PROVE  t \in held'[n] \/ Unsent(n, t)'
  <2>1. t \in held[n] \/ \E c \in cache[n] : t = c[1]
    BY <1>6
  <2> QED
    BY <1>2, <1>3, <2>1 DEF Unsent
<1>7. SnapshotsPending(n)'
  <2> SUFFICES ASSUME NEW i \in 1..Len(up'[n][sid]), up'[n][sid][i].kind = "register",
                      NEW t \in up'[n][sid][i].ids
               PROVE  t \in held'[n] \/ Unsent(n, t)'
    BY <1>3 DEF SnapshotsPending, Pending
  <2>1. i = 1 /\ up'[n][sid][i] = Register(ids)
    BY <1>5
  <2>2. t \in ids
    BY <2>1 DEF Register
  <2> QED
    BY <1>6, <2>2
<1> QED
  BY <1>4, <1>7 DEF PendingAt, RestoredPending, OwedPending

(* A task reaches a node: it is held, its refusal is to be sent, or its id *)
(* is known; an id given out for the first time is not known.              *)
LEMMA ReceivePends ==
  ASSUME TypeOK, InflightHasOwner, ResultsKept, FirstIsAlone, NEW n \in Node,
         PendingAt(n), Receive(n)
  PROVE  PendingAt(n)'
<1> USE DEF registryVars, clientVars
<1>0. /\ held[n] \in SUBSET Task /\ cache[n] \in SUBSET Result /\ down[n] \in Seq(Task)
      /\ held \in [Node -> SUBSET Task] /\ cache \in [Node -> SUBSET Result]
  BY DEF TypeOK
<1>1. CASE conn[n] = NoStream
  BY <1>1, NotConnected DEF Receive
<1>2. CASE conn[n] # NoStream
  <2> DEFINE knownId(t) == t \in held[n] \/ t \in {c[1] : c \in cache[n]}
             full == n \in RustNode /\ Cardinality(held[n]) >= Capacity[n]
  <2>1. PICK t \in Task : t = Head(down[n])
    BY <1>0, HeadTailProperties DEF Receive
  <2>2. /\ down[n] # <<>>
        /\ down'[n] = Tail(down[n])
        /\ UNCHANGED <<session, owed, restored, attempts, boots, up, conn, sent>>
    BY DEF Receive, TypeOK
  <2>3. /\ Len(down[n]) \in Nat /\ Len(down[n]) >= 1 /\ t = down[n][1]
        /\ Len(Tail(down[n])) = Len(down[n]) - 1
        /\ \A i \in 1..Len(Tail(down[n])) : Tail(down[n])[i] = down[n][i + 1]
    BY <1>0, <2>1, <2>2, HeadTailProperties
  <2>4. ASSUME NEW u, OnItsWay(n, u), u # t
        PROVE  OnItsWay(n, u)'
    <3>1. PICK i \in 1..Len(down[n]) : down[n][i] = u
      BY <2>4 DEF OnItsWay
    <3>2. i - 1 \in 1..Len(down'[n]) /\ down'[n][i - 1] = u
      BY <2>2, <2>3, <2>4, <3>1
    <3> QED
      BY <3>2 DEF OnItsWay
  <2>5. held[n] \subseteq held'[n] /\ cache[n] \subseteq cache'[n]
    BY <1>0 DEF Receive
  <2>6. \A u : /\ Unsent(n, u) => Unsent(n, u)'
               /\ Silent(n, u) => Silent(n, u)'
               /\ GivenAgain(u)' <=> GivenAgain(u)
    BY <2>2, <2>5 DEF Unsent, Silent, GivenAgain
  <2>7. ASSUME t \in owed[n]
        PROVE  t \in held'[n] \/ Unsent(n, t)' \/ (Silent(n, t)' /\ GivenAgain(t)')
    <3>1. CASE t \in held[n]
      BY <2>5, <3>1
    <3>2. CASE Cached(n, t)
      <4>1. Unsent(n, t) \/ Silent(n, t)
        BY <3>2 DEF Cached, Unsent, Silent
      <4>2. t \in outstanding
        BY <2>7 DEF InflightHasOwner, Obligations
      <4>3. GivenAgain(t)
        BY <2>3, <3>2, <4>2 DEF FirstIsAlone
      <4> QED
        BY <2>6, <4>1, <4>3
    <3>3. CASE t \notin held[n] /\ ~Cached(n, t)
      <4>1. ~knownId(t)
        BY <3>3 DEF Cached
      <4>2. CASE full
        <5>1. cache' = [cache EXCEPT ![n] = cache[n] \cup {<<t, TRUE>>}]
          BY <2>1, <4>1, <4>2 DEF Receive
        <5>2. <<t, TRUE>> \in cache'[n] /\ <<t, TRUE>>[1] = t
          BY <1>0, <5>1
        <5>3. <<t, TRUE>> \notin sent'[n]
          BY <2>2, <3>3, <5>2 DEF ResultsKept, Cached
        <5> QED
          BY <5>2, <5>3 DEF Unsent
      <4>3. CASE ~full
        <5>1. held' = [held EXCEPT ![n] = held[n] \cup {t}]
          BY <2>1, <4>1, <4>3 DEF Receive
        <5> QED
          BY <1>0, <5>1
      <4> QED
        BY <4>2, <4>3
    <3> QED
      BY <3>1, <3>2, <3>3
  <2>8. ASSUME NEW u \in owed'[n], OnItsWay(n, u)
        PROVE  \/ OnItsWay(n, u)'
               \/ u \in held'[n] \/ Unsent(n, u)'
               \/ Silent(n, u)' /\ GivenAgain(u)'
    <3>1. CASE u # t
      BY <2>4, <2>8, <3>1
    <3>2. CASE u = t
      <4>1. t \in owed[n]
        BY <2>2, <2>8, <3>2
      <4> QED
        BY <2>7, <3>2, <4>1 DEF Unsent, Silent, GivenAgain
    <3> QED
      BY <3>1, <3>2
  <2>9. PICK q : q = up[n][conn[n]] /\ q = up'[n][conn[n]]
    BY <2>2
  <2> QED
    BY <1>2, <2>2, <2>5, <2>6, <2>8, <2>9, NodeGoesOn
<1> QED
  BY <1>1, <1>2

(* A task ends: its result is on the stream, or kept and to be sent.       *)
LEMMA FinishPends ==
  ASSUME TypeOK, ResultsKept, NEW n \in Node, PendingAt(n), NEW t \in held[n],
         NEW failed \in BOOLEAN, Finish(n, t, failed)
  PROVE  PendingAt(n)'
<1> USE DEF registryVars, clientVars
<1>0. /\ t \in Task
      /\ held \in [Node -> SUBSET Task] /\ cache \in [Node -> SUBSET Result]
  BY DEF TypeOK
<1>1. /\ held'[n] = held[n] \ {t}
      /\ cache[n] \subseteq cache'[n]
      /\ UNCHANGED <<session, owed, restored, attempts, boots, down, conn, sent>>
  BY <1>0 DEF Finish
<1>2. CASE conn[n] = NoStream
  BY <1>1, <1>2, NotConnected
<1>3. CASE conn[n] # NoStream
  <2>1. \A u : /\ Unsent(n, u) => Unsent(n, u)'
               /\ Silent(n, u) => Silent(n, u)'
               /\ OnItsWay(n, u) => OnItsWay(n, u)'
               /\ GivenAgain(u)' <=> GivenAgain(u)
    BY <1>1 DEF Unsent, Silent, OnItsWay, GivenAgain
  <2>2. PICK q, r : q = up[n][conn[n]] /\ r = up'[n][conn[n]]
    OBVIOUS
  <2>3. q \in Seq(Frame) /\ Len(q) \in Nat /\ conn[n] \in Stream
    BY <1>3, <2>2 DEF TypeOK
  <2>4. CASE n \in RustNode
    <3>1. /\ r = q
          /\ cache' = [cache EXCEPT ![n] = cache[n] \cup {<<t, failed>>}]
      BY <2>2, <2>4, <1>1 DEF Finish
    <3>2. <<t, failed>> \in cache'[n] /\ <<t, failed>>[1] = t
      BY <1>0, <3>1
    <3>3. <<t, failed>> \notin sent'[n]
      BY <1>1, <3>2 DEF ResultsKept, Cached
    <3>4. Unsent(n, t)'
      BY <3>2, <3>3 DEF Unsent
    <3>5. \A u : u \in held[n] \/ Unsent(n, u)
                   => u \in held'[n] \/ Unsent(n, u)' \/ Behind(r, Len(q), u)
      BY <1>1, <2>1, <3>4
    <3> QED
      BY <1>1, <1>3, <2>1, <2>2, <3>1, <3>5, NodeGoesOn
  <2>5. CASE n \notin RustNode
    <3>1. PICK f \in Frame : f = Terminal(t, failed)
      BY <1>0, FramesMade
    <3>2. Send(n, conn[n], f)
      BY <1>3, <2>5, <3>1 DEF Finish
    <3>3. r = Append(q, f)
      BY <2>2, <2>3, <3>2, <1>1, SendChanges
    <3>4. f.kind = "terminal" /\ f.task = t /\ f.kind # "register"
      BY <3>1 DEF Terminal
    <3>5. Behind(r, Len(q), t)
      BY <2>3, <3>3, <3>4, BehindAppend
    <3>6. \A u : u \in held[n] \/ Unsent(n, u)
                   => u \in held'[n] \/ Unsent(n, u)' \/ Behind(r, Len(q), u)
      BY <1>1, <2>1, <3>5
    <3> QED
      BY <1>1, <1>3, <2>1, <2>2, <3>3, <3>4, <3>6, NodeGoesOn
  <2> QED
    BY <2>4, <2>5
<1> QED
  BY <1>2, <1>3

(* A result is sent.                                                       *)
LEMMA SendPends ==
  ASSUME TypeOK, NEW n \in Node, PendingAt(n), NEW c \in cache[n], SendResult(n, c)
  PROVE  PendingAt(n)'
<1> USE DEF registryVars, clientVars
<1>1. /\ conn[n] \in Stream /\ conn[n] # NoStream
      /\ c \in Result /\ c[1] \in Task /\ c[2] \in BOOLEAN
  BY DEF SendResult, TypeOK, Result
<1>2. PICK f \in Frame : f = Terminal(c[1], c[2])
  BY <1>1, FramesMade
<1>3. /\ Send(n, conn[n], f)
      /\ sent'[n] = sent[n] \cup {c}
      /\ UNCHANGED <<session, owed, restored, attempts, boots, down, conn, held, cache>>
  BY <1>2 DEF SendResult, TypeOK
<1>4. PICK q, r : q = up[n][conn[n]] /\ r = up'[n][conn[n]]
  OBVIOUS
<1>5. q \in Seq(Frame) /\ Len(q) \in Nat
  BY <1>1, <1>4 DEF TypeOK
<1>6. r = Append(q, f)
  BY <1>1, <1>3, <1>4, SendChanges, ZenonT(30)
<1>7. f.kind = "terminal" /\ f.task = c[1] /\ f.kind # "register"
  BY <1>2 DEF Terminal
<1>8. Behind(r, Len(q), c[1])
  BY <1>5, <1>6, <1>7, BehindAppend
<1>9. \A u : Unsent(n, u) => Unsent(n, u)' \/ u = c[1]
  BY <1>3 DEF Unsent
<1>10. \A u : /\ Silent(n, u) => Silent(n, u)'
              /\ OnItsWay(n, u) => OnItsWay(n, u)'
              /\ GivenAgain(u)' <=> GivenAgain(u)
  BY <1>3 DEF Silent, OnItsWay, GivenAgain
<1>11. \A u : u \in held[n] \/ Unsent(n, u)
                => u \in held'[n] \/ Unsent(n, u)' \/ Behind(r, Len(q), u)
  BY <1>3, <1>8, <1>9
<1> QED
  BY <1>1, <1>3, <1>4, <1>6, <1>7, <1>10, <1>11, NodeGoesOn

(* A heartbeat lists what the node holds.                                  *)
LEMMA HeartbeatPends ==
  ASSUME TypeOK, NEW n \in Node, PendingAt(n), Heartbeat(n)
  PROVE  PendingAt(n)'
<1> USE DEF registryVars, clientVars
<1>1. /\ conn[n] \in Stream /\ conn[n] # NoStream
  BY DEF Heartbeat, TypeOK
<1>2. PICK f \in Frame : f = Register(held[n])
  BY FramesMade DEF TypeOK
<1>3. /\ Send(n, conn[n], f)
      /\ UNCHANGED <<session, owed, restored, attempts, boots, down, conn, held, cache, sent>>
  BY <1>2 DEF Heartbeat
<1>4. PICK q, r : q = up[n][conn[n]] /\ r = up'[n][conn[n]]
  OBVIOUS
<1>5. r = Append(q, f) /\ f.ids \subseteq held'[n]
  BY <1>1, <1>2, <1>3, <1>4, SendChanges DEF Register
<1>6. \A u : /\ Unsent(n, u) => Unsent(n, u)'
             /\ Silent(n, u) => Silent(n, u)'
             /\ OnItsWay(n, u) => OnItsWay(n, u)'
             /\ GivenAgain(u)' <=> GivenAgain(u)
  BY <1>3 DEF Unsent, Silent, OnItsWay, GivenAgain
<1> QED
  BY <1>1, <1>3, <1>4, <1>5, <1>6, NodeGoesOn

(* Every step keeps what is pending so: one step per action.               *)
LEMMA PendingStep ==
  TypeOK /\ InflightHasOwner /\ SlotInv /\ [Next]_vars => SlotsPending'
<1> SUFFICES ASSUME TypeOK, InflightHasOwner, SlotInv, [Next]_vars, NEW n \in Node
             PROVE  PendingAt(n)'
  BY DEF SlotsPending
<1> USE DEF registryVars, clientVars, nodeVars
<1>0. /\ PendingAt(n) /\ OneOut /\ ResultsKept /\ StreamsDialled /\ FirstIsAlone
      /\ \A t \in owed[n] : t \in owed'[n] /\ GivenAgain(t) => GivenAgain(t)'
  BY AgainKept DEF SlotInv, SlotsPending
<1> DEFINE Untouched == /\ session'[n] = session[n] /\ conn'[n] = conn[n]
                        /\ up'[n] = up[n] /\ held'[n] = held[n] /\ cache'[n] = cache[n]
                        /\ sent'[n] = sent[n] /\ down'[n] = down[n]
                        /\ owed'[n] \subseteq owed[n]
                        /\ restored'[n] \subseteq restored[n]
<1>1. ASSUME Untouched
      PROVE  PendingAt(n)'
  <2>1. \A t \in owed'[n] : GivenAgain(t) => GivenAgain(t)'
    BY <1>0, <1>1
  <2> QED
    BY <1>0, <1>1, <2>1, NodeUntouched
<1>2. ASSUME NEW m \in Node, NEW s \in Slice, Dispatch(m, s)
      PROVE  PendingAt(n)'
  <2>1. PICK t \in Task : t = [slice |-> s, attempt |-> nextId[s]]
    BY DEF TypeOK, Task
  <2>2. /\ owed' = [owed EXCEPT ![m] = owed[m] \cup {t}]
        /\ UNCHANGED <<session, conn, up, held, cache, sent, restored, attempts, boots>>
    BY <1>2, <2>1 DEF Dispatch
  <2>3. CASE m # n
    <3>1. down'[n] = down[n]
      BY <1>2, <2>1, <2>3, DispatchSends
    <3>2. owed'[n] = owed[n]
      BY <2>2, <2>3 DEF TypeOK
    <3> QED
      BY <1>1, <2>2, <3>1, <3>2
  <2>4. CASE m = n
    <3>1. \A u : /\ Silent(n, u)' <=> Silent(n, u)
                 /\ GivenAgain(u)' <=> GivenAgain(u)
                 /\ \A i : Pending(n, u, i)' <=> Pending(n, u, i)
      BY <2>2 DEF Silent, GivenAgain, Pending, Unsent
    <3>2. Bound(n)' => Bound(n) /\ conn[n] = session[n]
      BY <2>2 DEF Bound
    <3>3. SnapshotsPending(n)'
      BY <1>0, <2>2, SnapshotsSame DEF PendingAt
    <3>4. RestoredPending(n)'
      BY <1>0, <2>2, <3>1, <3>2 DEF PendingAt, RestoredPending
    <3>5. ASSUME Bound(n), NEW u \in owed'[n]
          PROVE  (Pending(n, u, 0) \/ OnItsWay(n, u) \/ (Silent(n, u) /\ GivenAgain(u)))'
      <4>1. CASE u = t
        <5>1. OnItsWay(n, t)'
          BY <1>2, <2>1, <2>4, <3>5, DispatchSends DEF Bound
        <5> QED
          BY <4>1, <5>1
      <4>2. CASE u # t
        <5>1. u \in owed[n] /\ u \in Task
          BY <2>2, <2>4, <3>5, <4>2 DEF TypeOK
        <5>2. OnItsWay(n, u) => OnItsWay(n, u)'
          BY <1>2, <2>1, <2>4, <5>1, DispatchSends
        <5>3. Pending(n, u, 0) \/ OnItsWay(n, u) \/ (Silent(n, u) /\ GivenAgain(u))
          BY <1>0, <3>5, <5>1 DEF PendingAt, OwedPending
        <5> QED
          BY <3>1, <5>2, <5>3
      <4> QED
        BY <4>1, <4>2
    <3>6. OwedPending(n)'
      BY <3>2, <3>5 DEF OwedPending
    <3> QED
      BY <3>3, <3>4, <3>6 DEF PendingAt
  <2> QED
    BY <2>3, <2>4
<1>3. ASSUME NEW t \in lost, NotifyLost(t)
      PROVE  PendingAt(n)'
  BY <1>1, <1>3 DEF NotifyLost
<1>4. ASSUME NEW m \in Node, NEW sid \in Stream, OnRegister(m, sid)
      PROVE  PendingAt(n)'
  <2>1. CASE m = n
    <3>1. owed'[n] \subseteq owed[n]
      BY <1>4, <2>1 DEF OnRegister, TypeOK
    <3>2. \A t \in owed'[n] : GivenAgain(t) => GivenAgain(t)'
      BY <1>0, <3>1
    <3> QED
      BY <1>0, <1>4, <2>1, <3>2, RegisterPends
  <2>2. CASE m # n
    <3>1. Consume(m, sid)
      BY <1>4 DEF OnRegister
    <3>2. up'[n] = up[n]
      BY <2>2, <3>1, ConsumeChanges
    <3>3. owed'[n] = owed[n] /\ restored'[n] = restored[n] /\ session'[n] = session[n]
      BY <1>4, <2>2 DEF OnRegister, BindNode, TypeOK
    <3>4. UNCHANGED <<down, conn, held, cache, sent>>
      BY <1>4 DEF OnRegister
    <3> QED
      BY <1>1, <3>2, <3>3, <3>4
  <2> QED
    BY <2>1, <2>2
<1>5. ASSUME NEW m \in Node, NEW sid \in Stream, OnTerminal(m, sid) \/ Ignore(m, sid)
      PROVE  PendingAt(n)'
  <2>1. PICK h : h = Head(up[m][sid])
    OBVIOUS
  <2>2. /\ up[m][sid] # <<>> /\ Consume(m, sid)
        /\ UNCHANGED <<session, conn, held, cache, sent, down>>
    BY <1>5 DEF OnTerminal, Ignore
  <2>3. /\ \/ owed' = [owed EXCEPT ![m] = owed[m] \ {h.task}]
              /\ restored' = [restored EXCEPT ![m] = restored[m] \ {h.task}]
           \/ /\ owed' = owed /\ restored' = restored
              /\ sid = session[m] /\ h.kind = "terminal" => h.task \notin Active(m)
    BY <1>5, <2>1 DEF OnTerminal, Ignore, Listening
  <2>4. /\ owed'[n] \subseteq owed[n] /\ restored'[n] \subseteq restored[n]
        /\ sid = session[m] /\ h.kind = "terminal"
             => h.task \notin owed'[m] /\ h.task \notin restored'[m]
    <3>1. PICK x : x = h.task
      OBVIOUS
    <3>2. owed \in [Node -> SUBSET Task] /\ restored \in [Node -> SUBSET Task]
      BY DEF TypeOK
    <3>3. CASE /\ owed' = [owed EXCEPT ![m] = owed[m] \ {x}]
               /\ restored' = [restored EXCEPT ![m] = restored[m] \ {x}]
      BY <3>1, <3>2, <3>3
    <3>4. CASE /\ owed' = owed /\ restored' = restored
               /\ sid = session[m] /\ h.kind = "terminal" => x \notin Active(m)
      BY <3>1, <3>4 DEF Active
    <3> QED
      BY <2>3, <3>1, <3>3, <3>4
  <2>5. CASE m = n
    <3>1. \A t \in owed'[n] : GivenAgain(t) => GivenAgain(t)'
      BY <1>0, <2>4
    <3> QED
      BY <1>0, <2>1, <2>2, <2>4, <2>5, <3>1, TerminalPends
  <2>6. CASE m # n
    <3>1. up'[n] = up[n]
      BY <2>2, <2>6, ConsumeChanges
    <3> QED
      BY <1>1, <2>2, <2>4, <3>1
  <2> QED
    BY <2>5, <2>6
<1>6. ASSUME NEW m \in Node, NEW sid \in Stream, OnClose(m, sid)
      PROVE  PendingAt(n)'
  <2>1. /\ session' = [session EXCEPT ![m] = IF session[m] = sid THEN NoStream ELSE session[m]]
        /\ up' = [up EXCEPT ![m][sid] = <<>>]
        /\ UNCHANGED <<owed, restored, down, conn, held, cache, sent>>
    BY <1>6 DEF OnClose
  <2>2. CASE m # n
    BY <1>1, <2>1, <2>2 DEF TypeOK
  <2>3. CASE m = n /\ conn[n] = NoStream
    BY <2>1, <2>3, NotConnected
  <2>4. CASE m = n /\ conn[n] = sid
    <3>1. up'[n][conn[n]] = <<>> /\ session'[n] # sid
      <4>1. sid # NoStream
        BY DEF Stream, NoStream
      <4>2. up'[n][sid] = <<>>
        BY <2>1, <2>4 DEF TypeOK
      <4>3. session'[n] # sid
        BY <2>1, <2>4, <4>1 DEF TypeOK
      <4> QED
        BY <2>4, <4>2, <4>3
    <3>2. SnapshotsPending(n)' /\ ~Bound(n)'
      BY <2>1, <2>4, <3>1 DEF SnapshotsPending, Bound
    <3> QED
      BY <3>2 DEF PendingAt, RestoredPending, OwedPending
  <2>5. CASE m = n /\ conn[n] # NoStream /\ conn[n] # sid
    <3>1. up'[n][conn[n]] = up[n][conn[n]]
      BY <2>1, <2>5 DEF TypeOK
    <3>2. SnapshotsPending(n)'
      BY <1>0, <2>1, <3>1, SnapshotsSame DEF PendingAt
    <3>3. Bound(n)' => Bound(n)
      BY <2>1, <2>5 DEF Bound, TypeOK
    <3>4. \A u : /\ Silent(n, u) => Silent(n, u)'
                 /\ OnItsWay(n, u) => OnItsWay(n, u)'
                 /\ Pending(n, u, 0) => Pending(n, u, 0)'
      BY <2>1, <3>1 DEF Silent, OnItsWay, Pending, Unsent
    <3>5. RestoredPending(n)' /\ OwedPending(n)'
      BY <1>0, <2>1, <3>3, <3>4 DEF PendingAt, RestoredPending, OwedPending
    <3> QED
      BY <3>2, <3>5 DEF PendingAt
  <2> QED
    BY <2>2, <2>3, <2>4, <2>5
<1>7. ASSUME NEW m \in Node, Expire(m) \/ Reconcile(m)
      PROVE  PendingAt(n)'
  <2>1. owed'[n] \subseteq owed[n] /\ restored'[n] \subseteq restored[n]
    BY <1>7 DEF Expire, Reconcile, TypeOK
  <2>2. UNCHANGED <<session, conn, up, held, cache, sent, down>>
    BY <1>7 DEF Expire, Reconcile
  <2> QED
    BY <1>1, <2>1, <2>2
<1>8. ASSUME Restart
      PROVE  PendingAt(n)'
  <2>1. session'[n] = NoStream /\ \A sid \in Stream : up'[n][sid] = <<>>
    BY <1>8 DEF Restart
  <2>2. conn' = conn /\ (conn[n] # NoStream => conn[n] \in Stream)
    BY <1>8 DEF Restart, TypeOK
  <2> QED
    BY <2>1, <2>2
       DEF PendingAt, SnapshotsPending, RestoredPending, OwedPending, Bound
<1>9. ASSUME NEW m \in Node, m # n,
             \/ Connect(m) \/ Heartbeat(m) \/ Break(m) \/ Receive(m) \/ Crash(m)
             \/ \E t \in held[m], failed \in BOOLEAN : Finish(m, t, failed)
             \/ \E c \in cache[m] : SendResult(m, c)
      PROVE  PendingAt(n)'
  <2>1. UNCHANGED <<session, owed, restored>>
    BY <1>9 DEF Connect, Heartbeat, Break, Receive, Crash, Finish, SendResult
  <2>2. /\ conn'[n] = conn[n] /\ held'[n] = held[n] /\ cache'[n] = cache[n]
        /\ sent'[n] = sent[n] /\ down'[n] = down[n]
    <3>0. /\ conn \in [Node -> Stream \cup {NoStream}] /\ down \in [Node -> Seq(Task)]
          /\ held \in [Node -> SUBSET Task]
          /\ cache \in [Node -> SUBSET Result] /\ sent \in [Node -> SUBSET Result]
      BY DEF TypeOK
    <3>1. CASE Connect(m) \/ Heartbeat(m) \/ Break(m) \/ Crash(m)
      BY <1>9, <3>0, <3>1 DEF Connect, Heartbeat, Break, Crash
    <3>2. CASE Receive(m)
      BY <1>9, <3>0, <3>2 DEF Receive
    <3>3. ASSUME NEW t \in held[m], NEW failed \in BOOLEAN, Finish(m, t, failed)
          PROVE  /\ held'[n] = held[n] /\ cache'[n] = cache[n]
                 /\ UNCHANGED <<conn, sent, down>>
      BY <1>9, <3>0, <3>3 DEF Finish
    <3>4. ASSUME NEW c \in cache[m], SendResult(m, c)
          PROVE  /\ sent'[n] = sent[n] /\ UNCHANGED <<conn, held, cache, down>>
      BY <1>9, <3>0, <3>4 DEF SendResult
    <3> QED
      BY <1>9, <3>1, <3>2, <3>3, <3>4
  <2>3. up'[n] = up[n]
    <3>1. up \in [Node -> [Stream -> Seq(Frame)]]
      BY DEF TypeOK
    <3>2. ASSUME NEW sid, NEW f, Send(m, sid, f)
          PROVE  up'[n] = up[n]
      BY <1>9, <3>1, <3>2 DEF Send
    <3>3. CASE Connect(m) \/ Heartbeat(m)
      BY <3>2, <3>3 DEF Connect, Heartbeat
    <3>4. CASE Break(m) \/ Receive(m) \/ Crash(m)
      BY <3>4 DEF Break, Receive, Crash
    <3>5. CASE \E t \in held[m], failed \in BOOLEAN : Finish(m, t, failed)
      BY <3>2, <3>5 DEF Finish
    <3>6. CASE \E c \in cache[m] : SendResult(m, c)
      BY <3>2, <3>6 DEF SendResult
    <3> QED
      BY <1>9, <3>3, <3>4, <3>5, <3>6
  <2> QED
    BY <1>1, <2>1, <2>2, <2>3
<1>10. ASSUME Break(n) \/ Crash(n)
       PROVE  PendingAt(n)'
  <2>1. conn'[n] = NoStream
    BY <1>10 DEF Break, Crash, TypeOK
  <2> QED
    BY <2>1, NotConnected
<1>11. ASSUME UNCHANGED vars
       PROVE  PendingAt(n)'
  BY <1>1, <1>11 DEF vars
<1>12. ASSUME NEW m \in Node,
              \/ Connect(m) \/ Heartbeat(m) \/ Break(m) \/ Receive(m) \/ Crash(m)
              \/ \E t \in held[m], failed \in BOOLEAN : Finish(m, t, failed)
              \/ \E c \in cache[m] : SendResult(m, c)
       PROVE  PendingAt(n)'
  <2>1. CASE m # n
    BY <1>9, <1>12, <2>1
  <2>2. CASE m = n
    BY <1>0, <1>10, <1>12, <2>2, ConnectPends, HeartbeatPends, ReceivePends, FinishPends,
       SendPends
  <2> QED
    BY <2>1, <2>2
<1> QED
  BY <1>2, <1>3, <1>4, <1>5, <1>6, <1>7, <1>8, <1>11, <1>12 DEF Next

(* The invariant is kept, and says what NoGhostSlot says.                  *)
LEMMA SlotStep ==
  TypeOK /\ InflightHasOwner /\ SlotInv /\ [Next]_vars => SlotInv'
BY ResultsStep, NodesStep, StreamsStep, PendingStep, OneOutStep, NextStep, FirstStep
   DEF SlotInv

LEMMA SlotsAccounted == TypeOK /\ SlotInv => NoGhostSlot
<1> SUFFICES ASSUME TypeOK, SlotInv, NEW n \in Node, Bound(n), NEW t \in Active(n)
             PROVE  Accounted(n, t) \/ (t \in owed[n] /\ Silent(n, t) /\ GivenAgain(t))
  BY DEF NoGhostSlot
<1>1. PendingAt(n)
  BY DEF SlotInv, SlotsPending
<1>2. Pending(n, t, 0) => Accounted(n, t)
  BY DEF Pending, Unsent, Behind, Accounted
<1>3. OnItsWay(n, t) => Accounted(n, t)
  BY DEF OnItsWay, Accounted
<1> QED
  BY <1>1, <1>2, <1>3 DEF Active, PendingAt, RestoredPending, OwedPending

(* No slot stays taken without a frame under way or to be sent, but for an *)
(* id given out again to a Rust node that answered it on this stream.      *)
THEOREM SlotsAreFreed == Spec => []NoGhostSlot
<1>1. TypeOK /\ InflightHasOwner /\ SlotInv /\ [Next]_vars
        => TypeOK' /\ InflightHasOwner' /\ SlotInv'
  BY TypeStep, OwnerStep, SlotStep
<1> QED
  BY TypeInit, OwnerInit, SlotInit, SlotsAccounted, <1>1, PTL DEF Spec
=============================================================================
