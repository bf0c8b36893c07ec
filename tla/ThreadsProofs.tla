----------------------------- MODULE ThreadsProofs -----------------------------
(***************************************************************************)
(* Proofs of the safety properties of VringWorkers for any number of       *)
(* rings, worker threads, masks and eventfds: the types, then who owns     *)
(* what (eventfds belong to their ring, registrations and events to the    *)
(* ring's worker), then the registrations and the kicks.  The second half  *)
(* is about Daemon, for any number of connections and of threads that have *)
(* a ShutdownHandle: whose flag is set before a socket is shut.            *)
(***************************************************************************)
EXTENDS VringWorkers, DaemonPart, Sequences, TLAPS

\* Ring 0 exists; rings are natural numbers.
LEMMA RingsNonEmpty == 0 \in Rings /\ Rings \subseteq Nat
  BY QueuesAssumption DEF Rings

\* The loops of set_features and reset_device stay within the rings.
LEMMA NextRing ==
  ASSUME NEW q \in Rings, MoreRings(q)
  PROVE  q + 1 \in Rings
  BY QueuesAssumption DEF Rings, MoreRings

\* The epoll sets stay sets of registrations.
LEMMA UpdatedRegistrationType ==
  ASSUME TypeOK, NEW q \in Rings
  PROVE  UpdatedRegistration(q) \in [Workers -> SUBSET Registration]
  <1> SUFFICES ASSUME NEW w \in Workers
               PROVE  UpdatedRegistration(q)[w] \subseteq Registration
    BY Zenon DEF UpdatedRegistration
  <1>1. epoll[w] \subseteq Registration
    BY Zenon DEF TypeOK
  <1>2. HasKick(q) => KickRegistration(q) \in Registration
    BY Zenon DEF TypeOK, HasKick, KickRegistration, Registration, Kick
  <1> QED
    BY <1>1, <1>2, Zenon DEF UpdatedRegistration, RegisterEvent, UnregisterEvent

\* What AfterReadKick leaves behind.
LEMMA AfterReadKickType ==
  ASSUME TypeOK, batch' \in [Workers -> SUBSET (Registration \cup {ExitEvent})],
         NEW w \in Workers, NEW q \in Rings, NEW eaten \in BOOLEAN,
         AfterReadKick(w, q, eaten)
  PROVE  /\ wpc' \in [Workers -> WorkerPc]
         /\ wring' \in [Workers -> Rings]
         /\ signaled' \in [Files -> BOOLEAN]
         /\ discarded' \in [Rings -> BOOLEAN]
  BY Zenon DEF TypeOK, AfterReadKick, NextEvent, WorkerPc

\* TypeOK holds in every state of the request thread and the workers.
THEOREM TypeCorrect == Spec => []TypeOK
  <1> USE RingsNonEmpty DEF MainPc, MainOp
  <1>1. Init => TypeOK
    <2> SUFFICES ASSUME Init PROVE TypeOK
      BY Zenon
    <2>1. main \in [pc : MainPc, op : MainOp, ring : Rings]
      BY Zenon DEF Init
    <2>2. /\ epoll \in [Workers -> SUBSET Registration]
          /\ batch \in [Workers -> SUBSET (Registration \cup {ExitEvent})]
          /\ wpc \in [Workers -> WorkerPc]
          /\ wring \in [Workers -> Rings]
          /\ exit \in [Workers -> BOOLEAN]
      BY Zenon DEF Init, WorkerPc
    <2> QED
      BY <2>1, <2>2, Zenon DEF Init, TypeOK
  <1>2. TypeOK /\ [Next]_vars => TypeOK'
    <2> SUFFICES ASSUME TypeOK, [Next]_vars PROVE TypeOK'
      BY Zenon
    <2>1. CASE ResetOwner
      BY <2>1, Zenon DEF TypeOK, ResetOwner, ringVars, workerVars
    <2>2. CASE ResetDevice
      BY <2>2, Zenon DEF TypeOK, ResetDevice, Goto, ringVars, workerVars
    <2>3. ASSUME NEW protocol \in BOOLEAN, SetFeatures(protocol) PROVE TypeOK'
      BY <2>3 DEF TypeOK, SetFeatures, Goto, ringVars, workerVars
    <2>4. ASSUME NEW q \in Rings, NEW enable \in BOOLEAN, SetVringEnable(q, enable)
          PROVE  TypeOK'
      BY <2>4, Zenon DEF TypeOK, SetVringEnable, Goto, ringVars, workerVars
    <2>5. ASSUME NEW q \in Rings, GetVringBase(q) PROVE TypeOK'
      BY <2>5, Zenon DEF TypeOK, GetVringBase, Goto, ringVars, workerVars
    <2>6. ASSUME NEW q \in Rings, NEW k \in Kick, SetVringKick(q, k) PROVE TypeOK'
      BY <2>6 DEF TypeOK, SetVringKick, InitializeIfNeeded, Goto, ringVars, workerVars, Kick
    <2>7. ASSUME NEW q \in Rings, SetVringKickNone(q) PROVE TypeOK'
      BY <2>7, Zenon DEF TypeOK, SetVringKickNone, InitializeIfNeeded, Goto, ringVars, workerVars
    <2>8. ASSUME NEW q \in Rings, SetVringCall(q) PROVE TypeOK'
      BY <2>8 DEF TypeOK, SetVringCall, InitializeIfNeeded, Goto, ringVars, workerVars
    <2>9. CASE SetEnabledInLoop
      BY <2>9, Zenon DEF TypeOK, SetEnabledInLoop, Goto, ringVars, workerVars
    <2>10. CASE UpdateVringRegistration
      <3>1. main.ring \in Rings
        BY Zenon DEF TypeOK
      <3>2. epoll' \in [Workers -> SUBSET Registration]
        BY <2>10, <3>1, UpdatedRegistrationType, Zenon DEF UpdateVringRegistration
      <3>3. main' \in [pc : MainPc, op : MainOp, ring : Rings]
        <4>1. main.op \in MainOp
          BY Zenon DEF TypeOK
        <4>2. MoreRings(main.ring) => main.ring + 1 \in Rings
          BY <3>1, NextRing, Zenon
        <4> QED
          BY <2>10, <3>1, <4>1, <4>2 DEF UpdateVringRegistration, Goto
      <3>4. protocol_acked' \in BOOLEAN
        BY <2>10, Zenon DEF UpdateVringRegistration, TypeOK
      <3> QED
        BY <2>10, <3>2, <3>3, <3>4, Zenon DEF UpdateVringRegistration, TypeOK, ringVars, workerVars
    <2>11. CASE UnsetKick
      BY <2>11, Zenon DEF TypeOK, UnsetKick, Goto, ringVars, workerVars
    <2>12. CASE SetQueueReady
      BY <2>12, Zenon DEF TypeOK, SetQueueReady, Goto, ringVars, workerVars
    <2>13. ASSUME NEW w \in Workers, EpollWait(w) PROVE TypeOK'
      <3>1. batch' \in [Workers -> SUBSET (Registration \cup {ExitEvent})]
        BY <2>13, Zenon DEF TypeOK, EpollWait
      <3> QED
        BY <2>13, <3>1, Zenon DEF TypeOK, EpollWait, WorkerPc, ringVars
    <2>14. ASSUME NEW w \in Workers, HandleExitEvent(w) PROVE TypeOK'
      BY <2>14, Zenon DEF TypeOK, HandleExitEvent, WorkerPc, ringVars
    <2>15. ASSUME NEW w \in Workers, NEW r \in Registration, ReadKick(w, r) PROVE TypeOK'
      <3>1. r.ring \in Rings
        BY Zenon DEF Registration
      <3>2. batch' \in [Workers -> SUBSET (Registration \cup {ExitEvent})]
        BY <2>15, Zenon DEF TypeOK, ReadKick
      <3>3. /\ wpc' \in [Workers -> WorkerPc]
            /\ wring' \in [Workers -> Rings]
            /\ signaled' \in [Files -> BOOLEAN]
            /\ discarded' \in [Rings -> BOOLEAN]
        <4>1. CASE HasKick(r.ring) /\ ~ signaled[kick[r.ring].file]
          BY <2>15, <3>1, <4>1, Zenon DEF TypeOK, ReadKick, WorkerPc
        <4>2. CASE ~ (HasKick(r.ring) /\ ~ signaled[kick[r.ring].file])
          <5>1. AfterReadKick(w, r.ring, HasKick(r.ring))
            BY <2>15, <4>2, Zenon DEF ReadKick
          <5> QED
            BY <3>1, <3>2, <5>1, AfterReadKickType, Zenon DEF HasKick
        <4> QED
          BY <4>1, <4>2, Zenon
      <3> QED
        BY <2>15, <3>2, <3>3, Zenon DEF TypeOK, ReadKick, ringVars
    <2>16. ASSUME NEW w \in Workers, BlockedReadReturns(w) PROVE TypeOK'
      <3>1. wring[w] \in Rings
        BY Zenon DEF TypeOK
      <3>2. batch' \in [Workers -> SUBSET (Registration \cup {ExitEvent})]
        BY <2>16, Zenon DEF TypeOK, BlockedReadReturns
      <3>3. AfterReadKick(w, wring[w], TRUE)
        BY <2>16, Zenon DEF BlockedReadReturns
      <3>4. /\ wpc' \in [Workers -> WorkerPc]
            /\ wring' \in [Workers -> Rings]
            /\ signaled' \in [Files -> BOOLEAN]
            /\ discarded' \in [Rings -> BOOLEAN]
        BY <3>1, <3>2, <3>3, AfterReadKickType, Zenon
      <3> QED
        BY <2>16, <3>2, <3>4, Zenon DEF TypeOK, BlockedReadReturns, ringVars
    <2>17. ASSUME NEW w \in Workers, BackendHandleEvent(w) PROVE TypeOK'
      BY <2>17, ZenonT(40) DEF TypeOK, BackendHandleEvent, NextEvent, WorkerPc, ringVars
    <2>18. ASSUME NEW w \in Workers, BackendHandleEventFails(w) PROVE TypeOK'
      BY <2>18, Zenon DEF TypeOK, BackendHandleEventFails, WorkerPc, ringVars
    <2>19. ASSUME NEW q \in Rings, GuestKick(q) PROVE TypeOK'
      BY <2>19, Zenon DEF TypeOK, GuestKick, HasKick, Kick, ringVars, workerVars
    <2>20. CASE SendExitEvent
      BY <2>20 DEF TypeOK, SendExitEvent, ringVars, workerVars
    <2>21. CASE BeginDrop
      BY <2>21 DEF TypeOK, BeginDrop, ringVars, workerVars
    <2>22. CASE JoinWorkers
      BY <2>22, Zenon DEF TypeOK, JoinWorkers, ringVars, workerVars
    <2>23. CASE UNCHANGED vars
      BY <2>23, Zenon DEF TypeOK, vars, ringVars, workerVars
    <2> QED
      BY <2>1, <2>2, <2>3, <2>4, <2>5, <2>6, <2>7, <2>8, <2>9, <2>10, <2>11, <2>12, <2>13, <2>14,
         <2>15, <2>16, <2>17, <2>18, <2>19, <2>20, <2>21, <2>22, <2>23, Zenon DEF Next, Request,
         MainContinues, WorkerStep
  <1> QED
    BY <1>1, <1>2, PTL DEF Spec
-------------------------------------------------------------------------------
\* Ownership.

\* The epoll sets after update_vring_registration: nothing but the kick of the ring
\* is added.
LEMMA UpdatedRegistrationSubset ==
  ASSUME TypeOK, NEW q \in Rings, NEW w \in Workers, NEW r \in UpdatedRegistration(q)[w]
  PROVE  r \in epoll[w] \/ (HasKick(q) /\ Serves(w, q) /\ r = KickRegistration(q))
  BY Zenon DEF UpdatedRegistration, RegisterEvent, UnregisterEvent

\* Every step keeps eventfds with their ring and events with the ring's worker.
LEMMA OwnershipStep ==
  TypeOK /\ OwnershipInv /\ [Next]_vars => OwnershipInv'
  <1> SUFFICES ASSUME TypeOK, OwnershipInv, [Next]_vars PROVE OwnershipInv'
    BY Zenon
  <1> USE DEF OwnershipInv, RingEvents, HasKick
  <1>1. CASE ResetOwner
    BY <1>1, Zenon DEF ResetOwner, ringVars, workerVars
  <1>2. CASE ResetDevice
    BY <1>2, Zenon DEF ResetDevice, ringVars, workerVars
  <1>3. ASSUME NEW protocol \in BOOLEAN, SetFeatures(protocol) PROVE OwnershipInv'
    BY <1>3, Zenon DEF SetFeatures, ringVars, workerVars
  <1>4. ASSUME NEW q \in Rings, NEW enable \in BOOLEAN, SetVringEnable(q, enable)
        PROVE  OwnershipInv'
    BY <1>4, Zenon DEF SetVringEnable, workerVars
  <1>5. ASSUME NEW q \in Rings, GetVringBase(q) PROVE OwnershipInv'
    BY <1>5, Zenon DEF GetVringBase, workerVars
  <1>6. ASSUME NEW q \in Rings, NEW k \in Kick, SetVringKick(q, k) PROVE OwnershipInv'
    <2>1. k # NoKick
      BY NoKickAssumption, Zenon
    <2> QED
      BY <1>6, <2>1, Zenon DEF SetVringKick, workerVars, TypeOK
  <1>7. ASSUME NEW q \in Rings, SetVringKickNone(q) PROVE OwnershipInv'
    BY <1>7, Zenon DEF SetVringKickNone, Locked, workerVars, TypeOK
  <1>8. ASSUME NEW q \in Rings, SetVringCall(q) PROVE OwnershipInv'
    BY <1>8, Zenon DEF SetVringCall, workerVars
  <1>9. CASE SetEnabledInLoop
    BY <1>9, Zenon DEF SetEnabledInLoop, workerVars
  <1>10. CASE UpdateVringRegistration
    <2>1. main.ring \in Rings
      BY Zenon DEF TypeOK
    <2>2. UNCHANGED <<kick, batch, wpc, wring>> /\ epoll' = UpdatedRegistration(main.ring)
      BY <1>10, Zenon DEF UpdateVringRegistration, ringVars, workerVars
    <2>3. ASSUME NEW w \in Workers, NEW r \in epoll'[w]
          PROVE  Serves(w, r.ring) /\ r.file \in RingFiles[r.ring]
      BY <2>1, <2>2, <2>3, UpdatedRegistrationSubset, SMTT(30) DEF KickRegistration
    <2> QED
      BY <2>2, <2>3, Zenon
  <1>11. CASE UnsetKick
    BY <1>11, Zenon DEF UnsetKick, Locked, workerVars, TypeOK
  <1>12. CASE SetQueueReady
    BY <1>12, Zenon DEF SetQueueReady, workerVars
  <1>13. ASSUME NEW w \in Workers, EpollWait(w) PROVE OwnershipInv'
    BY <1>13, ZenonT(60) DEF EpollWait, ringVars, TypeOK
  <1>14. ASSUME NEW w \in Workers, HandleExitEvent(w) PROVE OwnershipInv'
    BY <1>14, ZenonT(40) DEF HandleExitEvent, ringVars, TypeOK
  <1>15. ASSUME NEW w \in Workers, NEW r \in Registration, ReadKick(w, r)
         PROVE  OwnershipInv'
    <2>1. /\ UNCHANGED <<kick, epoll>>
          /\ \A v \in Workers : batch'[v] \subseteq batch[v]
          /\ r \in RingEvents(w)
      BY <1>15, Zenon DEF ReadKick, ringVars, TypeOK
    <2>2. /\ \A v \in Workers \ {w} : wpc'[v] = wpc[v] /\ wring'[v] = wring[v]
          /\ wring'[w] = r.ring
          /\ wpc'[w] = "blocked" => HasKick(r.ring)
      BY <1>15, ZenonT(60) DEF ReadKick, AfterReadKick, NextEvent, TypeOK, WorkerPc
    <2> QED
      BY <2>1, <2>2, Zenon
  <1>16. ASSUME NEW w \in Workers, BlockedReadReturns(w) PROVE OwnershipInv'
    <2>1. UNCHANGED <<kick, epoll, batch>>
      BY <1>16, Zenon DEF BlockedReadReturns, ringVars
    <2>2. /\ wpc[w] = "blocked" /\ wpc'[w] # "blocked"
          /\ \A v \in Workers : wring'[v] = wring[v]
          /\ \A v \in Workers \ {w} : wpc'[v] = wpc[v]
      BY <1>16, Zenon DEF BlockedReadReturns, AfterReadKick, NextEvent, TypeOK
    <2> QED
      BY <2>1, <2>2, Zenon
  <1>17. ASSUME NEW w \in Workers, BackendHandleEvent(w) PROVE OwnershipInv'
    BY <1>17, Zenon DEF BackendHandleEvent, NextEvent, ringVars, TypeOK
  <1>18. ASSUME NEW w \in Workers, BackendHandleEventFails(w) PROVE OwnershipInv'
    BY <1>18, ZenonT(40) DEF BackendHandleEventFails, ringVars, TypeOK
  <1>19. ASSUME NEW q \in Rings, GuestKick(q) PROVE OwnershipInv'
    BY <1>19, Zenon DEF GuestKick, ringVars, workerVars
  <1>20. CASE SendExitEvent
    BY <1>20, Zenon DEF SendExitEvent, ringVars, workerVars
  <1>21. CASE BeginDrop
    BY <1>21, Zenon DEF BeginDrop, ringVars, workerVars
  <1>22. CASE JoinWorkers
    BY <1>22, Zenon DEF JoinWorkers, ringVars, workerVars
  <1>23. CASE UNCHANGED vars
    BY <1>23, Zenon DEF vars, ringVars, workerVars
  <1> QED
    BY Zenon, <1>1, <1>2, <1>3, <1>4, <1>5, <1>6, <1>7, <1>8, <1>9, <1>10, <1>11, <1>12, <1>13,
       <1>14, <1>15, <1>16, <1>17, <1>18, <1>19, <1>20, <1>21, <1>22, <1>23
    DEF Next, Request, MainContinues, WorkerStep
-------------------------------------------------------------------------------
\* Registration.  Only the request thread changes rings and epoll sets.

\* The steps that are not the request thread's.
OtherStep ==
  \/ \E w \in Workers : WorkerStep(w)
  \/ \E q \in Rings : GuestKick(q)
  \/ SendExitEvent
  \/ BeginDrop
  \/ JoinWorkers
  \/ UNCHANGED vars

\* They change neither the rings nor the epoll sets.
LEMMA OtherStepFrame ==
  ASSUME OtherStep PROVE UNCHANGED <<ready, enabled, kick, main, epoll>>
  BY ZenonT(60) DEF OtherStep, WorkerStep, EpollWait, HandleExitEvent, ReadKick, BlockedReadReturns,
         BackendHandleEvent, BackendHandleEventFails, GuestKick, SendExitEvent, BeginDrop,
         JoinWorkers, vars, ringVars

\* The handlers start only rings with a kick.
LEMMA StartStep ==
  TypeOK /\ StartInv /\ ~ ReplaceKick /\ [Next]_vars => StartInv'
  <1> SUFFICES ASSUME TypeOK, StartInv, ~ ReplaceKick, [Next]_vars PROVE StartInv'
    BY Zenon
  <1> USE DEF StartInv, HasKick, Goto, BeginRequest, Idle
  <1>1. CASE ResetOwner
    BY <1>1, Zenon DEF ResetOwner, ringVars
  <1>2. CASE ResetDevice
    BY <1>2, Zenon DEF ResetDevice, ringVars
  <1>3. ASSUME NEW protocol \in BOOLEAN, SetFeatures(protocol) PROVE StartInv'
    BY <1>3 DEF SetFeatures, ringVars
  <1>4. ASSUME NEW q \in Rings, NEW enable \in BOOLEAN, SetVringEnable(q, enable)
        PROVE  StartInv'
    BY <1>4, Zenon DEF SetVringEnable
  <1>5. ASSUME NEW q \in Rings, GetVringBase(q) PROVE StartInv'
    BY <1>5, Zenon DEF GetVringBase, TypeOK
  <1>6. ASSUME NEW q \in Rings, NEW k \in Kick, SetVringKick(q, k) PROVE StartInv'
    <2>1. k # NoKick
      BY NoKickAssumption, Zenon
    <2> QED
      BY <1>6, <2>1 DEF SetVringKick, InitializeIfNeeded, TypeOK
  <1>7. ASSUME NEW q \in Rings, SetVringKickNone(q) PROVE StartInv'
    BY <1>7, Zenon DEF SetVringKickNone, InitializeIfNeeded, TypeOK
  <1>8. ASSUME NEW q \in Rings, SetVringCall(q) PROVE StartInv'
    BY <1>8 DEF SetVringCall, InitializeIfNeeded
  <1>9. CASE SetEnabledInLoop
    BY <1>9, Zenon DEF SetEnabledInLoop
  <1>10. CASE UpdateVringRegistration
    BY <1>10 DEF UpdateVringRegistration, ringVars
  <1>11. CASE UnsetKick
    BY <1>11, Zenon DEF UnsetKick, TypeOK
  <1>12. CASE SetQueueReady
    BY <1>12, Zenon DEF SetQueueReady, TypeOK
  <1>13. CASE OtherStep
    BY <1>13, OtherStepFrame, Zenon
  <1> QED
    BY <1>1, <1>2, <1>3, <1>4, <1>5, <1>6, <1>7, <1>8, <1>9, <1>10, <1>11, <1>12, <1>13, Zenon DEF
       Next, Request, MainContinues, OtherStep

\* After update_vring_registration for ring q, q is registered as its flags say ...
LEMMA UpdatedRingRegistration ==
  ASSUME TypeOK, OwnershipInv, StartInv, RegistrationInv,
         NEW q \in Rings, NEW w \in Workers
  PROVE  /\ \A r \in UpdatedRegistration(q)[w] : r.ring = q =>
               r = KickRegistration(q) /\ HasKick(q) /\ ready[q] /\ enabled[q]
         /\ Serves(w, q) /\ ready[q] /\ enabled[q] =>
               KickRegistration(q) \in UpdatedRegistration(q)[w]
  <1> DEFINE kr == KickRegistration(q)
  <1>1. \A r \in epoll[w] : r.ring = q => r = kr /\ HasKick(q) /\ Serves(w, q)
    BY Zenon DEF RegistrationInv, OwnershipInv
  <1>2. kr.ring = q /\ kr.fd = kick[q].fd /\ kr.file = kick[q].file
    BY Zenon DEF KickRegistration
  <1>3. CASE ~ (HasKick(q) /\ Serves(w, q))
    BY <1>1, <1>3, Zenon DEF UpdatedRegistration, StartInv
  <1>4. CASE HasKick(q) /\ Serves(w, q) /\ ready[q] /\ enabled[q]
    <2>1. UpdatedRegistration(q)[w] = RegisterEvent(epoll[w], kr)
      BY <1>4, Zenon DEF UpdatedRegistration
    <2>2. ASSUME NEW s \in epoll[w], SameKey(kr, s) PROVE s = kr
      <3>1. s.file \in RingFiles[s.ring] /\ kr.file \in RingFiles[q] /\ s.ring \in Rings
        BY <1>2, <1>4, SMTT(30) DEF OwnershipInv, TypeOK, Registration
      <3>2. s.ring = q
        BY <2>2, <3>1, FilesAssumption, Zenon DEF SameKey
      <3> QED
        BY <1>1, <3>2, Zenon
    <2> QED
      BY <1>1, <1>4, <2>1, <2>2 DEF RegisterEvent
  <1>5. CASE HasKick(q) /\ Serves(w, q) /\ ~ (ready[q] /\ enabled[q])
    <2>1. UpdatedRegistration(q)[w] = UnregisterEvent(epoll[w], kr)
      BY <1>5, Zenon DEF UpdatedRegistration
    <2> QED
      BY <1>1, <1>5, <2>1, Zenon DEF UnregisterEvent, SameKey
  <1> QED
    BY <1>3, <1>4, <1>5, Zenon

\* ... and the other rings are registered as before.
LEMMA UpdatedOtherRegistration ==
  ASSUME TypeOK, OwnershipInv, RegistrationInv,
         NEW q \in Rings, NEW w \in Workers, NEW r \in Registration, r.ring # q
  PROVE  r \in UpdatedRegistration(q)[w] <=> r \in epoll[w]
  <1> DEFINE kr == KickRegistration(q)
  <1>1. kr.ring = q /\ kr.file = kick[q].file
    BY Zenon DEF KickRegistration
  <1>2. CASE ~ (HasKick(q) /\ Serves(w, q))
    BY <1>2, Zenon DEF UpdatedRegistration
  <1>3. CASE HasKick(q) /\ Serves(w, q)
    <2>1. r \in epoll[w] => ~ SameKey(kr, r)
      <3> SUFFICES ASSUME r \in epoll[w] PROVE ~ SameKey(kr, r)
        BY Zenon
      <3>1. r.file \in RingFiles[r.ring] /\ kr.file \in RingFiles[q] /\ r.ring \in Rings
        BY <1>1, <1>3, Zenon DEF OwnershipInv, Registration
      <3> QED
        BY <3>1, FilesAssumption, Zenon DEF SameKey
    <2> QED
      BY <1>1, <1>3, <2>1, Zenon DEF UpdatedRegistration, RegisterEvent, UnregisterEvent
  <1> QED
    BY <1>2, <1>3, Zenon
\* Every step leaves the registrations as the flags of the rings say.
LEMMA RegistrationStep ==
  TypeOK /\ OwnershipInv /\ StartInv /\ RegistrationInv /\ ~ ReplaceKick /\ [Next]_vars
    => RegistrationInv'
  <1> SUFFICES ASSUME TypeOK, OwnershipInv, StartInv, RegistrationInv, ~ ReplaceKick,
                      [Next]_vars
               PROVE  RegistrationInv'
    BY Zenon
  <1> USE DEF HasKick, KickRegistration, Updating, Goto, BeginRequest, Idle
  <1>0. \A w \in Workers : \A r \in epoll[w] : r.ring \in Rings
    BY DEF TypeOK, Registration
  <1>1. CASE ResetOwner
    BY <1>1, Zenon DEF RegistrationInv, ResetOwner, ringVars
  <1>2. CASE ResetDevice
    BY <1>2, Zenon DEF RegistrationInv, ResetDevice, ringVars
  <1>3. ASSUME NEW protocol \in BOOLEAN, SetFeatures(protocol) PROVE RegistrationInv'
    BY <1>3, Zenon DEF RegistrationInv, SetFeatures, ringVars
  <1>4. ASSUME NEW q \in Rings, NEW enable \in BOOLEAN, SetVringEnable(q, enable)
        PROVE  RegistrationInv'
    BY <1>0, <1>4, ZenonT(40) DEF RegistrationInv, SetVringEnable, TypeOK
  <1>5. ASSUME NEW q \in Rings, GetVringBase(q) PROVE RegistrationInv'
    BY <1>0, <1>5 DEF RegistrationInv, GetVringBase, TypeOK
  <1>6. ASSUME NEW q \in Rings, NEW k \in Kick, SetVringKick(q, k) PROVE RegistrationInv'
    <2>1. kick[q] = NoKick /\ ~ ready[q]
      BY <1>6, Zenon DEF SetVringKick, StartInv
    <2>2. /\ UNCHANGED <<ready, enabled, epoll>>
          /\ main'.pc # "update"
          /\ \A p \in Rings \ {q} : kick'[p] = kick[p]
      BY <1>6, SMTT(30) DEF SetVringKick, InitializeIfNeeded, TypeOK
    <2>3. main.pc # "update"
      BY <1>6, Zenon DEF SetVringKick
    <2> QED
      BY <1>0, <2>1, <2>2, <2>3, Zenon DEF RegistrationInv
  <1>7. ASSUME NEW q \in Rings, SetVringKickNone(q) PROVE RegistrationInv'
    <2>1. kick' = kick
      BY <1>7, Zenon DEF SetVringKickNone, TypeOK
    <2> QED
      BY <1>7, <2>1, Zenon DEF RegistrationInv, SetVringKickNone, InitializeIfNeeded
  <1>8. ASSUME NEW q \in Rings, SetVringCall(q) PROVE RegistrationInv'
    BY <1>8, Zenon DEF RegistrationInv, SetVringCall, InitializeIfNeeded
  <1>9. CASE SetEnabledInLoop
    BY <1>0, <1>9, ZenonT(40) DEF RegistrationInv, SetEnabledInLoop, TypeOK
  <1>10. CASE UpdateVringRegistration
    <2> DEFINE q == main.ring
    <2>1. q \in Rings
      BY Zenon DEF TypeOK
    <2>2. /\ UNCHANGED <<ready, enabled, kick>>
          /\ epoll' = UpdatedRegistration(q)
          /\ main'.pc # "update"
      BY <1>10 DEF UpdateVringRegistration, ringVars
    <2>3. epoll' \in [Workers -> SUBSET Registration]
      BY <2>1, <2>2, UpdatedRegistrationType, Zenon
    <2>4. ASSUME NEW w \in Workers, NEW r \in epoll'[w]
          PROVE  HasKick(r.ring) /\ r = KickRegistration(r.ring) /\ ready[r.ring]
                   /\ enabled[r.ring]
      <3>1. r \in Registration
        BY <2>3, <2>4, Zenon
      <3>2. CASE r.ring = q
        BY <2>1, <2>2, <2>4, <3>2, UpdatedRingRegistration, ZenonT(60)
      <3>3. CASE r.ring # q
        <4>1. r \in epoll[w]
          BY <2>1, <2>2, <2>4, <3>1, <3>3, UpdatedOtherRegistration, Zenon
        <4> QED
          BY <3>3, <4>1, Zenon DEF RegistrationInv
      <3> QED
        BY <3>2, <3>3, Zenon
    <2>5. ASSUME NEW w \in Workers, NEW p \in Rings, Serves(w, p), ready[p], enabled[p]
          PROVE  KickRegistration(p) \in epoll'[w]
      <3>1. CASE p = q
        BY <2>1, <2>2, <2>5, <3>1, UpdatedRingRegistration, Zenon
      <3>2. CASE p # q
        <4>1. KickRegistration(p) \in epoll[w]
          BY <2>5, <3>2, Zenon DEF RegistrationInv
        <4>2. KickRegistration(p) \in Registration
          BY <4>1, Zenon DEF TypeOK
        <4> QED
          BY <2>1, <2>2, <3>2, <4>1, <4>2, UpdatedOtherRegistration, Zenon
      <3> QED
        BY <3>1, <3>2, Zenon
    <2> QED
      BY <2>2, <2>4, <2>5, Zenon DEF RegistrationInv
  <1>11. CASE UnsetKick
    <2>1. main.ring \in Rings /\ ~ ready[main.ring] /\ main.pc = "unset_kick"
      BY <1>11, Zenon DEF UnsetKick, StartInv, TypeOK
    <2>2. /\ UNCHANGED <<ready, enabled, epoll>>
          /\ main'.pc = "idle"
          /\ \A p \in Rings \ {main.ring} : kick'[p] = kick[p]
      BY <1>11, Zenon DEF UnsetKick, TypeOK
    <2> QED
      BY <1>0, <2>1, <2>2, Zenon DEF RegistrationInv
  <1>12. CASE SetQueueReady
    BY <1>0, <1>12, ZenonT(40) DEF RegistrationInv, SetQueueReady, TypeOK
  <1>13. CASE OtherStep
    BY <1>13, OtherStepFrame, ZenonT(60) DEF RegistrationInv
  <1> QED
    BY <1>1, <1>2, <1>3, <1>4, <1>5, <1>6, <1>7, <1>8, <1>9, <1>10, <1>11, <1>12, <1>13, Zenon DEF
       Next, Request, MainContinues, OtherStep
-------------------------------------------------------------------------------
\* Events and kicks.  The request thread leaves the workers alone and unsignals
\* nothing.

MainStep == Request \/ MainContinues

\* A step of the request thread, seen from the workers.
LEMMA MainStepFrame ==
  ASSUME TypeOK, MainStep
  PROVE  /\ UNCHANGED <<batch, wpc, wring, avail>>
         /\ \A f \in Files : signaled[f] => signaled'[f]
  BY ZenonT(60) DEF TypeOK, Kick, MainStep, Request, MainContinues, ResetOwner, ResetDevice,
         SetFeatures,
         SetVringEnable, GetVringBase, SetVringKick, SetVringKickNone, SetVringCall,
         SetEnabledInLoop, UpdateVringRegistration, UnsetKick, SetQueueReady, workerVars

\* One worker per ring.
LEMMA ServesUnique ==
  ASSUME NEW v \in Workers, NEW w \in Workers, NEW q \in Rings, Serves(v, q), Serves(w, q)
  PROVE  v = w
  BY QueuesAssumption DEF Serves, Workers

\* An eventfd tells the ring.
LEMMA FileTellsRing ==
  ASSUME NEW p \in Rings, NEW q \in Rings, NEW f, f \in RingFiles[p], f \in RingFiles[q]
  PROVE  p = q
  BY FilesAssumption, Zenon

\* The events of a batch, but for the exit event, are registrations.
LEMMA RingEventsType ==
  ASSUME TypeOK, NEW w \in Workers, NEW r \in RingEvents(w)
  PROVE  r \in Registration /\ r.ring \in Rings /\ r.file \in Files
  BY Zenon DEF TypeOK, RingEvents, Registration

\* When a worker eats the kick of ring q, no event that is left refers to it.
LEMMA EatenKick ==
  ASSUME TypeOK, OwnershipInv, BatchInv,
         NEW w \in Workers, NEW q \in Rings, HasKick(q), Serves(w, q),
         NEW v \in Workers, NEW s \in RingEvents(v), s.file = kick[q].file
  PROVE  v = w /\ s.ring = q
  <1>1. s.ring \in Rings /\ s.file \in RingFiles[s.ring] /\ Serves(v, s.ring)
    BY RingEventsType, Zenon DEF OwnershipInv
  <1>2. kick[q].file \in RingFiles[q]
    BY Zenon DEF OwnershipInv
  <1>3. s.ring = q
    BY <1>1, <1>2, FileTellsRing, Zenon
  <1> QED
    BY <1>1, <1>3, ServesUnique, Zenon

\* Every step leaves the eventfds of pending events readable.
LEMMA BatchStep ==
  TypeOK /\ OwnershipInv /\ RegistrationInv /\ BatchInv /\ [Next]_vars => BatchInv'
  <1> SUFFICES ASSUME TypeOK, OwnershipInv, RegistrationInv, BatchInv, [Next]_vars
               PROVE  BatchInv'
    BY Zenon
  <1>1. CASE MainStep
    BY <1>1, MainStepFrame, RingEventsType, Zenon DEF BatchInv, RingEvents
  <1>2. ASSUME NEW w \in Workers, EpollWait(w) PROVE BatchInv'
    <2>1. UNCHANGED <<wring, signaled>>
      BY <1>2, Zenon DEF EpollWait
    <2>2. \A v \in Workers \ {w} : batch'[v] = batch[v] /\ wpc'[v] = wpc[v]
      BY <1>2, Zenon DEF EpollWait, TypeOK
    <2>3. wpc'[w] = "dispatch"
      BY <1>2, Zenon DEF EpollWait, TypeOK
    <2>4. \A r \in batch'[w] \ {ExitEvent} : r \in epoll[w] /\ signaled[r.file]
      BY <1>2, Zenon DEF EpollWait, TypeOK
    <2>5. \A r, s \in epoll[w] : r.ring = s.ring => r = s
      BY Zenon DEF RegistrationInv
    <2> QED
      BY <2>1, <2>2, <2>3, <2>4, <2>5, Zenon DEF BatchInv, RingEvents
  <1>3. ASSUME NEW w \in Workers, HandleExitEvent(w) PROVE BatchInv'
    BY <1>3, ZenonT(40) DEF HandleExitEvent, BatchInv, RingEvents, TypeOK
  <1>4. ASSUME NEW w \in Workers, NEW r \in Registration, ReadKick(w, r) PROVE BatchInv'
    <2> DEFINE q == r.ring
    <2>1. r \in RingEvents(w) /\ q \in Rings /\ Serves(w, q)
      BY <1>4, Zenon DEF ReadKick, RingEvents, OwnershipInv, Registration
    <2>2. /\ \A v \in Workers \ {w} : /\ batch'[v] = batch[v]
                                      /\ wpc'[v] = wpc[v]
                                      /\ wring'[v] = wring[v]
          /\ batch'[w] \subseteq batch[w] \ {r}
          /\ wring'[w] = q
      BY <1>4, ZenonT(40) DEF ReadKick, AfterReadKick, TypeOK
    <2>3. ASSUME NEW f \in Files, ~ (HasKick(q) /\ f = kick[q].file), signaled[f]
          PROVE  signaled'[f]
      <3>1. CASE HasKick(r.ring) /\ ~ signaled[kick[r.ring].file]
        BY <1>4, <2>3, <3>1, Zenon DEF ReadKick
      <3>2. CASE ~ (HasKick(r.ring) /\ ~ signaled[kick[r.ring].file])
        <4>1. AfterReadKick(w, r.ring, HasKick(r.ring))
          BY <1>4, <3>2, Zenon DEF ReadKick
        <4> QED
          BY <2>3, <4>1, Zenon DEF AfterReadKick, TypeOK
      <3> QED
        BY <3>1, <3>2, ZenonT(40)
    <2>4. \A s \in batch'[w] \ {ExitEvent} : s \in RingEvents(w) /\ s.ring # q
      BY <2>1, <2>2, Zenon DEF BatchInv, RingEvents
    <2>5. ASSUME NEW v \in Workers, NEW s \in batch'[v] \ {ExitEvent}
          PROVE  signaled'[s.file]
      <3>1. s \in RingEvents(v) /\ (v = w => s.ring # q)
        BY <2>2, <2>4, <2>5, Zenon DEF RingEvents
      <3>2. ~ (HasKick(q) /\ s.file = kick[q].file)
        BY <2>1, <3>1, EatenKick
      <3> QED
        BY <2>3, <3>1, <3>2, RingEventsType, Zenon DEF BatchInv
    <2> QED
      BY <2>2, <2>4, <2>5, SMTT(30) DEF BatchInv, RingEvents
  <1>5. ASSUME NEW w \in Workers, BlockedReadReturns(w) PROVE BatchInv'
    <2> DEFINE q == wring[w]
    <2>1. q \in Rings /\ HasKick(q) /\ Serves(w, q) /\ wpc[w] = "blocked"
      BY <1>5, Zenon DEF BlockedReadReturns, OwnershipInv, TypeOK
    <2>2. /\ UNCHANGED <<batch, wring>>
          /\ \A v \in Workers : wpc'[v] = "blocked" => wpc[v] = "blocked"
      BY <1>5, Zenon DEF BlockedReadReturns, AfterReadKick, NextEvent, TypeOK
    <2>3. \A f \in Files : signaled'[f] = signaled[f] \/ f = kick[q].file
      BY <1>5, ZenonT(60) DEF BlockedReadReturns, AfterReadKick, TypeOK
    <2>4. ASSUME NEW v \in Workers, NEW s \in RingEvents(v) PROVE signaled'[s.file]
      <3>1. v = w => s.ring # q
        BY <2>1, <2>4, Zenon DEF BatchInv
      <3>2. s.file # kick[q].file
        BY <2>1, <3>1, EatenKick, SMTT(30)
      <3> QED
        BY <2>3, <3>2, RingEventsType, Zenon DEF BatchInv
    <2> QED
      BY <2>2, <2>4, ZenonT(40) DEF BatchInv, RingEvents
  <1>6. ASSUME NEW w \in Workers, BackendHandleEvent(w) PROVE BatchInv'
    BY <1>6, Zenon DEF BackendHandleEvent, NextEvent, BatchInv, RingEvents, TypeOK
  <1>7. ASSUME NEW w \in Workers, BackendHandleEventFails(w) PROVE BatchInv'
    BY <1>7, Zenon DEF BackendHandleEventFails, BatchInv, RingEvents, TypeOK
  <1>8. ASSUME NEW q \in Rings, GuestKick(q) PROVE BatchInv'
    <2>1. UNCHANGED <<batch, wpc, wring>> /\ \A f \in Files : signaled[f] => signaled'[f]
      BY <1>8, Zenon DEF GuestKick, workerVars, TypeOK
    <2> QED
      BY <2>1, RingEventsType, Zenon DEF BatchInv, RingEvents
  <1>9. CASE SendExitEvent \/ BeginDrop \/ JoinWorkers \/ UNCHANGED vars
    BY <1>9 DEF SendExitEvent, BeginDrop, JoinWorkers, vars, workerVars, BatchInv, RingEvents
  <1> QED
    BY <1>1, <1>2, <1>3, <1>4, <1>5, <1>6, <1>7, <1>8, <1>9, Zenon DEF Next, MainStep, WorkerStep
\* Every step keeps waiting buffers announced, or records that it did not.
LEMMA AnnouncedStep ==
  TypeOK /\ OwnershipInv /\ AnnouncedInv /\ [Next]_vars => AnnouncedInv'
  <1> SUFFICES ASSUME TypeOK, OwnershipInv, AnnouncedInv, [Next]_vars,
                      NEW v \in Workers, NEW p \in Rings, Serves(v, p), kick'[p] # NoKick,
                      avail'[p], ~ discarded'[p]
               PROVE  \/ wpc'[v] \in {"exited", "dead"}
                      \/ wpc'[v] = "handle" /\ wring'[v] = p
                      \/ signaled'[kick'[p].file]
    BY Zenon DEF AnnouncedInv, Ended, HasKick
  <1> DEFINE Announced == \/ wpc[v] \in {"exited", "dead"}
                          \/ wpc[v] = "handle" /\ wring[v] = p
                          \/ signaled[kick[p].file]
             Announced1 == \/ wpc'[v] \in {"exited", "dead"}
                           \/ wpc'[v] = "handle" /\ wring'[v] = p
                           \/ signaled'[kick'[p].file]
  <1>0. HasKick(p) /\ avail[p] /\ ~ discarded[p] => Announced
    BY Zenon DEF AnnouncedInv, Ended
  <1>1. ASSUME NEW q \in Rings, NEW k \in Kick, SetVringKick(q, k) PROVE Announced1
    <2>1. CASE p = q
      BY <1>1, <2>1, Zenon DEF SetVringKick, TypeOK, Kick
    <2>2. CASE p # q
      <3>1. kick'[p] = kick[p] /\ avail[p] /\ ~ discarded[p]
        BY <1>1, <2>2, Zenon DEF SetVringKick, TypeOK
      <3>2. UNCHANGED <<wpc, wring>> /\ \A f \in Files : signaled[f] => signaled'[f]
        BY <1>1, Zenon DEF SetVringKick, workerVars, TypeOK
      <3>3. kick[p].file \in Files
        BY <3>1, ZenonT(60) DEF TypeOK, Kick
      <3> QED
        BY <1>0, <3>1, <3>2, <3>3, Zenon DEF HasKick
    <2> QED
      BY <2>1, <2>2, ZenonT(40)
  <1>2. CASE MainStep /\ ~ \E q \in Rings, k \in Kick : SetVringKick(q, k)
    <2>1. UNCHANGED <<wpc, wring, avail, discarded, signaled>>
      BY <1>2, ZenonT(60) DEF MainStep, Request, MainContinues, ResetOwner, ResetDevice,
             SetFeatures,
             SetVringEnable, GetVringBase, SetVringKickNone, SetVringCall,
             SetEnabledInLoop, UpdateVringRegistration, UnsetKick, SetQueueReady, workerVars
    <2>2. kick'[p] = kick[p]
      BY <1>2, ZenonT(60) DEF MainStep, Request, MainContinues, ResetOwner, ResetDevice,
             SetFeatures,
             SetVringEnable, GetVringBase, SetVringKickNone, SetVringCall, SetEnabledInLoop,
             UpdateVringRegistration, UnsetKick, SetQueueReady, ringVars, TypeOK
    <2> QED
      BY <1>0, <2>1, <2>2, Zenon DEF HasKick
  <1>3. ASSUME NEW w \in Workers, EpollWait(w) PROVE Announced1
    BY <1>0, <1>3, ZenonT(60) DEF EpollWait, ringVars, HasKick, TypeOK
  <1>4. ASSUME NEW w \in Workers, HandleExitEvent(w) PROVE Announced1
    BY <1>0, <1>4, Zenon DEF HandleExitEvent, ringVars, HasKick, TypeOK
  <1>5. ASSUME NEW w \in Workers, NEW q \in Rings, NEW eaten \in BOOLEAN,
               eaten => HasKick(q), Serves(w, q), wpc[w] \in {"dispatch", "blocked"},
               UNCHANGED <<kick, avail>>, AfterReadKick(w, q, eaten)
        PROVE  Announced1
    <2>1. \A f \in Files : signaled'[f] = signaled[f] \/ (eaten /\ f = kick[q].file)
      BY <1>5, ZenonT(60) DEF AfterReadKick, TypeOK
    <2>2. kick[p].file \in RingFiles[p] /\ kick[p].file \in Files
      BY <1>5, Zenon DEF OwnershipInv, HasKick, TypeOK, Kick
    <2>3. ~ discarded[p] /\ avail[p]
      BY <1>5, Zenon DEF AfterReadKick, TypeOK
    <2>4. CASE v # w
      <3>1. p # q
        BY <1>5, <2>4, ServesUnique, ZenonT(40)
      <3>2. eaten => kick[p].file # kick[q].file
        BY <1>5, <2>2, <3>1, FileTellsRing, Zenon DEF OwnershipInv
      <3>3. wpc'[v] = wpc[v] /\ wring'[v] = wring[v]
        BY <1>5, <2>4, Zenon DEF AfterReadKick, TypeOK
      <3> QED
        BY <1>0, <1>5, <2>1, <2>2, <2>3, <3>2, <3>3, ZenonT(60) DEF HasKick
    <2>5. CASE v = w /\ p # q
      <3>1. eaten => kick[p].file # kick[q].file
        BY <1>5, <2>2, <2>5, FileTellsRing, Zenon DEF OwnershipInv
      <3> QED
        BY <1>0, <1>5, <2>1, <2>2, <2>3, <2>5, <3>1, ZenonT(40) DEF HasKick
    <2>6. CASE v = w /\ p = q /\ enabled[q]
      BY <1>5, <2>6, Zenon DEF AfterReadKick, TypeOK
    <2>7. CASE v = w /\ p = q /\ ~ enabled[q]
      <3>1. ~ eaten
        BY <1>5, <2>7, Zenon DEF AfterReadKick, TypeOK
      <3> QED
        BY <1>0, <1>5, <2>1, <2>2, <2>3, <2>7, <3>1, ZenonT(60) DEF HasKick
    <2> QED
      BY <2>4, <2>5, <2>6, <2>7, Zenon
  <1>6. ASSUME NEW w \in Workers, NEW r \in Registration, ReadKick(w, r) PROVE Announced1
    <2>1. r.ring \in Rings /\ Serves(w, r.ring) /\ UNCHANGED <<kick, avail>>
            /\ wpc[w] = "dispatch"
      BY <1>6, Zenon DEF ReadKick, RingEvents, OwnershipInv, Registration, ringVars
    <2>2. CASE HasKick(r.ring) /\ ~ signaled[kick[r.ring].file]
      <3>1. UNCHANGED <<signaled, discarded>>
        BY <1>6, <2>2, Zenon DEF ReadKick
      <3>2. \A u \in Workers \ {w} : wpc'[u] = wpc[u] /\ wring'[u] = wring[u]
        BY <1>6, <2>2, ZenonT(60) DEF ReadKick, TypeOK
      <3> QED
        BY <1>0, <2>1, <3>1, <3>2, Zenon DEF HasKick
    <2>3. CASE ~ (HasKick(r.ring) /\ ~ signaled[kick[r.ring].file])
      <3>1. AfterReadKick(w, r.ring, HasKick(r.ring))
        BY <1>6, <2>3, Zenon DEF ReadKick
      <3>2. HasKick(r.ring) \in BOOLEAN
        BY Zenon DEF HasKick
      <3> QED
        BY <1>5, <2>1, <3>1, <3>2, ZenonT(60)
    <2> QED
      BY <2>2, <2>3, Zenon
  <1>7. ASSUME NEW w \in Workers, BlockedReadReturns(w) PROVE Announced1
    <2>1. /\ wring[w] \in Rings /\ HasKick(wring[w]) /\ Serves(w, wring[w])
          /\ UNCHANGED <<kick, avail>> /\ wpc[w] = "blocked"
          /\ AfterReadKick(w, wring[w], TRUE)
      BY <1>7, ZenonT(60) DEF BlockedReadReturns, OwnershipInv, TypeOK, ringVars
    <2> QED
      BY <1>5, <2>1, Zenon
  <1>8. ASSUME NEW w \in Workers, BackendHandleEvent(w) PROVE Announced1
    <2>1. avail[p] /\ ~ discarded[p] /\ ~ (wring[w] = p)
      BY <1>8, Zenon DEF BackendHandleEvent, TypeOK
    <2>2. \A u \in Workers \ {w} : wpc'[u] = wpc[u]
      BY <1>8, ZenonT(40) DEF BackendHandleEvent, TypeOK
    <2>3. UNCHANGED <<kick, signaled, wring>> /\ wpc[w] = "handle"
      BY <1>8, Zenon DEF BackendHandleEvent, ringVars
    <2> QED
      BY <1>0, <2>1, <2>2, <2>3, Zenon DEF HasKick
  <1>9. ASSUME NEW w \in Workers, BackendHandleEventFails(w) PROVE Announced1
    BY <1>0, <1>9, ZenonT(40) DEF BackendHandleEventFails, ringVars, HasKick, TypeOK
  <1>10. ASSUME NEW q \in Rings, GuestKick(q) PROVE Announced1
    <2>1. UNCHANGED <<kick, wpc, wring>>
      BY <1>10, Zenon DEF GuestKick, ringVars, workerVars
    <2>2. CASE p = q
      <3>1. kick[q].file \in Files /\ HasKick(q)
        BY <2>1, <2>2, Zenon DEF HasKick, TypeOK, Kick
      <3> QED
        BY <1>10, <2>1, <2>2, <3>1, ZenonT(40) DEF GuestKick, TypeOK
    <2>3. CASE p # q
      <3>1. avail[p] /\ ~ discarded[p]
        BY <1>10, <2>3, Zenon DEF GuestKick, TypeOK
      <3>2. \A f \in Files : signaled[f] => signaled'[f]
        BY <1>10, Zenon DEF GuestKick, TypeOK
      <3>3. kick[p].file \in Files
        BY <2>1, ZenonT(40) DEF TypeOK, Kick
      <3> QED
        BY <1>0, <2>1, <3>1, <3>2, <3>3, Zenon DEF HasKick
    <2> QED
      BY <2>2, <2>3, Zenon
  <1>11. CASE SendExitEvent \/ BeginDrop \/ JoinWorkers \/ UNCHANGED vars
    BY <1>0, <1>11, Zenon DEF SendExitEvent, BeginDrop, JoinWorkers, vars, ringVars, workerVars,
                       HasKick
  <1> QED
    BY <1>1, <1>2, <1>3, <1>4, <1>6, <1>7, <1>8, <1>9, <1>10, <1>11, ZenonT(60)
    DEF Next, MainStep, WorkerStep
-------------------------------------------------------------------------------
\* The invariant and what follows from it.

\* VhostUserHandler::new establishes the invariant.
LEMMA InitIInv == Init => IInv
  <1> SUFFICES ASSUME Init PROVE IInv
    BY Zenon
  <1>1. /\ \A q \in Rings : ~ ready[q] /\ ~ HasKick(q) /\ ~ avail[q]
        /\ \A w \in Workers : epoll[w] = {} /\ RingEvents(w) = {} /\ wpc[w] = "wait"
        /\ main = [pc |-> "idle", op |-> "none", ring |-> 0]
    BY Zenon DEF Init, HasKick, RingEvents
  <1>2. OwnershipInv /\ AnnouncedInv
    BY <1>1, ZenonT(40) DEF OwnershipInv, AnnouncedInv
  <1>3. StartInv /\ RegistrationInv /\ BatchInv
    BY <1>1, Zenon DEF StartInv, RegistrationInv, BatchInv
  <1> QED
    BY <1>2, <1>3, Zenon DEF IInv

\* IInv is an invariant of the request thread and the workers: who owns which eventfd
\* and event, what is registered, and that waiting buffers are announced.
THEOREM IInvHolds == Spec => []IInv
  <1>1. Init => IInv
    BY InitIInv, Zenon
  <1>2. TypeOK /\ IInv /\ [Next]_vars => IInv'
    BY OwnershipStep, AnnouncedStep, StartStep, RegistrationStep, BatchStep, Zenon DEF IInv
  <1> QED
    BY <1>1, <1>2, TypeCorrect, PTL DEF Spec

\* RegistrationMatchesState for all numbers of rings and threads and all masks: between
\* requests update_vring_registration has left exactly the started and enabled rings
\* registered.
THEOREM RegistrationIsCorrect == Spec => []RegistrationMatchesState
  <1>1. TypeOK /\ IInv => RegistrationMatchesState
    <2> SUFFICES ASSUME TypeOK, IInv, ~ ReplaceKick, Idle,
                        NEW w \in Workers, NEW q \in Rings
                 PROVE  RegisteredFor(w, q) = IF Serves(w, q) /\ ready[q] /\ enabled[q]
                                              THEN {KickRegistration(q)} ELSE {}
      BY Zenon DEF RegistrationMatchesState
    <2>1. ~ Updating(q)
      BY ZenonT(40) DEF Idle, Updating
    <2>2. \A r \in epoll[w] : r.ring = q =>
             r = KickRegistration(q) /\ Serves(w, q) /\ ready[q] /\ enabled[q]
      BY <2>1, Zenon DEF IInv, RegistrationInv, OwnershipInv
    <2>3. Serves(w, q) /\ ready[q] /\ enabled[q] => KickRegistration(q) \in epoll[w]
      BY <2>1, Zenon DEF IInv, RegistrationInv
    <2>4. KickRegistration(q).ring = q
      BY Zenon DEF KickRegistration
    <2> QED
      BY <2>2, <2>3, <2>4, Zenon DEF RegisteredFor
  <1> QED
    BY <1>1, TypeCorrect, IInvHolds, PTL

\* ReadFindsKick: only a ring that was given another eventfd can make read_kick fail
\* or block.
THEOREM WorkersFindTheirKicks == Spec => []ReadFindsKick
  <1>1. IInv => ReadFindsKick
    BY Zenon DEF IInv, BatchInv, RingEvents, ReadFindsKick
  <1> QED
    BY <1>1, IInvHolds, PTL

\* KickReachesWorker: buffers that wait in a started and enabled ring are announced to
\* its worker, unless that worker threw the kick away.
THEOREM KicksAreAnnounced == Spec => []KickReachesWorker
  <1>1. IInv => KickReachesWorker
    <2> SUFFICES ASSUME IInv, ~ ReplaceKick, Idle, NEW w \in Workers, NEW q \in Rings,
                        Serves(w, q), ready[q], enabled[q], avail[q], ~ discarded[q]
                 PROVE  \/ Ended(w)
                        \/ wpc[w] = "handle" /\ wring[w] = q
                        \/ signaled[kick[q].file] /\ KickRegistration(q) \in epoll[w]
      BY Zenon DEF KickReachesWorker
    <2>1. HasKick(q) /\ ~ Updating(q)
      BY Zenon DEF IInv, StartInv, Idle, Updating
    <2>2. KickRegistration(q) \in epoll[w]
      BY <2>1, Zenon DEF IInv, RegistrationInv
    <2> QED
      BY <2>1, <2>2, Zenon DEF IInv, AnnouncedInv
  <1> QED
    BY <1>1, IInvHolds, PTL
-------------------------------------------------------------------------------
(* The daemon: for any number of connections and of threads with ShutdownHandles,          *)
(* VhostUserDaemon::wait takes no shutdown of our own for an error, and a request thread    *)
(* that has ended has shut its socket.                                                      *)

\* The first element of a sequence and the others.
LEMMA FirstAndRest ==
  ASSUME NEW S, NEW s \in Seq(S), s # <<>>
  PROVE  /\ Head(s) \in S /\ Tail(s) \in Seq(S) /\ Len(Tail(s)) = Len(s) - 1
         /\ \A i \in 1 .. Len(Tail(s)) : Tail(s)[i] = s[i + 1]
  OBVIOUS

\* A sequence with one more element.
LEMMA OneMore ==
  ASSUME NEW S, NEW s \in Seq(S), NEW e \in S
  PROVE  Append(s, e) \in Seq(S)
  OBVIOUS

\* What the drop of a listener leaves.
LEMMA DropListenerTypes ==
  ASSUME D!TypeOK, D!DropListener
  PROVE  /\ listening' \in BOOLEAN /\ backlog' \in Seq(Conns)
         /\ sock' \in [Conns -> {"closed", "open", "shut"}]
  <1>1. \A c \in Conns : sock[c] \in {"closed", "open", "shut"}
    BY Zenon DEF D!TypeOK
  <1>2. <<>> \in Seq(Conns)
    OBVIOUS
  <1> QED
    BY <1>1, <1>2, Zenon DEF D!DropListener

\* The type invariant, action by action.
LEMMA TypeStep ==
  ASSUME D!Numbered, D!TypeOK, [D!Next]_(D!vars)
  PROVE  D!TypeOK'
  <1> USE DEF D!Numbered, D!TypeOK
  <1>1. ASSUME NEW c \in Conns, D!PeerStep(c) PROVE D!TypeOK'
    <2>1. UNCHANGED <<listening, flag, D!loops, D!daemon, stopping, D!rest>>
      BY <1>1, Zenon DEF D!PeerStep
    <2>2. peer' \in [Conns -> {"away", "connected", "gone"}]
      BY <1>1, ZenonT(40) DEF D!PeerStep
    <2>3. sock' \in [Conns -> {"closed", "open", "shut"}]
      BY <1>1, Zenon DEF D!PeerStep
    <2>4. backlog' \in Seq(Conns)
      <3>1. Append(backlog, c) \in Seq(Conns)
        BY OneMore, Zenon
      <3> QED
        BY <1>1, <3>1, Zenon DEF D!PeerStep
    <2>5. inbox' \in [Conns -> 0 .. MaxInbox]
      BY <1>1, SMTT(30) DEF D!PeerStep
    <2> QED
      BY <2>1, <2>2, <2>3, <2>4, <2>5, ZenonT(40) DEF D!loops, D!daemon, D!rest
  <1>2. ASSUME NEW c \in Conns, D!HandleRequest(c) PROVE D!TypeOK'
    <2>1. UNCHANGED <<listening, backlog, peer, D!conns, D!daemon, stopping, D!rest>>
      BY <1>2, Zenon DEF D!HandleRequest
    <2>2. thread' \in [Conns -> {"none", "running", "closing", "ended"}]
      BY <1>2, SMTT(30) DEF D!HandleRequest, D!Leave, D!SocketEnds, D!loops
    <2>3. result' \in [Conns -> {"none", "SocketBroken", "Other", "Panicked"}]
      BY <1>2, Zenon DEF D!HandleRequest, D!Leave, D!SocketEnds, D!loops
    <2>4. poisoned' \in BOOLEAN /\ closedHere' \subseteq Conns
      BY <1>2, Zenon DEF D!HandleRequest, D!Leave, D!SocketEnds, D!loops
    <2>5. inbox' \in [Conns -> 0 .. MaxInbox]
      BY <1>2, SMTT(30) DEF D!HandleRequest, D!Leave, D!SocketEnds
    <2> QED
      BY <2>1, <2>2, <2>3, <2>4, <2>5, ZenonT(40) DEF D!conns, D!daemon, D!rest
  <1>3. ASSUME NEW c \in Conns, D!ReadEnd(c) PROVE D!TypeOK'
    <2>1. UNCHANGED <<listening, backlog, peer, D!conns, D!daemon, stopping, D!rest>>
      BY <1>3, Zenon DEF D!ReadEnd
    <2>2. PICK e \in {"Other", "SocketBroken"} : D!SocketEnds(c, e)
      BY <1>3, Zenon DEF D!ReadEnd
    <2>3. thread' \in [Conns -> {"none", "running", "closing", "ended"}]
      BY <2>2, Zenon DEF D!SocketEnds, D!Leave
    <2>4. result' \in [Conns -> {"none", "SocketBroken", "Other", "Panicked"}]
      BY <2>2, Zenon DEF D!SocketEnds, D!Leave
    <2>5. poisoned' \in BOOLEAN /\ closedHere' \subseteq Conns
      BY <2>2, Zenon DEF D!SocketEnds
    <2>6. inbox' \in [Conns -> 0 .. MaxInbox]
      BY <2>2 DEF D!SocketEnds, D!Leave
    <2> QED
      BY <2>1, <2>3, <2>4, <2>5, <2>6, ZenonT(40) DEF D!conns, D!daemon, D!rest
  <1>4. ASSUME NEW c \in Conns, D!CloseSocket(c),
               UNCHANGED <<D!peers, flag, result, poisoned, closedHere, D!daemon, stopping, D!rest>>
        PROVE  D!TypeOK'
    BY <1>4, ZenonT(40) DEF D!CloseSocket, D!peers, D!daemon, D!rest
  <1>5. ASSUME NEW c \in Conns, D!StartClient(c) PROVE D!TypeOK'
    <2>1. UNCHANGED <<listening, backlog, inbox, flag, result, poisoned, closedHere, serving, joined,
                      stopping, D!rest>>
      BY <1>5, Zenon DEF D!StartClient
    <2>2. /\ peer' \in [Conns -> {"away", "connected", "gone"}]
          /\ sock' \in [Conns -> {"closed", "open", "shut"}]
      BY <1>5, Zenon DEF D!StartClient
    <2>3. /\ thread' \in [Conns -> {"none", "running", "closing", "ended"}]
          /\ conn_state' \in Conns /\ main_thread' \in Conns
          /\ owner' \in {"idle", "waiting"} /\ handles' \subseteq Conns
      BY <1>5, Zenon DEF D!StartClient, D!StartDaemon
    <2> QED
      BY <2>1, <2>2, <2>3, Zenon DEF D!rest
  <1>6. ASSUME NEW s \in Stoppers, D!Stop(s) PROVE D!TypeOK'
    <2>1. UNCHANGED <<D!peers, D!loops, D!daemon, D!rest>>
      BY <1>6, Zenon DEF D!Stop
    <2>2. /\ flag' \in [Conns -> BOOLEAN] /\ sock' \in [Conns -> {"closed", "open", "shut"}]
          /\ stopping' \in [Stoppers -> Conns \cup {D!None}]
      <3>1. CASE stopping[s] # D!None
        BY <1>6, <3>1, Zenon DEF D!Stop, D!EndShutdown
      <3>2. CASE stopping[s] = D!None
        <4>1. PICK c \in handles : D!BeginShutdown(c) /\ stopping' = [stopping EXCEPT ![s] = c]
          BY <1>6, <3>2, Zenon DEF D!Stop
        <4> QED
          BY <4>1, Zenon DEF D!BeginShutdown
      <3> QED
        BY <3>1, <3>2, Zenon
    <2> QED
      BY <2>1, <2>2, SMTT(30) DEF D!peers, D!loops, D!daemon, D!rest
  <1>7. ASSUME NEW s \in BOOLEAN, D!NewListener(s) PROVE D!TypeOK'
    BY <1>7, Zenon DEF D!NewListener, D!conns, D!loops, D!rest
  <1>8. CASE D!Start
    BY <1>8, Zenon DEF D!Start, D!peers, D!conns, D!loops, D!rest
  <1>9. CASE D!Accept
    <2>1. UNCHANGED <<peer, inbox, flag, result, poisoned, closedHere, joined, stopping, D!rest>>
      BY <1>9, Zenon DEF D!Accept
    <2>2. Head(backlog) \in Conns /\ Tail(backlog) \in Seq(Conns)
      BY <1>9, FirstAndRest, Zenon DEF D!Accept
    <2>3. CASE D!StartDaemon(Head(backlog)) /\ backlog' = Tail(backlog)
                 /\ UNCHANGED <<listening, sock, serving>>
      BY <2>1, <2>2, <2>3, Zenon DEF D!StartDaemon, D!rest
    <2>4. CASE /\ D!DropListener
               /\ owner' = "idle" /\ serving' = FALSE
               /\ UNCHANGED <<thread, conn_state, main_thread, handles>>
      BY <2>1, <2>4, DropListenerTypes, Zenon DEF D!rest
    <2>5. CASE /\ backlog' = Tail(backlog)
               /\ sock' = [sock EXCEPT ![Head(backlog)] = "shut"]
               /\ listening' = listening
               /\ owner' = "idle" /\ serving' = FALSE
               /\ UNCHANGED <<thread, conn_state, main_thread, handles>>
      BY <2>1, <2>2, <2>5, Zenon DEF D!rest
    <2> QED
      BY <1>9, <2>3, <2>4, <2>5, Zenon DEF D!Accept
  <1>10. CASE D!Wait
    BY <1>10, Zenon DEF D!Wait, D!peers, D!conns, D!loops, D!rest
  <1>11. CASE D!Join
    <2>1. UNCHANGED <<D!peers, D!conns, thread, poisoned, serving, main_thread, handles, stopping,
                      exitSent>>
      BY <1>11, Zenon DEF D!Join
    <2>2. result' \in [Conns -> {"none", "SocketBroken", "Other", "Panicked"}]
      BY <1>11, Zenon DEF D!Join
    <2>3. blamed' \subseteq Conns /\ closedHere' \subseteq Conns
      BY <1>11, Zenon DEF D!Join, D!None
    <2>4. /\ conn_state' \in Conns \cup {D!None} /\ joined' \in Conns \cup {D!None}
          /\ owner' \in {"signalling", "idle"}
      BY <1>11, Zenon DEF D!Join
    <2> QED
      BY <2>1, <2>2, <2>3, <2>4, Zenon DEF D!peers, D!conns
  <1>12. CASE D!EndServe
    BY <1>12, DropListenerTypes, Zenon DEF D!EndServe, D!DropListener, D!loops
  <1>13. CASE D!Drop
    BY <1>13, Zenon DEF D!Drop, D!peers, D!loops, D!rest
  <1>14. CASE D!RequestShutdown
    BY <1>14, Zenon DEF D!RequestShutdown, D!BeginShutdown, D!EndShutdown, D!peers, D!loops, D!rest
  <1>15. CASE UNCHANGED D!vars
    BY <1>15, SMTT(30) DEF D!vars, D!peers, D!conns, D!loops, D!daemon, D!rest
  <1> QED
    BY <1>1, <1>2, <1>3, <1>4, <1>5, <1>6, <1>7, <1>8, <1>9, <1>10, <1>11, <1>12, <1>13, <1>14,
       <1>15, Zenon DEF D!Next, D!ThreadStep
-------------------------------------------------------------------------------
\* A connection with a thread is not in the backlog.
LEMMA NotInBacklog ==
  ASSUME D!BacklogInv, NEW c, thread[c] # "none" \/ peer[c] = "away"
  PROVE  \A i \in DOMAIN backlog : backlog[i] # c
  BY Zenon DEF D!BacklogInv

\* What happens to a connection outside of the backlog leaves the backlog alone.
LEMMA BacklogKept ==
  ASSUME D!TypeOK, D!BacklogInv, backlog' = backlog, NEW c,
         \A i \in DOMAIN backlog : backlog[i] # c,
         \A d \in Conns \ {c} : thread'[d] = thread[d] /\ sock'[d] = sock[d]
                                /\ (peer[d] # "away" => peer'[d] # "away")
  PROVE  D!BacklogInv'
  <1>1. \A i \in DOMAIN backlog : backlog[i] \in Conns \ {c}
    BY DEF D!TypeOK
  <1> QED
    BY <1>1, Zenon DEF D!BacklogInv

\* Connections enter the backlog once and leave it from the front.
LEMMA BacklogStep ==
  ASSUME D!Numbered, D!TypeOK, D!BacklogInv, D!StartedInv, D!OwnerInv, [D!Next]_(D!vars)
  PROVE  D!BacklogInv'
  <1>1. ASSUME NEW c \in Conns, D!PeerStep(c) PROVE D!BacklogInv'
    <2>1. CASE D!Fresh(c) /\ peer' = [peer EXCEPT ![c] = "connected"]
               /\ sock' = [sock EXCEPT ![c] = "open"] /\ backlog' = Append(backlog, c)
      <3>1. peer[c] = "away" /\ thread[c] = "none" /\ thread' = thread
        BY <1>1, <2>1, Zenon DEF D!Fresh, D!StartedInv, D!PeerStep, D!loops
      <3>2. \A i \in DOMAIN backlog : backlog[i] # c /\ backlog[i] \in Conns
        BY <3>1, NotInBacklog, SMTT(30) DEF D!TypeOK
      <3>3. /\ DOMAIN backlog = 1 .. Len(backlog) /\ Len(backlog) \in Nat
            /\ DOMAIN backlog' = 1 .. Len(backlog) + 1
            /\ \A i \in 1 .. Len(backlog) : backlog'[i] = backlog[i]
            /\ backlog'[Len(backlog) + 1] = c
        BY <2>1 DEF D!TypeOK
      <3>4. /\ peer'[c] # "away" /\ sock'[c] = "open"
            /\ \A d \in Conns \ {c} : peer'[d] = peer[d] /\ sock'[d] = sock[d]
        BY <2>1, Zenon DEF D!TypeOK
      <3>5. \A i \in DOMAIN backlog' : i \in DOMAIN backlog \/ i = Len(backlog) + 1
        BY <3>3, SMTT(30)
      <3>6. ASSUME NEW i \in DOMAIN backlog'
            PROVE  /\ thread'[backlog'[i]] = "none" /\ sock'[backlog'[i]] = "open"
                   /\ peer'[backlog'[i]] # "away"
        BY <3>1, <3>2, <3>3, <3>4, <3>5, SMTT(30) DEF D!BacklogInv
      <3>7. ASSUME NEW i \in DOMAIN backlog', NEW j \in DOMAIN backlog',
                   backlog'[i] = backlog'[j]
            PROVE  i = j
        BY <3>2, <3>3, <3>5, <3>7, SMTT(30) DEF D!BacklogInv
      <3> QED
        BY <3>6, <3>7, Zenon DEF D!BacklogInv
    <2>2. CASE backlog' = backlog /\ sock' = sock
               /\ (peer' = peer \/ peer' = [peer EXCEPT ![c] = "gone"])
      BY <1>1, <2>2, SMTT(30) DEF D!PeerStep, D!loops, D!BacklogInv, D!TypeOK
    <2> QED
      BY <1>1, <2>1, <2>2, Zenon DEF D!PeerStep
  <1>2. ASSUME NEW c \in Conns, D!HandleRequest(c) \/ D!ReadEnd(c) PROVE D!BacklogInv'
    <2>1. thread[c] = "running" /\ UNCHANGED <<backlog, peer, D!conns>>
      BY <1>2, Zenon DEF D!HandleRequest, D!ReadEnd
    <2>2. \A d \in Conns \ {c} : thread'[d] = thread[d]
      BY <1>2, Zenon DEF D!HandleRequest, D!ReadEnd, D!SocketEnds, D!Leave, D!loops, D!TypeOK
    <2> QED
      BY <2>1, <2>2, NotInBacklog, BacklogKept, Zenon DEF D!conns
  <1>3. ASSUME NEW c \in Conns, D!CloseSocket(c),
               UNCHANGED <<D!peers, flag, result, poisoned, closedHere, D!daemon, stopping, D!rest>>
        PROVE  D!BacklogInv'
    <2>1. thread[c] = "closing" /\ UNCHANGED <<backlog, peer>>
      BY <1>3, Zenon DEF D!CloseSocket, D!peers
    <2>2. \A d \in Conns \ {c} : thread'[d] = thread[d] /\ sock'[d] = sock[d]
      BY <1>3, Zenon DEF D!CloseSocket, D!TypeOK
    <2> QED
      BY <2>1, <2>2, NotInBacklog, BacklogKept, Zenon
  <1>4. ASSUME NEW c \in Conns, D!StartClient(c) PROVE D!BacklogInv'
    <2>1. peer[c] = "away" /\ backlog' = backlog
      BY <1>4, Zenon DEF D!StartClient, D!Fresh
    <2>2. \A d \in Conns \ {c} : thread'[d] = thread[d] /\ sock'[d] = sock[d] /\ peer'[d] = peer[d]
      BY <1>4, Zenon DEF D!StartClient, D!StartDaemon, D!TypeOK
    <2>3. \A i \in DOMAIN backlog : backlog[i] # c
      BY <2>1, NotInBacklog, Zenon
    <2> QED
      BY <2>1, <2>2, <2>3, BacklogKept, Zenon
  <1>5. ASSUME NEW c \in Conns, sock' = [sock EXCEPT ![c] = "shut"] \/ sock' = sock,
               thread[c] # "none", UNCHANGED <<D!peers, thread>>
        PROVE  D!BacklogInv'
    <2>1. \A d \in Conns \ {c} : sock'[d] = sock[d]
      BY <1>5, Zenon DEF D!TypeOK
    <2>2. backlog' = backlog /\ \A d \in Conns : thread'[d] = thread[d] /\ peer'[d] = peer[d]
      BY <1>5, Zenon DEF D!peers
    <2>3. \A i \in DOMAIN backlog : backlog[i] # c
      BY <1>5, NotInBacklog, Zenon
    <2> QED
      BY <2>1, <2>2, <2>3, BacklogKept, Zenon
  <1>6. ASSUME NEW s \in Stoppers, D!Stop(s) PROVE D!BacklogInv'
    <2>1. CASE stopping[s] # D!None
      BY <1>5, <1>6, <2>1, Zenon DEF D!Stop, D!EndShutdown, D!StartedInv, D!TypeOK, D!loops
    <2>2. CASE stopping[s] = D!None
      <3>1. PICK c \in handles : D!BeginShutdown(c)
        BY <1>6, <2>2, Zenon DEF D!Stop
      <3> QED
        BY <1>5, <1>6, <3>1, Zenon DEF D!Stop, D!BeginShutdown, D!StartedInv, D!TypeOK, D!loops
    <2> QED
      BY <2>1, <2>2, Zenon
  <1>7. CASE D!RequestShutdown
    <2>1. conn_state \in Conns /\ thread[conn_state] # "none"
      BY <1>7, Zenon DEF D!RequestShutdown, D!OwnerInv, D!StartedInv, D!TypeOK
    <2> QED
      BY <1>5, <1>7, <2>1, Zenon DEF D!RequestShutdown, D!BeginShutdown, D!EndShutdown, D!loops
  <1>8. CASE D!Drop
    <2>1. CASE conn_state = D!None
      BY <1>8, <2>1, Zenon DEF D!Drop, D!BacklogInv, D!peers, D!loops
    <2>2. CASE conn_state # D!None
      BY <1>5, <1>8, <2>2, Zenon DEF D!Drop, D!StartedInv, D!TypeOK, D!loops
    <2> QED
      BY <2>1, <2>2, Zenon
  <1>9. CASE UNCHANGED <<backlog, thread, sock, peer>>
    BY <1>9, Zenon DEF D!BacklogInv
  <1>10. CASE backlog' = <<>>
    BY <1>10 DEF D!BacklogInv
  <1>11. CASE D!Accept
    <2>1. CASE D!DropListener
      BY <1>10, <2>1, Zenon DEF D!DropListener
    <2>2. CASE backlog' = Tail(backlog) /\ ~ D!DropListener
      <3>1. /\ backlog \in Seq(Conns) /\ backlog # <<>> /\ Len(backlog) \in Nat
            /\ Len(backlog) > 0 /\ DOMAIN backlog = 1 .. Len(backlog)
            /\ DOMAIN backlog' = 1 .. Len(backlog) - 1
            /\ \A i \in 1 .. Len(backlog) - 1 : backlog'[i] = backlog[i + 1]
            /\ Head(backlog) = backlog[1] /\ Head(backlog) \in Conns
        BY <1>11, <2>2, FirstAndRest DEF D!Accept, D!TypeOK
      <3>2. /\ peer' = peer
            /\ \A d \in Conns \ {Head(backlog)} : thread'[d] = thread[d] /\ sock'[d] = sock[d]
        BY <1>11, <2>2, Zenon DEF D!Accept, D!StartDaemon, D!TypeOK
      <3>3. ASSUME NEW i \in DOMAIN backlog'
            PROVE  /\ i + 1 \in DOMAIN backlog /\ backlog'[i] = backlog[i + 1]
                   /\ backlog'[i] \in Conns \ {Head(backlog)}
        BY <3>1 DEF D!BacklogInv
      <3>4. ASSUME NEW i \in DOMAIN backlog'
            PROVE  /\ thread'[backlog'[i]] = "none" /\ sock'[backlog'[i]] = "open"
                   /\ peer'[backlog'[i]] # "away"
        BY <3>2, <3>3, SMTT(30) DEF D!BacklogInv
      <3>5. ASSUME NEW i \in DOMAIN backlog', NEW j \in DOMAIN backlog',
                   backlog'[i] = backlog'[j]
            PROVE  i = j
        <4>1. i + 1 = j + 1
          BY <3>3, <3>5, ZenonT(40) DEF D!BacklogInv
        <4> QED
          BY <3>1, <4>1
      <3> QED
        BY <3>4, <3>5, Zenon DEF D!BacklogInv
    <2> QED
      BY <1>11, <2>1, <2>2, Zenon DEF D!Accept
  <1> QED
    BY <1>1, <1>2, <1>3, <1>4, <1>6, <1>7, <1>8, <1>9, <1>10, <1>11, Zenon
       DEF D!Next, D!ThreadStep, D!NewListener, D!Start, D!Wait, D!Join, D!EndServe, D!DropListener,
       D!vars, D!peers, D!conns, D!loops

\* The thread of a connection never goes back to "none", and a flag is never taken back.
LEMMA Monotone ==
  ASSUME D!TypeOK, [D!Next]_(D!vars)
  PROVE  \A c \in Conns : (thread[c] # "none" => thread'[c] # "none") /\ (flag[c] => flag'[c])
  <1> USE DEF D!TypeOK
  <1>1. ASSUME NEW c \in Conns, D!HandleRequest(c) \/ D!ReadEnd(c) PROVE UNCHANGED flag
               /\ \E to \in {"running", "closing", "ended"} : thread' = [thread EXCEPT ![c] = to]
    <2>1. thread[c] = "running" /\ UNCHANGED flag
      BY <1>1, Zenon DEF D!HandleRequest, D!ReadEnd, D!conns
    <2>2. thread' = thread \/ thread' = [thread EXCEPT ![c] = "closing"]
            \/ thread' = [thread EXCEPT ![c] = "ended"]
      BY <1>1, Zenon DEF D!HandleRequest, D!ReadEnd, D!SocketEnds, D!Leave, D!loops
    <2> QED
      BY <2>1, <2>2, Zenon
  <1>2. ASSUME NEW c \in Conns, NEW to \in {"running", "closing", "ended"},
               thread' = [thread EXCEPT ![c] = to], UNCHANGED flag
        PROVE  \A d \in Conns : (thread[d] # "none" => thread'[d] # "none") /\ (flag[d] => flag'[d])
    BY <1>2, Zenon
  <1>3. ASSUME NEW c \in Conns, flag' = [flag EXCEPT ![c] = TRUE], UNCHANGED thread
        PROVE  \A d \in Conns : (thread[d] # "none" => thread'[d] # "none") /\ (flag[d] => flag'[d])
    BY <1>3, Zenon
  <1>4. ASSUME NEW c \in Conns, D!PeerStep(c) PROVE UNCHANGED <<thread, flag>>
    BY <1>4, Zenon DEF D!PeerStep, D!loops
  <1>5. ASSUME NEW c \in Conns, D!CloseSocket(c), UNCHANGED flag
        PROVE  \A d \in Conns : (thread[d] # "none" => thread'[d] # "none") /\ (flag[d] => flag'[d])
    BY <1>2, <1>5, Zenon DEF D!CloseSocket
  <1>6. ASSUME NEW c \in Conns, D!StartDaemon(c), UNCHANGED flag
        PROVE  \A d \in Conns : (thread[d] # "none" => thread'[d] # "none") /\ (flag[d] => flag'[d])
    BY <1>2, <1>6, Zenon DEF D!StartDaemon
  <1>7. ASSUME NEW s \in Stoppers, D!Stop(s)
        PROVE  \A d \in Conns : (thread[d] # "none" => thread'[d] # "none") /\ (flag[d] => flag'[d])
    BY <1>3, <1>7, Zenon DEF D!Stop, D!BeginShutdown, D!EndShutdown, D!loops
  <1>8. CASE D!RequestShutdown
    BY <1>3, <1>8, Zenon DEF D!RequestShutdown, D!BeginShutdown, D!EndShutdown, D!loops
  <1>9. CASE D!Accept
    <2>1. Head(backlog) \in Conns /\ UNCHANGED flag
      BY <1>9, FirstAndRest, Zenon DEF D!Accept
    <2> QED
      BY <1>6, <1>9, <2>1, Zenon DEF D!Accept
  <1>10. CASE UNCHANGED <<thread, flag>>
    BY <1>10, Zenon
  <1> HIDE DEF D!TypeOK
  <1>11. ASSUME NEW c \in Conns, D!ThreadStep(c)
         PROVE  \A d \in Conns : (thread[d] # "none" => thread'[d] # "none") /\ (flag[d] => flag'[d])
    BY <1>1, <1>2, <1>5, <1>11, Zenon DEF D!ThreadStep
  <1>12. ASSUME NEW c \in Conns, D!StartClient(c)
         PROVE  \A d \in Conns : (thread[d] # "none" => thread'[d] # "none") /\ (flag[d] => flag'[d])
    BY <1>6, <1>12, Zenon DEF D!StartClient
  <1>13. ASSUME \/ \E s \in BOOLEAN : D!NewListener(s)
                \/ D!Start \/ D!Wait \/ D!Join \/ D!EndServe \/ D!Drop \/ UNCHANGED D!vars
         PROVE  UNCHANGED <<thread, flag>>
    BY <1>13, Zenon DEF D!NewListener, D!Start, D!Wait, D!Join, D!EndServe, D!Drop, D!vars, D!conns, D!loops
  <1> QED
    BY <1>4, <1>7, <1>8, <1>9, <1>10, <1>11, <1>12, <1>13, Zenon DEF D!Next

\* Who can be shut down has begun.
LEMMA StartedStep ==
  ASSUME D!Numbered, D!TypeOK, D!BacklogInv, D!StartedInv, D!OwnerInv, [D!Next]_(D!vars)
  PROVE  D!StartedInv'
  <1>0. /\ \A c \in Conns : (thread[c] # "none" => thread'[c] # "none") /\ (flag[c] => flag'[c])
        /\ D!None \notin Conns
    BY Monotone, Zenon DEF D!Numbered, D!None
  <1>1. ASSUME UNCHANGED <<peer, thread>> \/ \A c \in Conns : peer'[c] = "away" =>
                  peer[c] = "away" /\ thread'[c] = thread[c]
        PROVE  \A c \in Conns : peer'[c] = "away" => thread'[c] = "none"
    BY <1>1, Zenon DEF D!StartedInv
  <1>2. ASSUME \A c \in handles' : c \in handles \/ thread'[c] # "none"
        PROVE  \A c \in handles' : thread'[c] # "none"
    BY <1>0, <1>2, Zenon DEF D!StartedInv, D!TypeOK
  <1>3. ASSUME \A s \in Stoppers : \/ stopping'[s] = stopping[s] \/ stopping'[s] = D!None
                                   \/ stopping'[s] \in handles /\ flag'[stopping'[s]]
        PROVE  \A s \in Stoppers : stopping'[s] # D!None =>
                   thread'[stopping'[s]] # "none" /\ flag'[stopping'[s]]
    <2> TAKE s \in Stoppers
    <2> HAVE stopping'[s] # D!None
    <2>1. CASE stopping'[s] = stopping[s]
      BY <1>0, <2>1, Zenon DEF D!StartedInv, D!TypeOK
    <2>2. CASE stopping'[s] \in handles /\ flag'[stopping'[s]]
      BY <1>0, <2>2, Zenon DEF D!StartedInv, D!TypeOK
    <2> QED
      BY <1>3, <2>1, <2>2, Zenon
  <1>4. ASSUME conn_state' = conn_state \/ conn_state' = D!None \/ thread'[conn_state'] # "none"
        PROVE  conn_state' # D!None => thread'[conn_state'] # "none"
    BY <1>0, <1>4, Zenon DEF D!StartedInv, D!TypeOK
  <1>5. \A c \in Conns : peer'[c] = "away" => thread'[c] = "none"
    <2>1. ASSUME NEW c \in Conns, D!PeerStep(c)
          PROVE  \A d \in Conns : peer'[d] = "away" => thread'[d] = "none"
      BY <2>1, <1>1, Zenon DEF D!PeerStep, D!loops, D!TypeOK
    <2>2. ASSUME NEW c \in Conns, D!HandleRequest(c) \/ D!ReadEnd(c)
          PROVE  \A d \in Conns : peer'[d] = "away" => thread'[d] = "none"
      <3>1. peer' = peer /\ peer[c] # "away"
        BY <2>2, Zenon DEF D!HandleRequest, D!ReadEnd, D!StartedInv
      <3>2. \A d \in Conns \ {c} : thread'[d] = thread[d]
        BY <2>2, Zenon DEF D!HandleRequest, D!ReadEnd, D!SocketEnds, D!Leave, D!loops, D!TypeOK
      <3> QED
        BY <1>1, <3>1, <3>2, Zenon
    <2>3. ASSUME NEW c \in Conns, D!CloseSocket(c), UNCHANGED D!peers
          PROVE  \A d \in Conns : peer'[d] = "away" => thread'[d] = "none"
      BY <1>1, <2>3, Zenon DEF D!CloseSocket, D!peers, D!StartedInv, D!TypeOK
    <2>4. ASSUME NEW c \in Conns, D!StartClient(c)
          PROVE  \A d \in Conns : peer'[d] = "away" => thread'[d] = "none"
      BY <1>1, <2>4, Zenon DEF D!StartClient, D!StartDaemon, D!TypeOK
    <2>5. CASE D!Accept
      <3>1. Head(backlog) \in Conns /\ peer[Head(backlog)] # "away" /\ peer' = peer
        <4>1. Head(backlog) = backlog[1] /\ 1 \in DOMAIN backlog
          BY <2>5 DEF D!Accept, D!TypeOK
        <4> QED
          BY <2>5, <4>1, FirstAndRest, SMTT(30) DEF D!Accept, D!BacklogInv, D!TypeOK
      <3>2. \A d \in Conns \ {Head(backlog)} : thread'[d] = thread[d]
        BY <2>5, Zenon DEF D!Accept, D!StartDaemon, D!TypeOK
      <3> QED
        BY <1>1, <3>1, <3>2, Zenon
    <2>6. CASE UNCHANGED <<peer, thread>>
      BY <1>1, <2>6, Zenon
    <2>7. ASSUME NEW s \in Stoppers, D!Stop(s) PROVE UNCHANGED <<peer, thread>>
      BY <2>7, Zenon DEF D!Stop, D!peers, D!loops
    <2>8. ASSUME \/ \E s \in BOOLEAN : D!NewListener(s)
                 \/ D!Start \/ D!Wait \/ D!Join \/ D!EndServe \/ D!Drop \/ D!RequestShutdown \/ UNCHANGED D!vars
          PROVE  UNCHANGED <<peer, thread>>
      BY <2>8, Zenon DEF D!NewListener, D!Start, D!Wait, D!Join, D!EndServe, D!Drop, D!RequestShutdown, D!vars,
         D!peers, D!loops
    <2> QED
      BY <2>1, <2>2, <2>3, <2>4, <2>5, <2>6, <2>7, <2>8, Zenon DEF D!Next, D!ThreadStep

  <1>6. /\ \A c \in handles' : thread'[c] # "none"
        /\ conn_state' # D!None => thread'[conn_state'] # "none"
    <2>1. ASSUME NEW c \in Conns, D!StartDaemon(c)
          PROVE  /\ \A d \in handles' : d \in handles \/ thread'[d] # "none"
                 /\ thread'[conn_state'] # "none"
      BY <2>1, ZenonT(40) DEF D!StartDaemon, D!TypeOK
    <2>2. ASSUME NEW c \in Conns, D!StartClient(c) PROVE D!StartDaemon(c)
      BY <2>2, Zenon DEF D!StartClient
    <2>3. CASE handles' = handles /\ (conn_state' = conn_state \/ conn_state' = D!None)
      BY <1>2, <1>4, <2>3, Zenon
    <2>4. ASSUME \/ \E c \in Conns : D!PeerStep(c) \/ D!ThreadStep(c)
                 \/ \E s \in Stoppers : D!Stop(s)
                 \/ \E s \in BOOLEAN : D!NewListener(s)
                 \/ D!Start \/ D!EndServe \/ D!RequestShutdown \/ UNCHANGED D!vars
          PROVE  UNCHANGED <<handles, conn_state>>
      BY <2>4, Zenon DEF D!PeerStep, D!ThreadStep, D!HandleRequest, D!ReadEnd, D!Stop, D!NewListener, D!Start,
         D!EndServe, D!RequestShutdown, D!vars, D!daemon
    <2>5. ASSUME D!Wait \/ D!Join \/ D!Drop
          PROVE  handles' = handles /\ (conn_state' = conn_state \/ conn_state' = D!None)
      BY <2>5, Zenon DEF D!Wait, D!Join, D!Drop
    <2>6. CASE D!Accept
      <3>1. CASE UNCHANGED <<handles, conn_state>>
        BY <2>3, <3>1, Zenon
      <3>2. CASE ~ UNCHANGED <<handles, conn_state>>
        <4>1. D!StartDaemon(Head(backlog)) /\ Head(backlog) \in Conns
          BY <2>6, <3>2, FirstAndRest, Zenon DEF D!Accept, D!TypeOK
        <4> QED
          BY <1>2, <2>1, <4>1, Zenon
      <3> QED
        BY <3>1, <3>2, Zenon
    <2>7. ASSUME NEW c \in Conns, D!StartClient(c)
          PROVE  /\ \A d \in handles' : thread'[d] # "none"
                 /\ conn_state' # D!None => thread'[conn_state'] # "none"
      BY <1>2, <2>1, <2>2, <2>7, Zenon
    <2>8. UNCHANGED <<handles, conn_state>> =>
             /\ \A d \in handles' : thread'[d] # "none"
             /\ conn_state' # D!None => thread'[conn_state'] # "none"
      BY <2>3, Zenon
    <2> QED
      BY <2>3, <2>4, <2>5, <2>6, <2>7, <2>8, Zenon DEF D!Next
  <1>7. \A s \in Stoppers : stopping'[s] # D!None =>
            thread'[stopping'[s]] # "none" /\ flag'[stopping'[s]]
    <2>1. ASSUME NEW t \in Stoppers, D!Stop(t)
          PROVE  \A s \in Stoppers : \/ stopping'[s] = stopping[s] \/ stopping'[s] = D!None
                                     \/ stopping'[s] \in handles /\ flag'[stopping'[s]]
      <3>1. CASE stopping' = [stopping EXCEPT ![t] = D!None]
        BY <3>1, Zenon DEF D!TypeOK
      <3>2. ASSUME NEW c \in handles, D!BeginShutdown(c), stopping' = [stopping EXCEPT ![t] = c]
            PROVE  \A s \in Stoppers : \/ stopping'[s] = stopping[s] \/ stopping'[s] = D!None
                                       \/ stopping'[s] \in handles /\ flag'[stopping'[s]]
        <4>1. flag'[c]
          BY <3>2, Zenon DEF D!BeginShutdown, D!TypeOK
        <4> QED
          BY <3>2, <4>1, Zenon DEF D!TypeOK
      <3> QED
        BY <2>1, <3>1, <3>2, Zenon DEF D!Stop
    <2>2. CASE stopping' = stopping
      BY <1>3, <2>2, Zenon
    <2>3. ASSUME NEW c \in Conns, D!PeerStep(c) \/ D!ThreadStep(c) \/ D!StartClient(c)
          PROVE  stopping' = stopping
      BY <2>3, Zenon DEF D!PeerStep, D!ThreadStep, D!HandleRequest, D!ReadEnd, D!StartClient
    <2>4. ASSUME \/ \E s \in BOOLEAN : D!NewListener(s)
                 \/ D!Start \/ D!Accept \/ D!Wait \/ D!Join \/ D!EndServe \/ D!Drop \/ D!RequestShutdown
                 \/ UNCHANGED D!vars
          PROVE  stopping' = stopping
      BY <2>4, Zenon DEF D!NewListener, D!Start, D!Accept, D!Wait, D!Join, D!EndServe, D!Drop,
         D!RequestShutdown, D!vars
    <2> QED
      BY <1>3, <2>1, <2>2, <2>3, <2>4, Zenon DEF D!Next
  <1> QED
    BY <1>5, <1>6, <1>7, Zenon DEF D!StartedInv

\* main_thread, conn_state and joined are of one connection.
LEMMA OwnerInvStep ==
  ASSUME D!Numbered, D!TypeOK, D!StartedInv, D!OwnerInv, [D!Next]_(D!vars)
  PROVE  D!OwnerInv'
  <1>0. /\ \A c \in Conns : flag[c] => flag'[c]
        /\ D!None \notin Conns
    BY Monotone, Zenon DEF D!Numbered, D!None
  <1>1. CASE UNCHANGED <<owner, main_thread, conn_state, joined>>
    BY <1>0, <1>1, Zenon DEF D!OwnerInv, D!TypeOK
  <1>2. ASSUME NEW c \in Conns, D!PeerStep(c) \/ D!ThreadStep(c)
        PROVE  UNCHANGED <<owner, main_thread, conn_state, joined>>
    BY <1>2, Zenon DEF D!PeerStep, D!ThreadStep, D!HandleRequest, D!ReadEnd, D!daemon
  <1>3. ASSUME NEW s \in Stoppers, D!Stop(s) PROVE UNCHANGED <<owner, main_thread, conn_state, joined>>
    BY <1>3, Zenon DEF D!Stop, D!daemon
  <1>4. ASSUME NEW c \in Conns, D!StartDaemon(c), owner = "idle" \/ owner = "accepting",
               joined' = joined
        PROVE  D!OwnerInv'
    BY <1>4, Zenon DEF D!StartDaemon, D!OwnerInv
  <1>5. ASSUME NEW c \in Conns, D!StartClient(c) PROVE D!OwnerInv'
    BY <1>4, <1>5, Zenon DEF D!StartClient
  <1>6. CASE D!Accept
    <2>1. Head(backlog) \in Conns
      BY <1>6, FirstAndRest, Zenon DEF D!Accept, D!TypeOK
    <2> QED
      BY <1>4, <1>6, <2>1, Zenon DEF D!Accept, D!OwnerInv
  <1>7. ASSUME NEW s \in BOOLEAN, D!NewListener(s) PROVE D!OwnerInv'
    BY <1>7, Zenon DEF D!NewListener, D!OwnerInv
  <1>8. CASE D!Start
    BY <1>8, Zenon DEF D!Start, D!OwnerInv
  <1>9. CASE D!Wait
    BY <1>9, Zenon DEF D!Wait, D!OwnerInv
  <1>10. CASE D!Join
    BY <1>10, Zenon DEF D!Join, D!OwnerInv
  <1>11. CASE D!EndServe
    BY <1>11, Zenon DEF D!EndServe, D!OwnerInv
  <1>12. CASE D!Drop
    BY <1>12, Zenon DEF D!Drop, D!OwnerInv
  <1>13. CASE D!RequestShutdown
    <2>1. CASE owner = "idle"
      <3>1. flag'[conn_state] /\ conn_state # D!None
        BY <1>13, <2>1, Zenon DEF D!RequestShutdown, D!BeginShutdown, D!TypeOK
      <3> QED
        BY <1>13, <2>1, <3>1, Zenon DEF D!RequestShutdown, D!OwnerInv
    <2>2. CASE owner = "stopping"
      BY <1>13, <2>2, Zenon DEF D!RequestShutdown, D!OwnerInv
    <2> QED
      BY <1>13, <2>1, <2>2, Zenon DEF D!RequestShutdown
  <1>14. CASE UNCHANGED D!vars
    BY <1>1, <1>14, Zenon DEF D!vars, D!daemon
  <1> QED
    BY <1>1, <1>2, <1>3, <1>5, <1>6, <1>7, <1>8, <1>9, <1>10, <1>11, <1>12, <1>13, <1>14, Zenon
       DEF D!Next

\* A socket is shut under its thread by those who have set the flag.
LEMMA ShutStep ==
  ASSUME D!Numbered, D!TypeOK, D!BacklogInv, D!StartedInv, D!OwnerInv, D!ShutInv, [D!Next]_(D!vars)
  PROVE  D!ShutInv'
  <1>1. ASSUME NEW c \in Conns, D!PeerStep(c) PROVE D!ShutInv'
    <2>1. UNCHANGED <<flag, thread, result, closedHere, owner>>
      BY <1>1, Zenon DEF D!PeerStep, D!loops, D!daemon
    <2>2. \A d \in Conns : sock'[d] = "shut" => sock[d] = "shut"
      BY <1>1, ZenonT(40) DEF D!PeerStep, D!TypeOK
    <2> QED
      BY <2>1, <2>2, Zenon DEF D!ShutInv
  <1>2. ASSUME NEW c \in Conns, D!HandleRequest(c) \/ D!ReadEnd(c) PROVE D!ShutInv'
    <2>1. thread[c] = "running" /\ UNCHANGED <<flag, sock, owner>>
      BY <1>2, Zenon DEF D!HandleRequest, D!ReadEnd, D!conns, D!daemon
    <2>2. ASSUME NEW d \in Conns \ {c}
          PROVE  /\ thread'[d] = thread[d] /\ result'[d] = result[d]
                 /\ d \in closedHere' => d \in closedHere
      BY <1>2, Zenon DEF D!HandleRequest, D!ReadEnd, D!SocketEnds, D!Leave, D!loops, D!TypeOK
    <2>3. ASSUME c \in closedHere', c \notin closedHere, owner # "dropped"
          PROVE  /\ thread'[c] = "closing"
                 /\ result'[c] = "SocketBroken" \/ (result'[c] = "Other" /\ sock[c] = "shut")
      BY <1>2, <2>3, Zenon DEF D!HandleRequest, D!ReadEnd, D!SocketEnds, D!Leave, D!loops, D!TypeOK
    <2>4. ASSUME owner # "dropped" PROVE c \notin closedHere
      BY <2>1, <2>4, Zenon DEF D!ShutInv
    <2>5. ASSUME owner # "dropped" PROVE sock[c] = "shut" => flag[c]
      BY <2>1, <2>5, Zenon DEF D!ShutInv
    <2> QED
      BY <2>1, <2>2, <2>3, <2>4, <2>5, Zenon DEF D!ShutInv
  <1>3. ASSUME NEW c \in Conns, D!CloseSocket(c),
               UNCHANGED <<D!peers, flag, result, poisoned, closedHere, D!daemon, stopping, D!rest>>
        PROVE  D!ShutInv'
    BY <1>3, ZenonT(40) DEF D!CloseSocket, D!daemon, D!ShutInv, D!TypeOK
  <1>4. ASSUME NEW c \in Conns, sock' = [sock EXCEPT ![c] = "shut"] \/ sock' = sock, flag[c],
               UNCHANGED <<flag, thread, result, closedHere>>, owner # "dropped"
        PROVE  D!ShutInv'
    BY <1>4 DEF D!ShutInv, D!TypeOK
  <1>5. ASSUME NEW c \in Conns, flag' = [flag EXCEPT ![c] = TRUE], sock' = sock,
               UNCHANGED <<thread, result, closedHere>>, owner # "dropped"
        PROVE  D!ShutInv'
    BY <1>5, ZenonT(40) DEF D!ShutInv, D!TypeOK
  <1>6. ASSUME NEW s \in Stoppers, D!Stop(s) PROVE D!ShutInv'
    <2>1. UNCHANGED <<thread, result, closedHere, owner>>
      BY <1>6, Zenon DEF D!Stop, D!loops, D!daemon
    <2>2. CASE owner = "dropped"
      BY <2>1, <2>2, Zenon DEF D!ShutInv
    <2>3. CASE owner # "dropped" /\ stopping[s] # D!None
      <3>1. stopping[s] \in Conns /\ flag[stopping[s]] /\ D!EndShutdown(stopping[s])
        BY <1>6, <2>3, Zenon DEF D!Stop, D!StartedInv, D!TypeOK
      <3> QED
        BY <1>4, <2>1, <2>3, <3>1, Zenon DEF D!EndShutdown
    <2>4. CASE owner # "dropped" /\ stopping[s] = D!None
      <3>1. PICK c \in handles : D!BeginShutdown(c)
        BY <1>6, <2>4, Zenon DEF D!Stop
      <3> QED
        BY <1>5, <2>1, <2>4, <3>1, Zenon DEF D!BeginShutdown, D!TypeOK
    <2> QED
      BY <2>2, <2>3, <2>4, Zenon
  <1>7. CASE D!RequestShutdown
    <2>1. conn_state \in Conns /\ UNCHANGED <<thread, result, closedHere>> /\ owner # "dropped"
      BY <1>7, Zenon DEF D!RequestShutdown, D!OwnerInv, D!TypeOK, D!loops
    <2>2. CASE owner = "idle"
      BY <1>5, <1>7, <2>1, <2>2, Zenon DEF D!RequestShutdown, D!BeginShutdown
    <2>3. CASE owner = "stopping"
      BY <1>4, <1>7, <2>1, <2>3, Zenon DEF D!RequestShutdown, D!EndShutdown, D!OwnerInv
    <2> QED
      BY <1>7, <2>2, <2>3, Zenon DEF D!RequestShutdown
  <1>8. ASSUME NEW c \in Conns, D!StartClient(c) PROVE D!ShutInv'
    <2>1. sock'[c] = "open" /\ thread[c] = "none" /\ owner # "dropped"
      BY <1>8, ZenonT(40) DEF D!StartClient, D!Fresh, D!StartedInv, D!TypeOK
    <2>2. \A d \in Conns \ {c} : thread'[d] = thread[d] /\ sock'[d] = sock[d]
      BY <1>8, Zenon DEF D!StartClient, D!StartDaemon, D!TypeOK
    <2>3. UNCHANGED <<flag, result, closedHere>> /\ c \notin closedHere
      BY <1>8, <2>1, Zenon DEF D!StartClient, D!ShutInv
    <2> QED
      BY <2>1, <2>2, <2>3, Zenon DEF D!ShutInv
  <1>9. ASSUME D!DropListener, UNCHANGED <<thread, flag, result, closedHere>>, owner # "dropped"
        PROVE  D!ShutInv'
    <2>1. ASSUME NEW d \in Conns, thread[d] # "none" PROVE sock'[d] = sock[d]
      BY <1>9, <2>1, NotInBacklog, Zenon DEF D!DropListener
    <2> QED
      BY <1>9, <2>1, Zenon DEF D!ShutInv
  <1>10. CASE D!Accept
    <2>1. UNCHANGED <<flag, result, closedHere>> /\ owner # "dropped"
      BY <1>10, Zenon DEF D!Accept
    <2>2. Head(backlog) \in Conns /\ thread[Head(backlog)] = "none" /\ sock[Head(backlog)] = "open"
      <3>1. Head(backlog) = backlog[1] /\ 1 \in DOMAIN backlog
        BY <1>10 DEF D!Accept, D!TypeOK
      <3> QED
        BY <1>10, <3>1, FirstAndRest, SMTT(30) DEF D!Accept, D!BacklogInv, D!TypeOK
    <2>3. Head(backlog) \notin closedHere
      BY <2>1, <2>2, Zenon DEF D!ShutInv
    <2>4. CASE D!StartDaemon(Head(backlog)) /\ sock' = sock
      <3>1. \A d \in Conns \ {Head(backlog)} : thread'[d] = thread[d]
        BY <2>4, Zenon DEF D!StartDaemon, D!TypeOK
      <3> QED
        BY <2>1, <2>2, <2>3, <2>4, <3>1, Zenon DEF D!ShutInv
    <2>5. CASE D!DropListener /\ thread' = thread
      BY <1>9, <2>1, <2>5, Zenon
    <2>6. CASE sock' = [sock EXCEPT ![Head(backlog)] = "shut"] /\ thread' = thread
      BY <2>1, <2>2, <2>6, Zenon DEF D!ShutInv, D!TypeOK
    <2> QED
      BY <1>10, <2>4, <2>5, <2>6, Zenon DEF D!Accept
  <1>11. CASE D!EndServe
    BY <1>9, <1>11, Zenon DEF D!EndServe, D!loops
  <1>12. CASE D!Drop
    BY <1>12, Zenon DEF D!Drop, D!ShutInv
  <1>13. CASE D!Join
    <2>1. /\ UNCHANGED <<thread, flag, sock>> /\ closedHere' = closedHere \ {joined}
          /\ \A d \in Conns \ {joined} : result'[d] = result[d]
          /\ owner # "dropped"
      BY <1>13, Zenon DEF D!Join, D!conns, D!TypeOK
    <2> QED
      BY <2>1, Zenon DEF D!ShutInv
  <1>14. CASE /\ UNCHANGED <<thread, flag, sock, result, closedHere>>
              /\ (owner = "dropped" => owner' = "dropped")
    BY <1>14, Zenon DEF D!ShutInv
  <1>15. ASSUME \/ \E s \in BOOLEAN : D!NewListener(s)
                \/ D!Start \/ D!Wait \/ UNCHANGED D!vars
         PROVE  /\ UNCHANGED <<thread, flag, sock, result, closedHere>>
                /\ (owner = "dropped" => owner' = "dropped")
    BY <1>15, Zenon DEF D!NewListener, D!Start, D!Wait, D!vars, D!conns, D!loops, D!daemon
  <1> QED
    BY <1>1, <1>2, <1>3, <1>6, <1>7, <1>8, <1>10, <1>11, <1>12, <1>13, <1>14, <1>15, Zenon
       DEF D!Next, D!ThreadStep

\* wait blames no connection that was shut down here.
LEMMA BlamedStep ==
  ASSUME D!Numbered, D!TypeOK, D!OwnerInv, D!ShutInv, D!ShutdownIsSuccess, [D!Next]_(D!vars)
  PROVE  D!ShutdownIsSuccess'
  <1>1. CASE D!Join
    <2>1. joined # D!None /\ conn_state = joined /\ joined \in Conns
      BY <1>1, Zenon DEF D!Join, D!OwnerInv, D!TypeOK
    <2>2. ASSUME joined \in closedHere PROVE D!WaitResult(joined) = "ok"
      BY <1>1, <2>1, <2>2, Zenon DEF D!Join, D!ShutInv, D!WaitResult
    <2> QED
      BY <1>1, <2>2, Zenon DEF D!Join, D!ShutdownIsSuccess
  <1>2. CASE blamed' = blamed
    BY <1>2, Zenon DEF D!ShutdownIsSuccess
  <1>3. ASSUME NEW c \in Conns, D!PeerStep(c) \/ D!ThreadStep(c) \/ D!StartClient(c) PROVE blamed' = blamed
    BY <1>3, Zenon DEF D!PeerStep, D!ThreadStep, D!HandleRequest, D!ReadEnd, D!StartClient, D!rest
  <1>4. ASSUME \/ \E s \in Stoppers : D!Stop(s)
               \/ \E s \in BOOLEAN : D!NewListener(s)
               \/ D!Start \/ D!Accept \/ D!Wait \/ D!EndServe \/ D!Drop \/ D!RequestShutdown \/ UNCHANGED D!vars
        PROVE  blamed' = blamed
    BY <1>4, Zenon DEF D!Stop, D!NewListener, D!Start, D!Accept, D!Wait, D!EndServe, D!Drop, D!RequestShutdown,
       D!vars, D!rest
  <1> QED
    BY <1>1, <1>2, <1>3, <1>4, Zenon DEF D!Next

\* The invariant holds for any number of connections and of threads with handles.
LEMMA Inductive == ASSUME D!Numbered PROVE D!Spec => []D!IInv
  <1>1. D!Init => D!IInv
    <2>1. D!Init => D!TypeOK
      <3> SUFFICES ASSUME D!Init PROVE D!TypeOK
        BY Zenon
      <3>1. backlog \in Seq(Conns)
        BY DEF D!Init
      <3>2. inbox \in [Conns -> 0 .. MaxInbox] /\ stopping \in [Stoppers -> Conns \cup {D!None}]
        BY DEF D!Init, D!Numbered
      <3>3. /\ peer \in [Conns -> {"away", "connected", "gone"}]
            /\ sock \in [Conns -> {"closed", "open", "shut"}]
            /\ flag \in [Conns -> BOOLEAN]
            /\ thread \in [Conns -> {"none", "running", "closing", "ended"}]
            /\ result \in [Conns -> {"none", "SocketBroken", "Other", "Panicked"}]
        BY Zenon DEF D!Init
      <3> QED
        BY <3>1, <3>2, <3>3, Zenon DEF D!Init, D!TypeOK
    <2>2. D!Init => D!BacklogInv /\ D!StartedInv /\ D!OwnerInv /\ D!ShutInv /\ D!ShutdownIsSuccess
      BY DEF D!Init, D!BacklogInv, D!StartedInv, D!OwnerInv, D!ShutInv, D!ShutdownIsSuccess
    <2> QED
      BY <2>1, <2>2, Zenon DEF D!IInv
  <1>2. D!IInv /\ [D!Next]_(D!vars) => D!IInv'
    BY TypeStep, BacklogStep, StartedStep, OwnerInvStep, ShutStep, BlamedStep, Zenon DEF D!IInv
  <1> QED
    BY <1>1, <1>2, PTL DEF D!Spec

\* VhostUserDaemon::wait returns Ok for every connection that came to its end by a shutdown
\* of this side, in every order of the steps of the owner, the handles and the thread.
THEOREM ShutdownNotBlamed == ASSUME D!Numbered PROVE D!Spec => []D!ShutdownIsSuccess
  <1>1. D!IInv => D!ShutdownIsSuccess
    BY Zenon DEF D!IInv
  <1> QED
    BY <1>1, Inductive, PTL

\* A socket whose thread has ended stays shut.
LEMMA EndedStep ==
  ASSUME D!Numbered, D!IInv, D!EndedMeansShut, [D!Next]_(D!vars)
  PROVE  D!EndedMeansShut'
  <1> USE DEF D!IInv
  <1>1. ASSUME \A c \in Conns : thread'[c] = "ended" =>
                   thread[c] = "ended" /\ (sock[c] = "shut" => sock'[c] = "shut")
                                      /\ (result[c] = "Panicked" => result'[c] = "Panicked")
        PROVE  D!EndedMeansShut'
    BY <1>1, Zenon DEF D!EndedMeansShut
  <1>2. ASSUME NEW c \in Conns, D!PeerStep(c) PROVE D!EndedMeansShut'
    <2>1. UNCHANGED <<thread, result>>
      BY <1>2, Zenon DEF D!PeerStep, D!loops
    <2>2. \A d \in Conns : sock'[d] = sock[d] \/ thread[d] = "none"
      BY <1>2, ZenonT(40) DEF D!PeerStep, D!Fresh, D!StartedInv, D!TypeOK
    <2> QED
      BY <1>1, <2>1, <2>2, Zenon
  <1>3. ASSUME NEW c \in Conns, D!HandleRequest(c) \/ D!ReadEnd(c) PROVE D!EndedMeansShut'
    <2>1. sock' = sock /\ thread[c] = "running"
      BY <1>3, Zenon DEF D!HandleRequest, D!ReadEnd, D!conns
    <2>2. \A d \in Conns \ {c} : thread'[d] = thread[d] /\ result'[d] = result[d]
      BY <1>3, ZenonT(40) DEF D!HandleRequest, D!ReadEnd, D!SocketEnds, D!Leave, D!loops, D!TypeOK
    <2>3. thread'[c] = "ended" => result'[c] = "Panicked"
      BY <1>3, <2>1, Zenon DEF D!HandleRequest, D!ReadEnd, D!SocketEnds, D!Leave, D!loops, D!TypeOK
    <2> QED
      BY <2>1, <2>2, <2>3, Zenon DEF D!EndedMeansShut
  <1>4. ASSUME NEW c \in Conns, D!CloseSocket(c), result' = result PROVE D!EndedMeansShut'
    BY <1>4, Zenon DEF D!CloseSocket, D!EndedMeansShut, D!TypeOK
  <1>5. ASSUME NEW c \in Conns, D!StartClient(c) PROVE D!EndedMeansShut'
    BY <1>1, <1>5, Zenon DEF D!StartClient, D!StartDaemon, D!TypeOK
  <1>6. ASSUME D!DropListener, UNCHANGED <<thread, result>> PROVE D!EndedMeansShut'
    BY <1>1, <1>6, Zenon DEF D!DropListener
  <1>7. CASE D!Accept
    <2>1. result' = result /\ Head(backlog) \in Conns
      BY <1>7, FirstAndRest, Zenon DEF D!Accept, D!TypeOK
    <2>2. CASE D!StartDaemon(Head(backlog)) /\ sock' = sock
      BY <1>1, <2>1, <2>2, Zenon DEF D!StartDaemon, D!TypeOK
    <2>3. CASE D!DropListener /\ thread' = thread
      BY <1>6, <2>1, <2>3, Zenon
    <2>4. CASE sock' = [sock EXCEPT ![Head(backlog)] = "shut"] /\ thread' = thread
      BY <1>1, <2>1, <2>4, Zenon DEF D!TypeOK
    <2> QED
      BY <1>7, <2>2, <2>3, <2>4, Zenon DEF D!Accept
  <1>8. CASE D!Join
    BY <1>1, <1>8, Zenon DEF D!Join, D!conns, D!TypeOK
  <1>9. CASE D!EndServe
    BY <1>6, <1>9, Zenon DEF D!EndServe, D!loops
  <1>10. CASE D!Drop
    BY <1>1, <1>10, Zenon DEF D!Drop, D!loops, D!TypeOK
  <1>11. ASSUME D!RequestShutdown \/ \E s \in Stoppers : D!Stop(s) PROVE D!EndedMeansShut'
    <2>1. UNCHANGED <<thread, result>>
      BY <1>11, Zenon DEF D!RequestShutdown, D!Stop, D!loops
    <2>2. \A d \in Conns : sock[d] = "shut" => sock'[d] = "shut"
      BY <1>11, Zenon DEF D!RequestShutdown, D!Stop, D!BeginShutdown, D!EndShutdown, D!TypeOK
    <2> QED
      BY <1>1, <2>1, <2>2, Zenon
  <1>12. CASE UNCHANGED <<thread, sock, result>>
    BY <1>12, Zenon DEF D!EndedMeansShut
  <1>13. ASSUME (\E s \in BOOLEAN : D!NewListener(s)) \/ D!Start \/ D!Wait \/ UNCHANGED D!vars
         PROVE  UNCHANGED <<thread, sock, result>>
    BY <1>13, Zenon DEF D!NewListener, D!Start, D!Wait, D!vars, D!conns, D!loops
  <1> QED
    BY <1>2, <1>3, <1>4, <1>5, <1>7, <1>8, <1>9, <1>10, <1>11, <1>12, <1>13, Zenon
       DEF D!Next, D!ThreadStep

\* The frontend of every connection whose thread has ended sees the end of the stream,
\* unless a request panicked: the thread of start_daemon calls conn.shutdown, and no step of
\* anybody opens that socket again.
THEOREM EndedIsShut == ASSUME D!Numbered PROVE D!Spec => []D!EndedMeansShut
  <1>1. D!Init => D!EndedMeansShut
    BY Zenon DEF D!Init, D!EndedMeansShut
  <1>2. D!IInv /\ D!EndedMeansShut /\ [D!Next]_(D!vars) => D!EndedMeansShut'
    BY EndedStep, Zenon
  <1> QED
    BY <1>1, <1>2, Inductive, PTL DEF D!Spec

\* A connection that ended by our own shutdown is no error of VhostUserDaemon::wait, for any
\* number of connections and of threads that hold handles.
THEOREM OwnShutdownIsSuccess == D!Spec => []ShutdownIsSuccess
  <1>1. D!ShutdownIsSuccess => ShutdownIsSuccess
    BY ZenonT(40) DEF ShutdownIsSuccess
  <1> QED
    BY <1>1, DaemonAssumption, ShutdownNotBlamed, PTL

\* The thread of a connection does not end without closing the connection.
THEOREM EndedConnectionIsShut == D!Spec => []EndedMeansShut
  <1>1. D!EndedMeansShut => EndedMeansShut
    BY ZenonT(40) DEF EndedMeansShut
  <1> QED
    BY <1>1, DaemonAssumption, EndedIsShut, PTL
===============================================================================
