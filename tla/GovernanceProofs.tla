-------------------------- MODULE GovernanceProofs --------------------------
(***************************************************************************)
(* The timelock and the handover keep their promises for any number of     *)
(* contracts and admins, any delay and any code, uploaded or not; so does  *)
(* the handover script, for any number of failures.                        *)
(***************************************************************************)
EXTENDS GovernanceProperties, HandoverScript, SequenceTheorems, FiniteSetTheorems, TLAPS

\* The eta of what is scheduled is a whole timelock after it was announced,
\* which is what the history variable is for.
EtaInv ==
    /\ standsSince \in [Governed -> Nat]
    /\ \A c \in Governed :
          scheduled[c] # None => scheduled[c].eta = standsSince[c] + TimelockSecs

ProposerInv == DOMAIN proposer = Governed /\ ProposalIsTheAdmins

GovernanceInv == GovernanceTypeOK /\ EtaInv /\ ProposerInv /\ NeverLockedOut

\* What contract c's admin can do to its own storage, the other contracts'
\* being left alone.
AdminStep(c) ==
    \/ \E caller \in Addresses, action \in Action(c) :
          ScheduleAction(c, caller, action)
    \/ \E caller \in Addresses : ExecuteAction(c, caller)
    \/ \E caller \in Addresses : CancelAction(c, caller)
    \/ \E caller, newAdmin \in Addresses : ProposeAdmin(c, caller, newAdmin)
    \/ \E newAdmin \in Addresses : AcceptAdmin(c, newAdmin)

\* A step of the admins is a step of one contract's admin.
LEMMA EveryAdminStep ==
    ASSUME AdminNext PROVE \E c \in Governed : AdminStep(c)
BY DEF AdminNext, Timelocked, Handover, AdminStep

\* Freshly constructed contracts satisfy the invariant.
LEMMA WatchedInitInv == WatchedInit => GovernanceInv
BY AdminAssumption, TimelockAssumption
   DEF WatchedInit, GovernanceInit, GovernanceInv, GovernanceTypeOK, EtaInv,
       ProposerInv, ProposalIsTheAdmins, NeverLockedOut

\* Scheduling, cancelling and executing one contract's action keep the types.
LEMMA TypeStep ==
    ASSUME GovernanceInv, NEW c \in Governed, AdminStep(c)
    PROVE  GovernanceTypeOK'
<1> USE DEF GovernanceInv, GovernanceTypeOK
<1>1. ASSUME NEW caller \in Addresses, NEW action \in Action(c),
             ScheduleAction(c, caller, action)
      PROVE  GovernanceTypeOK'
  <2>1. now + TimelockSecs \in 0 .. MaxU64
    BY <1>1, TimelockAssumption DEF ScheduleAction
  <2>2. [action |-> action, eta |-> now + TimelockSecs] \in Scheduled(c)
    BY <2>1 DEF Scheduled
  <2> DEFINE new == [action |-> action, eta |-> now + TimelockSecs]
  <2>3. /\ scheduled' = [scheduled EXCEPT ![c] = new]
        /\ UNCHANGED <<admin, pendingAdmin, code, settlement, now>>
    BY <1>1 DEF ScheduleAction
  <2> HIDE DEF new
  <2> QED
    BY <2>2, <2>3 DEF new
<1>2. ASSUME NEW caller \in Addresses, ExecuteAction(c, caller)
      PROVE  GovernanceTypeOK'
  <2>1. /\ scheduled' = [scheduled EXCEPT ![c] = None]
        /\ UNCHANGED <<admin, pendingAdmin, now>>
    BY <1>2 DEF ExecuteAction
  <2> DEFINE action == scheduled[c].action
  <2>2. /\ action \in Action(c)
        /\ IF action.kind = "Upgrade"
           THEN /\ action.hash \in Uploaded
                /\ code' = [code EXCEPT ![c] = action.hash]
                /\ UNCHANGED settlement
           ELSE settlement' = action.to /\ UNCHANGED code
    BY <1>2 DEF ExecuteAction, Scheduled
  <2> HIDE DEF action
  <2>3. code' \in [Governed -> Uploaded] /\ settlement' \in Settlements
    <3>1. CASE \E hash \in Codes : action = Upgrade(hash)
      BY <2>2, <3>1 DEF Upgrade
    <3>2. CASE \E a \in Settlements : action = SetSettlement(a)
      BY <2>2, <3>2 DEF SetSettlement
    <3> QED
      BY <2>2, <3>1, <3>2 DEF Action, UpgradeActions
  <2> QED
    BY <2>1, <2>3
<1>3. ASSUME NEW caller \in Addresses, CancelAction(c, caller)
      PROVE  GovernanceTypeOK'
  BY <1>3 DEF CancelAction
<1>4. ASSUME NEW caller \in Addresses, NEW newAdmin \in Addresses,
             ProposeAdmin(c, caller, newAdmin)
      PROVE  GovernanceTypeOK'
  BY <1>4 DEF ProposeAdmin
<1>5. ASSUME NEW newAdmin \in Addresses, AcceptAdmin(c, newAdmin)
      PROVE  GovernanceTypeOK'
  BY <1>5 DEF AcceptAdmin
<1> QED
  BY <1>1, <1>2, <1>3, <1>4, <1>5 DEF AdminStep

\* What is scheduled keeps its announcement, or gets a new one.
LEMMA EtaStep ==
    ASSUME GovernanceInv, NEW c \in Governed, AdminStep(c), Watch
    PROVE  EtaInv'
<1>1. /\ now \in Nat /\ standsSince \in [Governed -> Nat]
      /\ DOMAIN scheduled = Governed
      /\ \A d \in Governed :
            standsSince'[d] = IF scheduled'[d] = scheduled[d] THEN standsSince[d]
                                                              ELSE now
      /\ standsSince' \in [Governed -> Nat]
  BY DEF GovernanceInv, GovernanceTypeOK, EtaInv, Watch
<1>2. \A d \in Governed :
         \/ scheduled'[d] = scheduled[d]
         \/ scheduled'[d] = None
         \/ scheduled'[d].eta = now + TimelockSecs
  <2>1. \/ UNCHANGED scheduled
        \/ scheduled' = [scheduled EXCEPT ![c] = None]
        \/ \E action \in Action(c) :
              scheduled' = [scheduled EXCEPT ![c] =
                               [action |-> action, eta |-> now + TimelockSecs]]
    BY DEF AdminStep, ScheduleAction, ExecuteAction, CancelAction, ProposeAdmin,
           AcceptAdmin
  <2> QED
    BY <1>1, <2>1
<1> QED
  BY <1>1, <1>2, TimelockAssumption DEF GovernanceInv, EtaInv

\* The admin stays one who can sign, and the pending proposal the admin's own.
LEMMA HandoverStep ==
    ASSUME GovernanceInv, NEW c \in Governed, AdminStep(c), Watch
    PROVE  ProposerInv' /\ NeverLockedOut'
<1>1. /\ DOMAIN proposer' = Governed
      /\ \A d \in Governed :
            proposer'[d] = IF Proposing(d) THEN admin[d] ELSE proposer[d]
  BY DEF Watch
<1>2. /\ admin \in [Governed -> Addresses] /\ DOMAIN pendingAdmin = Governed
      /\ \A d \in Governed : admin[d] \in Holders
      /\ \A d \in Governed : pendingAdmin[d] # None => proposer[d] = admin[d]
  BY DEF GovernanceInv, GovernanceTypeOK, NeverLockedOut, ProposerInv,
         ProposalIsTheAdmins
<1>3. CASE \E newAdmin \in Addresses : AcceptAdmin(c, newAdmin)
  <2>1. PICK newAdmin \in Addresses : AcceptAdmin(c, newAdmin)
    BY <1>3
  <2>2. /\ newAdmin \in Holders
        /\ admin' = [admin EXCEPT ![c] = newAdmin]
        /\ pendingAdmin' = [pendingAdmin EXCEPT ![c] = None]
    BY <2>1 DEF AcceptAdmin
  <2>3. \A d \in Governed : admin'[d] \in Holders
    BY <1>2, <2>2
  <2>4. \A d \in Governed : pendingAdmin'[d] # None => proposer'[d] = admin'[d]
    <3> TAKE d \in Governed
    <3>1. CASE d = c
      BY <1>2, <2>2, <3>1
    <3>2. CASE d # c
      BY <1>1, <1>2, <2>2, <3>2
    <3> QED
      BY <3>1, <3>2
  <2> QED
    BY <1>1, <2>3, <2>4 DEF ProposerInv, ProposalIsTheAdmins, NeverLockedOut
<1>4. CASE \E caller, newAdmin \in Addresses : ProposeAdmin(c, caller, newAdmin)
  <2>1. Proposing(c)
    BY <1>4 DEF Proposing
  <2>2. admin' = admin /\ \A d \in Governed \ {c} : pendingAdmin'[d] = pendingAdmin[d]
    BY <1>2, <1>4 DEF ProposeAdmin
  <2>3. \A d \in Governed : pendingAdmin'[d] # None => proposer'[d] = admin'[d]
    BY <1>1, <1>2, <2>1, <2>2
  <2> QED
    BY <1>1, <1>2, <2>2, <2>3 DEF ProposerInv, ProposalIsTheAdmins, NeverLockedOut
<1>5. CASE UNCHANGED <<admin, pendingAdmin>>
  BY <1>1, <1>2, <1>5 DEF ProposerInv, ProposalIsTheAdmins, NeverLockedOut
<1> QED
  BY <1>3, <1>4, <1>5
     DEF AdminStep, ScheduleAction, ExecuteAction, CancelAction

\* No step of the admins or of the clock breaks the invariant.
LEMMA WatchedNextInv == GovernanceInv /\ [WatchedNext]_watched => GovernanceInv'
<1> SUFFICES ASSUME GovernanceInv, [WatchedNext]_watched PROVE GovernanceInv'
  OBVIOUS
<1>1. CASE AdminNext /\ Watch
  BY <1>1, EveryAdminStep, TypeStep, EtaStep, HandoverStep DEF GovernanceInv
<1>2. CASE Tick /\ Watch
  <2>1. UNCHANGED <<admin, pendingAdmin, scheduled, code, settlement>>
        /\ now \in Nat /\ now' = now + 1
    BY <1>2 DEF Tick, adminVars, GovernanceInv, GovernanceTypeOK
  <2>2. GovernanceTypeOK' /\ NeverLockedOut'
    BY <2>1 DEF GovernanceInv, GovernanceTypeOK, NeverLockedOut
  <2>3. EtaInv'
    BY <1>2, <2>1 DEF GovernanceInv, EtaInv, Watch
  <2>4. ProposerInv'
    BY <1>2, <2>1 DEF GovernanceInv, ProposerInv, ProposalIsTheAdmins, Watch
  <2> QED
    BY <2>2, <2>3, <2>4 DEF GovernanceInv
<1>3. CASE UNCHANGED watched
  BY <1>3 DEF watched, governanceVars, adminVars, GovernanceInv, GovernanceTypeOK,
              NeverLockedOut, EtaInv, ProposerInv, ProposalIsTheAdmins
<1> QED
  BY <1>1, <1>2, <1>3 DEF WatchedNext

\* The invariant holds in every reachable state.
LEMMA GovernanceInvariance == WatchedSpec => []GovernanceInv
BY WatchedInitInv, WatchedNextInv, PTL DEF WatchedSpec

-----------------------------------------------------------------------------

\* Every admin entry keeps its declared type: no eta exceeds a u64.
THEOREM GovernanceTypeCorrect == WatchedSpec => []GovernanceTypeOK
<1>1. GovernanceInv => GovernanceTypeOK
  BY DEF GovernanceInv
<1> QED
  BY <1>1, GovernanceInvariance, PTL

\* No proposal, mistyped or not, leaves a contract without an admin who can
\* sign.
THEOREM AdminCanAlwaysSign == WatchedSpec => []NeverLockedOut
<1>1. GovernanceInv => NeverLockedOut
  BY DEF GovernanceInv
<1> QED
  BY <1>1, GovernanceInvariance, PTL

\* Once the role has moved on, no proposal of a former admin is left.
THEOREM OldProposalsDie == WatchedSpec => []ProposalIsTheAdmins
<1>1. GovernanceInv => ProposalIsTheAdmins
  BY DEF GovernanceInv, ProposerInv
<1> QED
  BY <1>1, GovernanceInvariance, PTL

\* What EveryChangeWasSeenComing says of one contract's change.
Stood(c, action) ==
    /\ scheduled[c] # None
    /\ scheduled[c].action = action
    /\ now >= standsSince[c] + TimelockSecs
    /\ scheduled'[c] = None

SeenComing(c) ==
    /\ code'[c] # code[c] => Stood(c, Upgrade(code'[c]))
    /\ c = VaultAddr /\ settlement' # settlement =>
          Stood(c, SetSettlement(settlement'))

\* Code and settlement address change only to what has stood scheduled,
\* unaltered and without a break, for the whole timelock.
THEOREM NoChangeWithoutTheFullDelay == WatchedSpec => EveryChangeWasSeenComing
<1>1. ASSUME GovernanceInv, WatchedNext, NEW c \in Governed PROVE SeenComing(c)
  <2>1. CASE UNCHANGED <<code, settlement>>
    BY <2>1 DEF SeenComing
  <2>2. ASSUME NEW d \in Governed, NEW caller \in Addresses,
               ExecuteAction(d, caller)
        PROVE  SeenComing(c)
    <3> DEFINE action == scheduled[d].action
    <3>1. /\ scheduled[d] # None /\ scheduled[d] \in Scheduled(d)
          /\ now >= scheduled[d].eta
          /\ scheduled' = [scheduled EXCEPT ![d] = None]
          /\ IF action.kind = "Upgrade"
             THEN code' = [code EXCEPT ![d] = action.hash] /\ UNCHANGED settlement
             ELSE settlement' = action.to /\ UNCHANGED code
      BY <1>1, <2>2 DEF ExecuteAction, GovernanceInv, GovernanceTypeOK
    <3>2. now >= standsSince[d] + TimelockSecs /\ scheduled'[d] = None
      BY <1>1, <3>1 DEF GovernanceInv, EtaInv, GovernanceTypeOK
    <3>3. action \in Action(d) /\ code \in [Governed -> Uploaded]
      BY <1>1, <3>1 DEF Scheduled, GovernanceInv, GovernanceTypeOK
    <3> HIDE DEF action
    <3>4. CASE action.kind = "Upgrade"
      <4>1. PICK hash \in Codes : action = Upgrade(hash)
        BY <3>3, <3>4 DEF Action, UpgradeActions, SetSettlement
      <4>2. /\ code'[d] = hash /\ settlement' = settlement
            /\ \A e \in Governed \ {d} : code'[e] = code[e]
        BY <3>1, <3>3, <3>4, <4>1 DEF Upgrade
      <4> QED
        BY <3>1, <3>2, <4>1, <4>2 DEF SeenComing, Stood, action
    <3>5. CASE action.kind # "Upgrade"
      <4>1. d = VaultAddr /\ \E a \in Settlements : action = SetSettlement(a)
        BY <3>3, <3>5 DEF Action, UpgradeActions, Upgrade
      <4>2. PICK a \in Settlements : action = SetSettlement(a)
        BY <4>1
      <4>3. settlement' = a /\ code' = code
        BY <3>1, <3>5, <4>2 DEF SetSettlement
      <4> QED
        BY <3>1, <3>2, <4>1, <4>2, <4>3 DEF SeenComing, Stood, action
    <3> QED
      BY <3>4, <3>5
  <2> QED
    BY <1>1, <2>1, <2>2, EveryAdminStep
       DEF WatchedNext, AdminStep, ScheduleAction, CancelAction, ProposeAdmin,
           AcceptAdmin, Tick, adminVars
<1>2. GovernanceInv /\ [WatchedNext]_watched
        => [\A c \in Governed : SeenComing(c)]_watched
  BY <1>1
<1> QED
  BY <1>2, GovernanceInvariance, PTL
     DEF WatchedSpec, EveryChangeWasSeenComing, SeenComing, Stood

-----------------------------------------------------------------------------
\* The handover script.

\* What its variables hold: nobody can sign for an address that it is given
\* by mistake.
ScriptTypeOK ==
    /\ admin \in [Governed -> Addresses]
    /\ todo \in Seq(Governed)
    /\ target = Multisig \/ target \notin Holders

ScriptInv == ScriptTypeOK /\ NothingLeftOut

\* A listing of some contracts is an argument list and names each of them.
LEMMA ListingNamesAll ==
    ASSUME IsFiniteSet(Governed), NEW S \in SUBSET Governed, NEW list \in Listings(S)
    PROVE  /\ list \in Seq(Governed)
           /\ \A c \in S : \E i \in 1 .. Len(list) : list[i] = c
<1>1. Cardinality(S) \in Nat
  BY FS_Subset, FS_CardinalityType
<1>2. list \in [1 .. Cardinality(S) -> Governed]
  BY DEF Listings
<1>3. list \in Seq(Governed) /\ Len(list) = Cardinality(S)
  BY <1>1, <1>2, IsASeq, LenProperties
<1> QED
  BY <1>3 DEF Listings

\* A run that starts on a list of everything that is not the multisig's.
LEMMA StartListsAll ==
    ASSUME ScriptInv, NEW list \in Seq(Governed), NEW address,
           address = Multisig \/ address \notin Holders,
           Start(list, address),
           \A c \in Governed : admin[c] # Multisig =>
               \E i \in 1 .. Len(list) : list[i] = c
    PROVE  ScriptInv'
BY DEF ScriptInv, ScriptTypeOK, NothingLeftOut, Start, governanceVars, adminVars

\* The contract whose turn it was is the multisig's now, and the others are
\* still to come.
LEMMA AcceptMovesOn ==
    ASSUME ScriptInv, ScriptAccepts
    PROVE  ScriptInv'
<1> DEFINE head == Head(todo)
<1>1. /\ todo # <<>> /\ target \in Holders
      /\ admin' = [admin EXCEPT ![head] = target]
      /\ todo' = Tail(todo) /\ target' = target
  BY DEF ScriptAccepts, AcceptAdmin, Running
<1>2. /\ target = Multisig /\ admin \in [Governed -> Addresses]
      /\ todo \in Seq(Governed)
  BY <1>1 DEF ScriptInv, ScriptTypeOK
<1>3. /\ head \in Governed /\ head = todo[1] /\ todo' \in Seq(Governed)
      /\ Len(todo') = Len(todo) - 1
      /\ \A i \in 1 .. Len(todo') : todo'[i] = todo[i + 1]
      /\ Len(todo) \in Nat
  BY <1>1, <1>2, HeadTailProperties, LenProperties
<1> HIDE DEF head
<1>4. ScriptTypeOK'
  BY <1>1, <1>2, <1>3, ScriptAssumption, AdminAssumption DEF ScriptTypeOK
<1>5. ASSUME NEW c \in Governed, admin'[c] # Multisig
      PROVE  admin'[c] = FirstAdmin /\ \E i \in 1 .. Len(todo') : todo'[i] = c
  <2>1. c # head /\ admin'[c] = admin[c]
    BY <1>1, <1>2, <1>3, <1>5
  <2>2. admin[c] = FirstAdmin /\ \E i \in 1 .. Len(todo) : todo[i] = c
    BY <1>1, <1>5, <2>1 DEF ScriptInv, NothingLeftOut, Running
  <2>3. PICK i \in 1 .. Len(todo) : todo[i] = c
    BY <2>2
  <2>4. i - 1 \in 1 .. Len(todo') /\ todo'[i - 1] = c
    BY <1>3, <2>1, <2>3
  <2> QED
    BY <2>1, <2>2, <2>4
<1> QED
  BY <1>4, <1>5 DEF ScriptInv, NothingLeftOut

\* Wherever the script stops, whatever it was told and however often it is
\* run, no contract ends up with a third admin, and none that is left is off
\* the list of the run under way.
THEOREM HandoverLeavesNothingOut == HandoverSpec => []NothingLeftOut
<1>1. ScriptInit => ScriptInv
  BY AdminAssumption, EmptySeq
     DEF ScriptInit, GovernanceInit, ScriptInv, ScriptTypeOK, NothingLeftOut, Running
<1>2. ScriptInv /\ [ScriptNext]_handoverVars => ScriptInv'
  <2> SUFFICES ASSUME ScriptInv, [ScriptNext]_handoverVars PROVE ScriptInv'
    OBVIOUS
  <2>1. CASE ScriptProposes
    BY <2>1 DEF ScriptProposes, ProposeAdmin, ScriptInv, ScriptTypeOK,
                NothingLeftOut, Running
  <2>2. CASE ScriptAccepts
    BY <2>2, AcceptMovesOn
  <2>3. CASE Stops
    BY <2>3, EmptySeq
       DEF Stops, ScriptInv, ScriptTypeOK, NothingLeftOut, Running,
           governanceVars, adminVars
  <2>4. CASE Mistyped
    <3>1. PICK address \in Addresses \ Holders : Start(Order, address)
      BY <2>4 DEF Mistyped
    <3>2. /\ Order \in Seq(Governed)
          /\ \A c \in Governed : \E i \in 1 .. Len(Order) : Order[i] = c
      BY ScriptAssumption, ListingNamesAll
    <3> QED
      BY <3>1, <3>2, StartListsAll
  <2>5. CASE Retry
    <3>1. PICK list \in Listings(Rest) : Start(list, Multisig)
      BY <2>5 DEF Retry
    <3>2. /\ list \in Seq(Governed)
          /\ \A c \in Rest : \E i \in 1 .. Len(list) : list[i] = c
      <4>1. Rest \in SUBSET Governed
        BY DEF Rest
      <4> QED
        BY <4>1, ScriptAssumption, ListingNamesAll
    <3> QED
      BY <3>1, <3>2, StartListsAll DEF Rest
  <2>6. CASE UNCHANGED handoverVars
    BY <2>6 DEF handoverVars, scriptVars, governanceVars, adminVars, ScriptInv,
                ScriptTypeOK, NothingLeftOut, Running
  <2> QED
    BY <2>1, <2>2, <2>3, <2>4, <2>5, <2>6
       DEF ScriptNext, ScriptStep, ScriptRefused, ScriptCutShort
<1>3. ScriptInv => NothingLeftOut
  BY DEF ScriptInv
<1>4. HandoverSpec => ScriptInit /\ [][ScriptNext]_handoverVars
  BY PTL DEF HandoverSpec
<1> QED
  BY <1>1, <1>2, <1>3, <1>4, PTL

=============================================================================
