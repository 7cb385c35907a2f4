---------------------------- MODULE StorageProofs ----------------------------
(***************************************************************************)
(* The protocol with storage lifetimes implements RemitProtocol, and what  *)
(* its calls change stays live for the renewal threshold.  ClockInv weighs *)
(* what is left to an entry against the time since its record changed: the *)
(* clock moves both by one, a renewal and a restore only add.              *)
(*                                                                         *)
(* Then MCStorage's schedule, cranked and restored in time, and the last   *)
(* second at which it can find a loan open.                                *)
(***************************************************************************)
EXTENDS MCStorage, EscrowProofs

\* An entry that was there at `since` and renewed then.
Lasts(k, since) == k \in DOMAIN ttl /\ ttl[k] + (now - since) > Threshold

ClockInv ==
    /\ ttl \in [DOMAIN ttl -> Int]
    /\ saved \in [1 .. MaxLoans -> Int] /\ moved \in [Guarantors -> Int]
    /\ Len(loans) <= MaxLoans
    /\ \A id \in LoanIds :
          /\ saved[id] <= now
          /\ now - saved[id] <= Threshold =>
                /\ Lasts(LoanEntry(id), saved[id])
                /\ IsOpen(loans[id]) => Lasts(MarkerEntry(loans[id]), saved[id])
    /\ \A g \in Guarantors :
          /\ moved[g] <= now
          /\ VaultEntry(g) \in DOMAIN ttl /\ now - moved[g] <= Threshold =>
                Lasts(VaultEntry(g), moved[g])

-----------------------------------------------------------------------------
\* Every step is one of the protocol's.

\* A step with lifetimes is a step of the protocol, or changes none of it.
LEMMA LifetimeStep ==
    ASSUME LifetimeNext
    PROVE  Next \/ UNCHANGED vars
<1>1. CASE UseVaultEntry
  BY <1>1 DEF UseVaultEntry, Next, UserNext, UseVault
<1>2. CASE OpenLoanEntries
  BY <1>2 DEF OpenLoanEntries, Next, UserNext, OpenLoan
<1>3. CASE RepayEntries
  BY <1>3 DEF RepayEntries, Next, UserNext, Repay
<1>4. CASE CrankEntries
  BY <1>4 DEF CrankEntries, Next, UserNext, Crank
<1>5. CASE RoleEntries
  BY <1>5 DEF RoleEntries, Next, ManageRoles
<1>6. CASE ReassignEntries
  BY <1>6 DEF ReassignEntries, Next, ManageRoles
<1>7. CASE ScoreEntries
  BY <1>7 DEF ScoreEntries, Next, PublishScore
<1>8. CASE InstanceCalls \/ ChangeStanding
  BY <1>8 DEF InstanceCalls, Next
<1>9. CASE Age
  BY <1>9 DEF Age, Next, UserNext
<1>10. CASE PokeInVain \/ Look \/ \E footprint \in SUBSET DOMAIN ttl : Restore(footprint)
  BY <1>10 DEF PokeInVain, Look, Restore
<1> QED
  BY <1>1, <1>2, <1>3, <1>4, <1>5, <1>6, <1>7, <1>8, <1>9, <1>10 DEF LifetimeNext

\* Archival takes nothing from the protocol's safety: with lifetimes it does
\* what RemitProtocol allows, so every theorem of RemitProofs holds of it.
THEOREM LifetimesImplementProtocol == LifetimeSpec => Spec
<1>1. LifetimeInit => Init
  BY DEF LifetimeInit
<1>2. [LifetimeNext]_lifetimeVars => [Next]_vars
  BY LifetimeStep DEF lifetimeVars
<1> QED
  BY <1>1, <1>2, PTL DEF LifetimeSpec, Spec

-----------------------------------------------------------------------------
\* The clocks.

\* What renewing and writing do to the entries.
LEMMA TouchedEntries ==
    ASSUME ttl \in [DOMAIN ttl -> Int],
           NEW used, NEW written, NEW removed, Touches(used, written, removed)
    PROVE  /\ ttl' \in [DOMAIN ttl' -> Int]
           /\ DOMAIN ttl' = (DOMAIN ttl \cup written) \ removed
           /\ \A k \in DOMAIN ttl' : k \in DOMAIN ttl => ttl'[k] >= ttl[k]
           /\ \A k \in DOMAIN ttl' : k \in written => ttl'[k] > Threshold
<1> DEFINE old(k) == IF k \in DOMAIN ttl THEN ttl[k] ELSE MinLifetime
           new(k) == IF k \notin used \cup written THEN ttl[k] ELSE Renewed(old(k))
           keys   == (DOMAIN ttl \cup written) \ removed
<1>1. \A left \in Int : /\ Renewed(left) \in Int
                        /\ Renewed(left) >= left /\ Renewed(left) > Threshold
  BY LifetimeAssumption DEF Renewed
<1>2. \A k \in keys : old(k) \in Int
  BY LifetimeAssumption
<1>3. \A k \in keys : /\ new(k) \in Int
                      /\ k \in DOMAIN ttl => new(k) >= ttl[k]
                      /\ k \in written => new(k) > Threshold
  <2> SUFFICES ASSUME NEW k \in keys
               PROVE  /\ new(k) \in Int
                      /\ k \in DOMAIN ttl => new(k) >= ttl[k]
                      /\ k \in written => new(k) > Threshold
    OBVIOUS
  <2>1. CASE k \notin used \cup written
    BY <2>1
  <2>2. CASE k \in used \cup written
    <3>1. old(k) \in Int
      BY <1>2
    <3> QED
      BY <1>1, <2>2, <3>1
  <2> QED
    BY <2>1, <2>2
<1>4. ttl' = [k \in keys |-> new(k)]
  BY DEF Touches
<1> HIDE DEF new, keys
<1>5. DOMAIN ttl' = keys /\ \A k \in keys : ttl'[k] = new(k)
  BY <1>4
<1> QED
  BY <1>3, <1>4, <1>5 DEF keys

\* What a call writes of the records it changes, and what it leaves in place.
RecordsWritten(written, removed) ==
    /\ now' = now
    /\ Len(loans') \in Nat /\ Len(loans) <= Len(loans') /\ Len(loans') <= MaxLoans
    /\ \A id \in 1 .. Len(loans') :
          \/ /\ id \in LoanIds /\ loans'[id] = loans[id]
             /\ IsOpen(loans[id]) => MarkerEntry(loans[id]) \notin removed
          \/ /\ LoanEntry(id) \in written
             /\ IsOpen(loans'[id]) => MarkerEntry(loans'[id]) \in written \ removed
    /\ \A id \in Nat : LoanEntry(id) \notin removed
    /\ \A g \in Guarantors :
          /\ VaultEntry(g) \notin removed
          /\ vaults'[g] # vaults[g] => VaultEntry(g) \in written

\* A call that writes the records it changes keeps the clocks ahead.
LEMMA CallKeepsClocks ==
    ASSUME ClockInv, IInv, Watch,
           NEW used, NEW written, NEW removed,
           Touches(used, written, removed), RecordsWritten(written, removed)
    PROVE  ClockInv'
<1>1. /\ ttl' \in [DOMAIN ttl' -> Int]
      /\ DOMAIN ttl' = (DOMAIN ttl \cup written) \ removed
      /\ \A k \in DOMAIN ttl' : k \in DOMAIN ttl => ttl'[k] >= ttl[k]
      /\ \A k \in DOMAIN ttl' : k \in written => ttl'[k] > Threshold
  BY TouchedEntries DEF ClockInv
<1>2. /\ now \in Nat /\ now' = now /\ Threshold \in Nat
      /\ Len(loans) \in Nat /\ Len(loans') \in Nat /\ MaxLoans \in Nat
      /\ Len(loans) <= Len(loans') /\ Len(loans') <= MaxLoans
  BY LifetimeAssumption, InputAssumption, LenProperties
     DEF RecordsWritten, IInv, LedgerInv
<1>3. saved' \in [1 .. MaxLoans -> Int] /\ moved' \in [Guarantors -> Int]
  BY <1>2 DEF ClockInv, Watch
<1>4. ASSUME NEW k, NEW since \in Int, Lasts(k, since), k \notin removed
      PROVE  Lasts(k, since)'
  <2>1. k \in DOMAIN ttl' /\ ttl'[k] >= ttl[k] /\ ttl[k] \in Int /\ ttl'[k] \in Int
    BY <1>1, <1>4 DEF Lasts, ClockInv
  <2> QED
    BY <1>2, <1>4, <2>1 DEF Lasts
<1>5. ASSUME NEW k \in written, k \notin removed, NEW since \in Int, since <= now
      PROVE  Lasts(k, since)'
  <2>1. k \in DOMAIN ttl' /\ ttl'[k] > Threshold /\ ttl'[k] \in Int
    BY <1>1, <1>5
  <2> QED
    BY <1>2, <1>5, <2>1 DEF Lasts
<1>6. ASSUME NEW id \in LoanIds'
      PROVE  /\ saved'[id] <= now'
             /\ now' - saved'[id] <= Threshold =>
                   /\ Lasts(LoanEntry(id), saved[id])'
                   /\ IsOpen(loans'[id]) => Lasts(MarkerEntry(loans[id]), saved[id])'
  <2>1. id \in 1 .. Len(loans') /\ id \in 1 .. MaxLoans /\ id \in Nat
    BY <1>2, <1>6 DEF LoanIds
  <2>2. saved'[id] = IF id \in LoanIds => loans'[id] # loans[id]
                     THEN now' ELSE saved[id]
    BY <2>1 DEF Watch
  <2>3. LoanEntry(id) \notin removed
    BY <2>1 DEF RecordsWritten
  <2>4. saved'[id] \in Int /\ saved'[id] <= now'
    BY <1>2, <1>3, <2>1, <2>2 DEF ClockInv
  <2>5. CASE /\ id \in LoanIds /\ loans'[id] = loans[id]
             /\ IsOpen(loans[id]) => MarkerEntry(loans[id]) \notin removed
    <3>1. saved'[id] = saved[id] /\ saved[id] \in Int
      BY <2>2, <2>4, <2>5
    <3>2. now - saved[id] <= Threshold =>
             /\ Lasts(LoanEntry(id), saved[id])
             /\ IsOpen(loans[id]) => Lasts(MarkerEntry(loans[id]), saved[id])
      BY <2>5 DEF ClockInv
    <3>3. MarkerEntry(loans'[id]) = MarkerEntry(loans[id])
      BY <2>5
    <3>4. Lasts(LoanEntry(id), saved[id]) => Lasts(LoanEntry(id), saved[id])'
      BY <1>4, <2>3, <3>1 DEF Lasts
    <3>5. Lasts(MarkerEntry(loans[id]), saved[id]) /\ IsOpen(loans[id])
             => Lasts(MarkerEntry(loans[id]), saved[id])'
      BY <1>4, <2>5, <3>1, <3>3 DEF Lasts
    <3> QED
      BY <1>2, <2>4, <2>5, <3>1, <3>2, <3>4, <3>5
  <2>6. CASE /\ LoanEntry(id) \in written
             /\ IsOpen(loans'[id]) => MarkerEntry(loans'[id]) \in written \ removed
    <3>1. Lasts(LoanEntry(id), saved[id])'
      BY <1>2, <1>5, <2>3, <2>4, <2>6 DEF Lasts
    <3>2. IsOpen(loans'[id]) => Lasts(MarkerEntry(loans[id]), saved[id])'
      BY <1>2, <1>5, <2>4, <2>6 DEF Lasts
    <3> QED
      BY <2>4, <3>1, <3>2
  <2> QED
    BY <2>1, <2>5, <2>6 DEF RecordsWritten
<1>7. ASSUME NEW g \in Guarantors
      PROVE  /\ moved'[g] <= now'
             /\ VaultEntry(g) \in DOMAIN ttl' /\ now' - moved'[g] <= Threshold =>
                   Lasts(VaultEntry(g), moved[g])'
  <2>1. moved'[g] = IF vaults'[g] # vaults[g] THEN now' ELSE moved[g]
    BY DEF Watch
  <2>2. moved[g] \in Int /\ moved[g] <= now /\ moved'[g] \in Int /\ moved'[g] <= now'
    BY <1>2, <2>1 DEF ClockInv
  <2>3. VaultEntry(g) \notin removed
    BY DEF RecordsWritten
  <2>4. CASE VaultEntry(g) \in written
    BY <1>2, <1>5, <2>2, <2>3, <2>4 DEF Lasts
  <2>5. CASE VaultEntry(g) \notin written
    <3>1. moved'[g] = moved[g]
      BY <2>1, <2>5 DEF RecordsWritten
    <3>2. VaultEntry(g) \in DOMAIN ttl' => VaultEntry(g) \in DOMAIN ttl
      BY <1>1, <2>5
    <3>3. Lasts(VaultEntry(g), moved[g]) => Lasts(VaultEntry(g), moved[g])'
      BY <1>4, <2>2, <2>3, <3>1 DEF Lasts
    <3> QED
      BY <1>2, <2>2, <3>1, <3>2, <3>3 DEF ClockInv
  <2> QED
    BY <2>4, <2>5
<1> QED
  BY <1>1, <1>2, <1>3, <1>6, <1>7 DEF ClockInv

\* What a call that replaces one loan by a later version of itself writes.
LEMMA LoanReplaced ==
    ASSUME IInv, ClockInv, NEW id \in LoanIds, NEW new,
           loans' = [loans EXCEPT ![id] = new], now' = now,
           new.guarantor = loans[id].guarantor,
           new.beneficiary = loans[id].beneficiary,
           NEW removed,
           removed = IF IsOpen(new) THEN {} ELSE {MarkerEntry(loans[id])},
           IsOpen(loans[id]), NEW written, SaveLoan(id, loans[id]) \subseteq written,
           \A g \in Guarantors : vaults'[g] # vaults[g] => VaultEntry(g) \in written
    PROVE  RecordsWritten(written, removed)
<1>1. /\ Len(loans) \in Nat /\ Len(loans') = Len(loans)
      /\ \A j \in LoanIds : loans'[j] = IF j = id THEN new ELSE loans[j]
  BY LenProperties DEF IInv, LedgerInv, LoanIds
<1>2. \A k \in removed : k.kind = "OpenLoan"
  BY DEF MarkerEntry, Entry
<1>3. ASSUME NEW j \in LoanIds
      PROVE  \/ /\ loans'[j] = loans[j]
                /\ IsOpen(loans[j]) => MarkerEntry(loans[j]) \notin removed
             \/ /\ LoanEntry(j) \in written
                /\ IsOpen(loans'[j]) => MarkerEntry(loans'[j]) \in written \ removed
  <2>1. CASE j = id
    <3>1. loans'[j] = new /\ MarkerEntry(new) = MarkerEntry(loans[id])
      BY <1>1, <2>1 DEF MarkerEntry
    <3> QED
      BY <2>1, <3>1 DEF SaveLoan
  <2>2. CASE j # id
    <3>1. IsOpen(loans[j]) => MarkerEntry(loans[j]) # MarkerEntry(loans[id])
      <4> SUFFICES ASSUME IsOpen(loans[j]), MarkerEntry(loans[j]) = MarkerEntry(loans[id])
                   PROVE  FALSE
        OBVIOUS
      <4>1. /\ loans[j].guarantor = loans[id].guarantor
            /\ loans[j].beneficiary = loans[id].beneficiary
        BY DEF MarkerEntry, Entry
      <4>2. /\ openLoan[<<loans[j].guarantor, loans[j].beneficiary>>] = j
            /\ openLoan[<<loans[id].guarantor, loans[id].beneficiary>>] = id
        BY DEF IInv, LedgerInv, OpenMarkerExact
      <4> QED
        BY <2>2, <4>1, <4>2
    <3> QED
      BY <1>1, <2>2, <3>1
  <2> QED
    BY <2>1, <2>2
<1>4. /\ \A j \in Nat : LoanEntry(j) \notin removed
      /\ \A g \in Guarantors : VaultEntry(g) \notin removed
  BY <1>2 DEF LoanEntry, VaultEntry, Entry
<1> QED
  BY <1>1, <1>3, <1>4 DEF RecordsWritten, ClockInv, LoanIds

\* A call of one guarantor's vault writes the record it changes.
LEMMA VaultCalled ==
    ASSUME IInv, NEW g \in Guarantors, NEW h \in Guarantors,
           NEW new, vaults' = [vaults EXCEPT ![g] = new] \/ vaults' = vaults,
           vaults'[h] # vaults[h]
    PROVE  VaultEntry(h) \in VaultIfCalled(g)
BY DEF IInv, VaultInv, VaultTypeOK, VaultIfCalled

\* A call that changes no record keeps the clocks ahead.
LEMMA NoRecordChanged ==
    ASSUME ClockInv, IInv, UNCHANGED <<vaults, loans, now>>, NEW written
    PROVE  RecordsWritten(written, {})
BY LenProperties DEF RecordsWritten, ClockInv, IInv, LedgerInv, LoanIds

\* deposit and withdraw write the record of the guarantor's vault.
LEMMA UseVaultClocks ==
    ASSUME ClockInv, IInv, Watch, UseVaultEntry
    PROVE  ClockInv'
<1> PICK g \in Guarantors, amount \in Amounts, fee \in Fees :
       /\ Deposit(g, amount, fee) \/ Withdraw(g, amount, fee)
       /\ Touches({}, {Instance(VaultAddr), VaultEntry(g)}, {})
       /\ UNCHANGED <<ledgerVars, isPaused>>
  BY DEF UseVaultEntry
<1> DEFINE written == {Instance(VaultAddr), VaultEntry(g)}
<1>1. \A h \in Guarantors : vaults'[h] # vaults[h] => VaultEntry(h) \in written
  <2>1. \E new : vaults' = [vaults EXCEPT ![g] = new]
    BY DEF Deposit, Withdraw
  <2> QED
    BY <2>1 DEF IInv, VaultInv, VaultTypeOK
<1>2. loans' = loans /\ now' = now
  BY DEF ledgerVars
<1>3. RecordsWritten(written, {})
  BY <1>1, <1>2, LenProperties DEF RecordsWritten, ClockInv, IInv, LedgerInv, LoanIds
<1> QED
  BY <1>3, CallKeepsClocks

\* originate writes the loan, its marker and the vault that is locked.
LEMMA OpenLoanClocks ==
    ASSUME ClockInv, IInv, Watch, OpenLoanEntries
    PROVE  ClockInv'
<1> PICK g \in Guarantors, b \in Beneficiaries, a \in Agents,
         principal \in Principals, count \in InstallmentCounts,
         interval \in Intervals :
       /\ Originate(g, b, a, principal, count, interval)
       /\ Touches({Instance(LedgerAddr), PartnerEntry(a), ScoreEntry(b)},
                  SaveLoan(Len(loans) + 1, [guarantor |-> g, beneficiary |-> b])
                      \cup VaultIfCalled(g),
                  {})
  BY DEF OpenLoanEntries
<1> DEFINE new == NewLoan(g, b, a, principal, count, interval)
           written == SaveLoan(Len(loans) + 1, [guarantor |-> g, beneficiary |-> b])
                          \cup VaultIfCalled(g)
<1>1. /\ Len(loans) < MaxLoans
      /\ loans' = Append(loans, new) /\ now' = now
      /\ vaults' = [vaults EXCEPT ![g] = AfterLock(@, new.collateral_locked)]
  BY DEF Originate, LockCollateral
<1>2. MarkerEntry(new) = MarkerEntry([guarantor |-> g, beneficiary |-> b])
  BY DEF NewLoan, MarkerEntry
<1> HIDE DEF new
<1>3. /\ Len(loans) \in Nat /\ Len(loans') = Len(loans) + 1
      /\ \A id \in LoanIds : loans'[id] = loans[id]
      /\ loans'[Len(loans) + 1] = new
  BY <1>1, LenProperties DEF IInv, LedgerInv, LoanIds
<1>4. \A id \in 1 .. Len(loans') : id \in LoanIds \/ id = Len(loans) + 1
  BY <1>3 DEF LoanIds
<1>5. \A h \in Guarantors : vaults'[h] # vaults[h] => VaultEntry(h) \in written
  <2>1. \E v : vaults' = [vaults EXCEPT ![g] = v]
    BY <1>1
  <2> QED
    BY <2>1, VaultCalled
<1>6. Len(loans') <= MaxLoans /\ Len(loans) <= Len(loans')
  BY <1>1, <1>3, InputAssumption
<1>7. RecordsWritten(written, {})
  BY <1>1, <1>2, <1>3, <1>4, <1>5, <1>6 DEF RecordsWritten, SaveLoan
<1> QED
  BY <1>7, CallKeepsClocks

\* attest_repayment writes the loan, and the marker unless it closes.
LEMMA RepayClocks ==
    ASSUME ClockInv, IInv, Watch, RepayEntries
    PROVE  ClockInv'
<1> PICK p \in Agents, v \in Agents, id \in LoanIds, amount \in Amounts :
       /\ AttestRepayment(p, v, id, amount)
       /\ Touches({Instance(LedgerAddr), PartnerEntry(p), VerifierEntry(v)},
                  SaveLoan(id, loans[id]) \cup VaultIfCalled(loans[id].guarantor),
                  IF IsOpen(loans'[id]) THEN {} ELSE {MarkerEntry(loans[id])})
  BY DEF RepayEntries
<1> DEFINE loan    == loans[id]
           new     == Settled(Credited(loan, amount))
           written == SaveLoan(id, loan) \cup VaultIfCalled(loan.guarantor)
           removed == IF IsOpen(new) THEN {} ELSE {MarkerEntry(loan)}
<1>1. loan \in Loan /\ LoanInv(loan) /\ amount \in Int /\ now \in Nat
  BY LoanIsTyped, AmountAssumption DEF IInv, LedgerInv
<1>2. /\ amount > 0 /\ IsOpen(loan)
      /\ loan.total_repaid_usd + amount <= loan.principal_usd
      /\ loans' = [loans EXCEPT ![id] = new] /\ now' = now
      /\ \/ \E w : vaults' = [vaults EXCEPT ![loan.guarantor] = w]
         \/ vaults' = vaults
  BY DEF AttestRepayment, CanAttest, ReleaseCollateral, vaultVars
<1>3. /\ new.guarantor = loan.guarantor /\ new.beneficiary = loan.beneficiary
      /\ loan.guarantor \in Guarantors
  BY <1>1, <1>2, RepaidInv DEF Loan
<1> HIDE DEF new
<1>4. loans'[id] = new
  BY <1>2, LenProperties DEF IInv, LedgerInv, LoanIds
<1>5. \A g \in Guarantors : vaults'[g] # vaults[g] => VaultEntry(g) \in written
  BY <1>2, <1>3, VaultCalled
<1>6. RecordsWritten(written, removed)
  BY <1>2, <1>3, <1>5, LoanReplaced
<1> QED
  BY <1>4, <1>6, CallKeepsClocks

\* A crank that does something writes the loan, and the marker unless it
\* closes.
LEMMA CrankClocks ==
    ASSUME ClockInv, IInv, Watch, CrankEntries
    PROVE  ClockInv'
<1> PICK id \in LoanIds :
       \/ /\ FlagOverdue(id)
          /\ Touches({Instance(EngineAddr), Instance(LedgerAddr)},
                     SaveLoan(id, loans[id]), {})
       \/ /\ \E fee \in Fees : Liquidate(id, fee)
          /\ Touches({Instance(EngineAddr), Instance(LedgerAddr)},
                     SaveLoan(id, loans[id]) \cup VaultIfCalled(loans[id].guarantor),
                     {MarkerEntry(loans[id])})
  BY DEF CrankEntries
<1>1. loans[id] \in Loan /\ LoanInv(loans[id]) /\ now \in Nat
  BY LoanIsTyped DEF IInv, LedgerInv
<1>2. CASE /\ FlagOverdue(id)
           /\ Touches({Instance(EngineAddr), Instance(LedgerAddr)},
                      SaveLoan(id, loans[id]), {})
  <2> DEFINE new == InGrace(loans[id])
  <2>1. /\ loans[id].status = "Active" /\ now > loans[id].next_due
        /\ loans' = [loans EXCEPT ![id] = new] /\ UNCHANGED <<vaults, now>>
    BY <1>2 DEF FlagOverdue, CanFlag, MarkGrace, Overdue, vaultVars
  <2>2. /\ IsOpen(new) /\ IsOpen(loans[id])
        /\ new.guarantor = loans[id].guarantor
        /\ new.beneficiary = loans[id].beneficiary
    BY <1>1, <2>1, InGraceInv DEF IsOpen
  <2> HIDE DEF new
  <2>3. RecordsWritten(SaveLoan(id, loans[id]), {})
    BY <2>1, <2>2, LoanReplaced
  <2> QED
    BY <1>2, <2>3, CallKeepsClocks
<1>3. CASE /\ \E fee \in Fees : Liquidate(id, fee)
           /\ Touches({Instance(EngineAddr), Instance(LedgerAddr)},
                      SaveLoan(id, loans[id]) \cup VaultIfCalled(loans[id].guarantor),
                      {MarkerEntry(loans[id])})
  <2> DEFINE new     == AfterDefault(loans[id])
             written == SaveLoan(id, loans[id]) \cup VaultIfCalled(loans[id].guarantor)
  <2>1. /\ IsOpen(loans[id])
        /\ loans' = [loans EXCEPT ![id] = new] /\ now' = now
        /\ \E w : vaults' = [vaults EXCEPT ![loans[id].guarantor] = w]
    BY <1>3 DEF Liquidate, CanLiquidate, MarkDefaulted, GraceExpired, IsOpen
  <2>2. /\ ~IsOpen(new)
        /\ new.guarantor = loans[id].guarantor
        /\ new.beneficiary = loans[id].beneficiary
        /\ loans[id].guarantor \in Guarantors
    BY <1>1, AfterDefaultInv DEF Loan
  <2> HIDE DEF new
  <2>3. \A g \in Guarantors : vaults'[g] # vaults[g] => VaultEntry(g) \in written
    BY <2>1, <2>2, VaultCalled
  <2>4. RecordsWritten(written, {MarkerEntry(loans[id])})
    BY <2>1, <2>2, <2>3, LoanReplaced
  <2> QED
    BY <1>3, <2>4, CallKeepsClocks
<1> QED
  BY <1>2, <1>3

\* reassign_partner writes the loan and its marker.
LEMMA ReassignClocks ==
    ASSUME ClockInv, IInv, Watch, ReassignEntries
    PROVE  ClockInv'
<1> PICK id \in LoanIds, a \in Agents :
       /\ ReassignPartner(id, a)
       /\ Touches({Instance(LedgerAddr), PartnerEntry(a)}, SaveLoan(id, loans[id]), {})
       /\ UNCHANGED vaultVars
  BY DEF ReassignEntries
<1> DEFINE new == [loans[id] EXCEPT !.partner = a]
<1>1. /\ IsOpen(loans[id]) /\ loans' = [loans EXCEPT ![id] = new]
      /\ UNCHANGED <<vaults, now>>
  BY DEF ReassignPartner, vaultVars
<1>2. loans[id] \in Loan /\ LoanInv(loans[id])
  BY LoanIsTyped DEF IInv
<1>3. /\ IsOpen(new)
      /\ new.guarantor = loans[id].guarantor
      /\ new.beneficiary = loans[id].beneficiary
  BY <1>1, <1>2, ReassignedInv
<1> HIDE DEF new
<1>4. RecordsWritten(SaveLoan(id, loans[id]), {})
  BY <1>1, <1>3, LoanReplaced
<1> QED
  BY <1>4, CallKeepsClocks

\* The calls that change no loan and no vault.
LEMMA OtherCallsClocks ==
    ASSUME ClockInv, IInv, Watch,
           RoleEntries \/ ScoreEntries \/ InstanceCalls \/ PokeInVain \/ Look
    PROVE  ClockInv'
<1>1. UNCHANGED <<vaults, loans, now>>
  <2>1. CASE RoleEntries
    BY <2>1 DEF RoleEntries, SetOracle, SetPartner, SetVerifier, vaultVars
  <2>2. CASE ScoreEntries
    BY <2>2 DEF ScoreEntries, SetReputation, vaultVars
  <2>3. CASE InstanceCalls
    BY <2>3
       DEF InstanceCalls, WireVault, SetLoanLedger, SetVaultEngine, WireLedger,
           SetLedgerEngine, ChangeSettlement, SetSettlement, PauseEngine,
           custody, vaultVars, ledgerVars
  <2>4. CASE PokeInVain \/ Look
    BY <2>4 DEF PokeInVain, Look, vars, vaultVars, ledgerVars
  <2> QED
    BY <2>1, <2>2, <2>3, <2>4
<1>2. \E used, written : Touches(used, written, {})
  BY DEF RoleEntries, ScoreEntries, InstanceCalls, PokeInVain, Look
<1>3. PICK used, written : Touches(used, written, {})
  BY <1>2
<1> QED
  BY <1>1, <1>3, NoRecordChanged, CallKeepsClocks

\* When no record changes, neither does what is remembered of it.
LEMMA NothingRemembered ==
    ASSUME ClockInv, IInv, Watch, UNCHANGED <<vaults, loans>>
    PROVE  saved' = saved /\ moved' = moved
<1>1. \A id \in 1 .. MaxLoans :
         ~(/\ id \in 1 .. Len(loans')
           /\ id \in LoanIds => loans'[id] # loans[id])
  BY DEF LoanIds
<1>2. saved' = [id \in 1 .. MaxLoans |-> saved[id]]
  BY <1>1 DEF Watch
<1>3. moved' = [g \in Guarantors |-> moved[g]]
  BY DEF Watch
<1> QED
  BY <1>2, <1>3 DEF ClockInv

\* A restore only adds to what is left, and the token's issuer has no clock.
LEMMA RestoreClocks ==
    ASSUME ClockInv, IInv, Watch,
           \/ \E footprint \in SUBSET DOMAIN ttl : Restore(footprint)
           \/ ChangeStanding /\ UNCHANGED ttl
    PROVE  ClockInv'
<1>1. UNCHANGED <<vaults, loans, now>>
  <2>1. CASE \E footprint \in SUBSET DOMAIN ttl : Restore(footprint)
    BY <2>1 DEF Restore, vars, vaultVars, ledgerVars
  <2>2. CASE ChangeStanding
    BY <2>2 DEF ChangeStanding, TokenStanding, Freeze, Thaw, custody, ledgerVars
  <2> QED
    BY <2>1, <2>2
<1>2. /\ ttl' \in [DOMAIN ttl' -> Int] /\ DOMAIN ttl' = DOMAIN ttl
      /\ \A k \in DOMAIN ttl : ttl'[k] >= ttl[k]
  <2>1. CASE \E footprint \in SUBSET DOMAIN ttl : Restore(footprint)
    <3>1. PICK footprint \in SUBSET DOMAIN ttl : Restore(footprint)
      BY <2>1
    <3>2. /\ \A k \in footprint : ttl[k] < 0
          /\ ttl' = [k \in DOMAIN ttl |->
                       IF k \in footprint THEN MinLifetime ELSE ttl[k]]
      BY <3>1 DEF Restore, Archived
    <3> QED
      BY <3>2, LifetimeAssumption DEF ClockInv
  <2>2. CASE UNCHANGED ttl
    BY <2>2 DEF ClockInv
  <2> QED
    BY <2>1, <2>2
<1>3. saved' = saved /\ moved' = moved
  BY <1>1, NothingRemembered
<1>4. ASSUME NEW k, NEW since \in Int, Lasts(k, since) PROVE Lasts(k, since)'
  <2>1. /\ k \in DOMAIN ttl' /\ ttl'[k] >= ttl[k] /\ ttl[k] \in Int /\ ttl'[k] \in Int
        /\ now \in Nat /\ now' = now /\ Threshold \in Nat
    BY <1>1, <1>2, <1>4, LifetimeAssumption DEF Lasts, ClockInv, IInv, LedgerInv
  <2> QED
    BY <1>4, <2>1 DEF Lasts
<1> QED
  <2>1. LoanIds' = LoanIds /\ loans' = loans /\ now' = now
    BY <1>1 DEF LoanIds
  <2>2. \A id \in LoanIds : saved[id] \in Int
    BY LenProperties, InputAssumption DEF ClockInv, IInv, LedgerInv, LoanIds
  <2>3. ASSUME NEW id \in LoanIds, now' - saved'[id] <= Threshold
        PROVE  /\ Lasts(LoanEntry(id), saved[id])'
               /\ IsOpen(loans'[id]) => Lasts(MarkerEntry(loans[id]), saved[id])'
    BY <1>3, <1>4, <2>1, <2>2, <2>3 DEF ClockInv, Lasts
  <2>4. ASSUME NEW g \in Guarantors, VaultEntry(g) \in DOMAIN ttl',
               now' - moved'[g] <= Threshold
        PROVE  Lasts(VaultEntry(g), moved[g])'
    BY <1>2, <1>3, <1>4, <2>1, <2>4 DEF ClockInv, Lasts
  <2> QED
    BY <1>2, <1>3, <2>1, <2>3, <2>4 DEF ClockInv

\* The clock takes from what is left what it adds to the time since.
LEMMA AgeClocks ==
    ASSUME ClockInv, IInv, Watch, Age
    PROVE  ClockInv'
<1>1. /\ UNCHANGED <<vaults, loans>> /\ now' = now + 1
      /\ ttl' = [k \in DOMAIN ttl |-> IF ttl[k] < 0 THEN ttl[k] ELSE ttl[k] - 1]
  BY DEF Age, Tick, vaultVars
<1>2. now \in Nat /\ Threshold \in Nat
  BY LifetimeAssumption DEF IInv, LedgerInv
<1>3. saved' = saved /\ moved' = moved
  BY <1>1, NothingRemembered
<1>4. ASSUME NEW k, NEW since \in Int, Lasts(k, since),
             since <= now, now' - since <= Threshold
      PROVE  Lasts(k, since)'
  <2>1. k \in DOMAIN ttl /\ ttl[k] \in Int /\ ttl[k] + (now - since) > Threshold
    BY <1>4 DEF Lasts, ClockInv
  <2>2. ttl[k] >= 0
    BY <1>1, <1>2, <1>4, <2>1
  <2>3. k \in DOMAIN ttl' /\ ttl'[k] = ttl[k] - 1
    BY <1>1, <2>1, <2>2
  <2> QED
    BY <1>1, <1>2, <2>1, <2>3 DEF Lasts
<1>5. LoanIds' = LoanIds /\ loans' = loans /\ DOMAIN ttl' = DOMAIN ttl
  BY <1>1 DEF LoanIds
<1>6. \A id \in LoanIds : saved[id] \in Int
  BY LenProperties, InputAssumption DEF ClockInv, IInv, LedgerInv, LoanIds
<1>7. ASSUME NEW id \in LoanIds, now' - saved'[id] <= Threshold
      PROVE  /\ Lasts(LoanEntry(id), saved[id])'
             /\ IsOpen(loans'[id]) => Lasts(MarkerEntry(loans[id]), saved[id])'
  <2>1. saved[id] <= now /\ now - saved[id] <= Threshold
    BY <1>1, <1>2, <1>3, <1>6, <1>7 DEF ClockInv
  <2>2. /\ Lasts(LoanEntry(id), saved[id])
        /\ IsOpen(loans[id]) => Lasts(MarkerEntry(loans[id]), saved[id])
    BY <2>1 DEF ClockInv
  <2> QED
    BY <1>3, <1>4, <1>5, <1>6, <1>7, <2>1, <2>2 DEF Lasts
<1>8. ASSUME NEW g \in Guarantors, VaultEntry(g) \in DOMAIN ttl',
             now' - moved'[g] <= Threshold
      PROVE  Lasts(VaultEntry(g), moved[g])'
  <2>1. moved[g] \in Int /\ moved[g] <= now /\ now - moved[g] <= Threshold
    BY <1>1, <1>2, <1>3, <1>8 DEF ClockInv
  <2>2. Lasts(VaultEntry(g), moved[g])
    BY <1>5, <1>8, <2>1 DEF ClockInv
  <2> QED
    BY <1>3, <1>4, <1>8, <2>1, <2>2 DEF Lasts
<1>9. ttl' \in [DOMAIN ttl' -> Int]
  BY <1>1 DEF ClockInv
<1>10. /\ \A id \in LoanIds : saved'[id] <= now'
       /\ \A g \in Guarantors : moved'[g] <= now'
  BY <1>1, <1>2, <1>3, <1>6 DEF ClockInv
<1> QED
  BY <1>3, <1>5, <1>7, <1>8, <1>9, <1>10 DEF ClockInv

-----------------------------------------------------------------------------
\* The invariant of both, the protocol's and the clocks'.

\* Every step keeps the protocol consistent and the clocks ahead.
LEMMA LifetimeInv ==
    ASSUME IInv, ClockInv, [LifetimeNext]_lifetimeVars
    PROVE  IInv' /\ ClockInv'
<1>1. IInv'
  BY LifetimeStep, NextInv DEF lifetimeVars
<1>2. CASE UNCHANGED lifetimeVars
  <2>1. UNCHANGED <<ttl, saved, moved, loans, now>>
    BY <1>2 DEF lifetimeVars, vars, ledgerVars
  <2>2. LoanIds' = LoanIds
    BY <2>1 DEF LoanIds
  <2>3. /\ \A k, since : Lasts(k, since) <=> Lasts(k, since)'
        /\ \A id \in LoanIds : IsOpen(loans'[id]) <=> IsOpen(loans[id])
    BY <2>1 DEF Lasts, IsOpen
  <2> QED
    BY <1>1, <2>1, <2>2, <2>3 DEF ClockInv, Lasts, IsOpen
<1>3. CASE LifetimeNext
  <2>1. Watch
    BY <1>3 DEF LifetimeNext
  <2>2. CASE \/ UseVaultEntry \/ OpenLoanEntries \/ RepayEntries
             \/ CrankEntries \/ ReassignEntries \/ Age
    BY <1>1, <2>1, <2>2, UseVaultClocks, OpenLoanClocks, RepayClocks, CrankClocks,
       ReassignClocks, AgeClocks
  <2>3. CASE RoleEntries \/ ScoreEntries \/ InstanceCalls \/ PokeInVain \/ Look
    BY <1>1, <2>1, <2>3, OtherCallsClocks
  <2>4. CASE \/ \E footprint \in SUBSET DOMAIN ttl : Restore(footprint)
             \/ ChangeStanding /\ UNCHANGED ttl
    BY <1>1, <2>1, <2>4, RestoreClocks
  <2> QED
    BY <1>3, <2>2, <2>3, <2>4 DEF LifetimeNext
<1> QED
  BY <1>1, <1>2, <1>3

\* What a call changed is there without a restore for the next THRESHOLD,
\* whatever was called, archived and restored before.
THEOREM UsedEntriesAreLive == LifetimeSpec => []UsedEntriesStayLive
<1>1. LifetimeInit => IInv /\ ClockInv
  <2> SUFFICES ASSUME LifetimeInit PROVE IInv /\ ClockInv
    OBVIOUS
  <2>1. IInv
    BY InitInv DEF LifetimeInit
  <2>2. loans = <<>> /\ now = 0 /\ LoanIds = {}
    BY DEF LifetimeInit, Init, LedgerInit, LoanIds
  <2>3. ttl \in [DOMAIN ttl -> Int]
    <3>1. Renewed(MinLifetime) \in Int
      BY LifetimeAssumption DEF Renewed
    <3> QED
      BY <3>1 DEF LifetimeInit
  <2>4. \A g \in Guarantors : VaultEntry(g) \notin DOMAIN ttl
    BY DEF LifetimeInit, Instances, Instance, VaultEntry, Entry
  <2> QED
    <3>1. /\ saved \in [1 .. MaxLoans -> Int] /\ moved \in [Guarantors -> Int]
          /\ \A g \in Guarantors : moved[g] = 0
      BY DEF LifetimeInit
    <3>2. Len(loans) = 0 /\ 0 <= MaxLoans
      BY <2>2, InputAssumption
    <3> QED
      BY <2>1, <2>2, <2>3, <2>4, <3>1, <3>2 DEF ClockInv
<1>2. IInv /\ ClockInv => UsedEntriesStayLive
  <2> SUFFICES ASSUME IInv, ClockInv PROVE UsedEntriesStayLive
    OBVIOUS
  <2>1. now \in Nat /\ Threshold \in Nat
    BY LifetimeAssumption DEF IInv, LedgerInv
  <2>2. ASSUME NEW k, NEW since \in Int, now - since <= Threshold, Lasts(k, since)
        PROVE  Live(k)
    <3>1. ttl[k] \in Int /\ k \in DOMAIN ttl
      BY <2>2 DEF Lasts, ClockInv
    <3> QED
      BY <2>1, <2>2, <3>1 DEF Lasts, Live
  <2>3. \A id \in LoanIds : saved[id] \in Int
    BY LenProperties, InputAssumption DEF ClockInv, IInv, LedgerInv, LoanIds
  <2>4. \A g \in Guarantors : moved[g] \in Int
    BY DEF ClockInv
  <2> QED
    BY <2>2, <2>3, <2>4 DEF ClockInv, UsedEntriesStayLive
<1> QED
  BY <1>1, <1>2, LifetimeInv, PTL DEF LifetimeSpec

-----------------------------------------------------------------------------
\* The deployed protocol, cranked and restored in time.

\* Its schedule is one of those that the theorems above speak of.
LEMMA ScheduleAllowsNoMore == StorageSpec => LifetimeSpec
<1>1. StorageNext => LifetimeNext
  <2> SUFFICES ASSUME StorageNext PROVE LifetimeNext
    OBVIOUS
  <2>1. Watch
    BY DEF StorageNext
  <2>2. CASE Deploy
    BY <2>1, <2>2 DEF Deploy, LifetimeNext
  <2>3. CASE RestoreAll
    BY <2>1, <2>3 DEF RestoreAll, LifetimeNext
  <2>4. CASE TimelyAge
    BY <2>1, <2>4 DEF TimelyAge, LifetimeNext
  <2>5. CASE \/ UseVaultEntry \/ OpenLoanEntries \/ RepayEntries \/ ReassignEntries
             \/ CrankEntries \/ PokeInVain \/ Look
    BY <2>1, <2>5 DEF LifetimeNext
  <2> QED
    BY <2>2, <2>3, <2>4, <2>5 DEF StorageNext
<1> QED
  BY <1>1, PTL DEF StorageSpec, LifetimeSpec

\* What Ready and the guards of a liquidation read.
wiring == <<vaultLoanLedger, vaultEngine, ledgerEngine, partners, verifiers,
            oracle, isPaused, frozen>>

\* No loan before the deployment is complete, no frozen account.
ReadyInv == (LoanIds # {} => Ready) /\ frozen = {}

\* Only TimelyAge moves the clock, and nothing undoes the deployment.
LEMMA ScheduleStep ==
    ASSUME [StorageNext]_lifetimeVars
    PROVE  /\ \/ now' = now
              \/ Ready /\ ~CanCrank
           /\ Ready => UNCHANGED wiring
           /\ ~Ready => loans' = loans /\ frozen' = frozen
<1>1. CASE Deploy
  <2>1. CASE RoleEntries
    BY <1>1, <2>1
       DEF Deploy, RoleEntries, SetOracle, SetPartner, SetVerifier, vaultVars
  <2>2. CASE ScoreEntries
    BY <1>1, <2>2 DEF Deploy, ScoreEntries, SetReputation, vaultVars
  <2>3. CASE InstanceCalls
    BY <1>1, <2>3
       DEF Deploy, InstanceCalls, WireVault, SetLoanLedger, SetVaultEngine,
           ChangeSettlement, SetSettlement, WireLedger, SetLedgerEngine,
           PauseEngine, vaultVars, ledgerVars
  <2> QED
    BY <1>1, <2>1, <2>2, <2>3 DEF Deploy
<1>2. CASE Ready /\ UseVaultEntry
  BY <1>2 DEF UseVaultEntry, Deposit, Withdraw, vaultWiring, ledgerVars, roles, wiring
<1>3. CASE Ready /\ OpenLoanEntries
  BY <1>3 DEF OpenLoanEntries, Originate, LockCollateral, vaultWiring, roles, wiring
<1>4. CASE Ready /\ RepayEntries
  <2>1. PICK p, v \in Agents, id \in LoanIds, amount \in Amounts :
           AttestRepayment(p, v, id, amount) /\ UNCHANGED isPaused
    BY <1>4 DEF RepayEntries
  <2> QED
    BY <1>4, <2>1 DEF AttestRepayment, ReleaseCollateral, vaultVars, vaultWiring, roles, wiring
<1>5. CASE Ready /\ ReassignEntries
  BY <1>5 DEF ReassignEntries, ReassignPartner, vaultVars, roles, wiring
<1>6. CASE Ready /\ CrankEntries
  <2>1. PICK id \in LoanIds : FlagOverdue(id) \/ \E fee \in Fees : Liquidate(id, fee)
    BY <1>6 DEF CrankEntries
  <2> QED
    BY <1>6, <2>1 DEF FlagOverdue, MarkGrace, Liquidate, MarkDefaulted, vaultVars,
                vaultWiring, roles, wiring
<1>7. CASE PokeInVain \/ Look \/ RestoreAll \/ UNCHANGED lifetimeVars
  <2>1. UNCHANGED vars
    BY <1>7 DEF PokeInVain, Look, RestoreAll, Restore, lifetimeVars
  <2> QED
    BY <2>1 DEF vars, vaultVars, ledgerVars, roles, wiring
<1>8. CASE Ready /\ TimelyAge
  BY <1>8 DEF TimelyAge, Age, Tick, vaultVars, roles, wiring
<1> QED
  BY <1>1, <1>2, <1>3, <1>4, <1>5, <1>6, <1>7, <1>8 DEF StorageNext

LEMMA ReadyKept ==
    ASSUME IInv, ReadyInv, [StorageNext]_lifetimeVars
    PROVE  ReadyInv'
<1>1. CASE Ready
  BY <1>1, ScheduleStep DEF wiring, Ready, ReadyInv
<1>2. CASE ~Ready
  BY <1>2, ScheduleStep DEF ReadyInv, LoanIds
<1> QED
  BY <1>1, <1>2

\* What the schedule keeps of a loan's time, for the configurations that
\* EveryLoanEndsInTime speaks of.
Timely == Fees = {0} /\ MaxTime + GracePeriod <= MaxU64
TimeInv == Timely => Prompt(0) /\ EndsAhead

\* Once deployed, a crank that is due can run, so the clock waits for it.
LEMMA NothingDueAtATick ==
    ASSUME IInv, LiquidationNeverStuck, ReadyInv, Timely,
           [StorageNext]_lifetimeVars, Tick, NEW id \in LoanIds
    PROVE  ~Overdue(id) /\ ~GraceExpired(id)
<1>1. /\ now \in Nat /\ MaxTime \in Nat /\ GracePeriod \in Nat /\ MaxU64 \in Nat
      /\ settlement \in Accounts
  BY ProtocolAssumption, ConfigAssumption, InputAssumption
     DEF IInv, LedgerInv, VaultInv, VaultTypeOK, Accounts
<1>2. now < MaxTime /\ now' = now + 1
  BY DEF Tick
<1>3. Ready /\ ~CanCrank
  BY <1>1, <1>2, ScheduleStep
<1>4. ~Overdue(id)
  <2>1. now + GracePeriod <= MaxU64
    BY <1>1, <1>2 DEF Timely
  <2>2. IsRegisteredEngine(EngineAddr) /\ ~isPaused
    BY <1>3, EngineAssumption DEF Ready, IsRegisteredEngine
  <2> QED
    BY <1>3, <2>1, <2>2 DEF CanCrank, CanFlag, CanMarkGrace
<1>5. ~GraceExpired(id)
  <2>1. frozen = {} /\ vaultEngine = EngineAddr /\ ledgerEngine = EngineAddr
        /\ ~isPaused
    BY <1>3 DEF ReadyInv, Ready
  <2>2. GraceExpired(id) => CanLiquidate(id, 0)
    BY <2>1 DEF LiquidationNeverStuck, Timely
  <2>3. 0 \in Fees
    BY DEF Timely
  <2> QED
    BY <1>3, <2>2, <2>3 DEF CanCrank
<1> QED
  BY <1>4, <1>5

LEMMA TimeKept ==
    ASSUME IInv, LiquidationNeverStuck, ReadyInv, TimeInv,
           [StorageNext]_lifetimeVars, [Next]_vars
    PROVE  TimeInv'
<1> SUFFICES ASSUME Timely PROVE Prompt(0)' /\ EndsAhead'
  BY DEF TimeInv, Timely
<1>1. Prompt(0) /\ EndsAhead
  BY DEF TimeInv
<1>2. Tick => \A id \in LoanIds : ~Overdue(id) /\ ~GraceExpired(id)
  BY NothingDueAtATick
<1> QED
  BY <1>1, <1>2, PromptKept, DeadlinesKept

\* Whoever borrows, pays, withdraws or reads, in any order, and whichever
\* entries were archived and restored: one grace period after the term every
\* loan is over.  A chain of cranks, each in time, cannot be drawn out.
THEOREM LoansEndInTime == StorageSpec => []EveryLoanEndsInTime
<1>1. StorageSpec => [](IInv /\ LiquidationNeverStuck)
  BY ScheduleAllowsNoMore, LifetimesImplementProtocol, Invariance,
     LiquidationNeverRefused, PTL
<1>2. StorageSpec => [][Next]_vars
  BY ScheduleAllowsNoMore, LifetimesImplementProtocol, PTL DEF Spec
<1>3. StorageSpec => LifetimeInit /\ [][StorageNext]_lifetimeVars
  BY PTL DEF StorageSpec
<1>4. LifetimeInit => ReadyInv /\ TimeInv
  BY DEF LifetimeInit, Init, VaultInit, LedgerInit, LoanIds, ReadyInv, TimeInv,
         Prompt, EndsAhead
<1>5. /\ IInv /\ LiquidationNeverStuck /\ ReadyInv /\ TimeInv
      /\ [StorageNext]_lifetimeVars /\ [Next]_vars
      => ReadyInv' /\ TimeInv'
  BY ReadyKept, TimeKept
<1>6. IInv /\ TimeInv => EveryLoanEndsInTime
  BY OpenWithinTerm DEF TimeInv, Timely, EveryLoanEndsInTime
<1> QED
  BY <1>1, <1>2, <1>3, <1>4, <1>5, <1>6, PTL

=============================================================================
