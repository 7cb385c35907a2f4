--------------------------- MODULE StorageLifetime ---------------------------
(***************************************************************************)
(* The protocol with the lifetimes of its storage entries.  Every entry    *)
(* has a clock of its own, renewed by the calls that use it.  An entry     *)
(* whose clock runs out is archived: it is not lost, but the host refuses  *)
(* every call that needs it until someone restores it.  A call that fails  *)
(* renews nothing, as the host undoes it.                                  *)
(*                                                                         *)
(* Ledgers close at a steady pace (DAY_IN_LEDGERS), so lifetimes are in    *)
(* the clock's unit.  The token's own entries are not the contracts'.      *)
(***************************************************************************)
EXTENDS RemitProtocol

CONSTANTS
    Threshold,  \* THRESHOLD and EXTEND_TO, the same in the three contracts
    ExtendTo,
    MinLifetime \* what the network gives a new or a restored entry

ASSUME LifetimeAssumption ==
    /\ Threshold \in Nat /\ ExtendTo \in Nat /\ Threshold < ExtendTo
    /\ MinLifetime \in Nat

VARIABLES
    ttl,   \* the time left to each entry there is; -1 once it is archived
    saved, \* history: when each loan record last changed
    moved  \* history: when each vault record last changed

lifetimeVars == <<vars, ttl, saved, moved>>

Entry(kind, of) == [kind |-> kind, of |-> of]
Instance(c)      == Entry("Instance", c)
VaultEntry(g)    == Entry("Vault", g)
LoanEntry(id)    == Entry("Loan", id)
MarkerEntry(loan) == Entry("OpenLoan", <<loan.guarantor, loan.beneficiary>>)
PartnerEntry(a)  == Entry("Partner", a)
VerifierEntry(a) == Entry("Verifier", a)
ScoreEntry(b)    == Entry("Reputation", b)

Instances == {Instance(VaultAddr), Instance(LedgerAddr), Instance(EngineAddr)}

Archived(k) == k \in DOMAIN ttl /\ ttl[k] < 0
Live(k) == k \in DOMAIN ttl /\ ttl[k] >= 0

\* Mutant: renewed only once it has run out.
RenewedLate(left) == IF left <= 0 THEN ExtendTo ELSE left

\* extend_ttl: nothing to pay for while enough is left.
Renewed(left) == IF left <= Threshold THEN ExtendTo ELSE left

\* A call that reads `used` where they exist, writes `written` and removes
\* `removed`.
Touches(used, written, removed) ==
    /\ \A k \in used \cup written \cup removed : ~Archived(k)
    /\ ttl' = [k \in (DOMAIN ttl \cup written) \ removed |->
                 IF k \notin used \cup written THEN ttl[k]
                 ELSE Renewed(IF k \in DOMAIN ttl THEN ttl[k] ELSE MinLifetime)]

\* Mutant: the marker is not renewed with its loan.
SaveLoanOnly(id, loan) == {LoanEntry(id)}

\* save_loan: the loan, and its marker while there is one.
SaveLoan(id, loan) == {LoanEntry(id), MarkerEntry(loan)}

\* The vault is called, for one guarantor, by a call that moves its record.
VaultIfCalled(g) ==
    IF vaults'[g] # vaults[g] THEN {Instance(VaultAddr), VaultEntry(g)} ELSE {}

\* When each record last changed.
Watch ==
    /\ saved' = [id \in 1 .. MaxLoans |->
                   IF /\ id \in 1 .. Len(loans')
                      /\ id \in LoanIds => loans'[id] # loans[id]
                   THEN now' ELSE saved[id]]
    /\ moved' = [g \in Guarantors |->
                   IF vaults'[g] # vaults[g] THEN now' ELSE moved[g]]

LifetimeInit ==
    /\ Init
    /\ ttl = [k \in Instances |-> Renewed(MinLifetime)]
    /\ saved = [id \in 1 .. MaxLoans |-> 0]
    /\ moved = [g \in Guarantors |-> 0]

-----------------------------------------------------------------------------
\* The calls of RemitProtocol and what each of them touches.

UseVaultEntry ==
    \E g \in Guarantors, amount \in Amounts, fee \in Fees :
        /\ Deposit(g, amount, fee) \/ Withdraw(g, amount, fee)
        /\ Touches({}, {Instance(VaultAddr), VaultEntry(g)}, {})
        /\ UNCHANGED <<ledgerVars, isPaused>>

OpenLoanEntries ==
    \E g \in Guarantors, b \in Beneficiaries, a \in Agents,
       principal \in Principals, count \in InstallmentCounts,
       interval \in Intervals :
        /\ Originate(g, b, a, principal, count, interval)
        /\ Touches({Instance(LedgerAddr), PartnerEntry(a), ScoreEntry(b)},
                   SaveLoan(Len(loans) + 1, [guarantor |-> g, beneficiary |-> b])
                       \cup VaultIfCalled(g),
                   {})
        /\ UNCHANGED isPaused

RepayEntries ==
    \E p, v \in Agents, id \in LoanIds, amount \in Amounts :
        /\ AttestRepayment(p, v, id, amount)
        /\ Touches({Instance(LedgerAddr), PartnerEntry(p), VerifierEntry(v)},
                   SaveLoan(id, loans[id]) \cup VaultIfCalled(loans[id].guarantor),
                   IF IsOpen(loans'[id]) THEN {} ELSE {MarkerEntry(loans[id])})
        /\ UNCHANGED isPaused

CrankEntries ==
    \E id \in LoanIds :
        /\ \/ /\ FlagOverdue(id)
              /\ Touches({Instance(EngineAddr), Instance(LedgerAddr)},
                         SaveLoan(id, loans[id]), {})
           \/ /\ \E fee \in Fees : Liquidate(id, fee)
              /\ Touches({Instance(EngineAddr), Instance(LedgerAddr)},
                         SaveLoan(id, loans[id])
                             \cup VaultIfCalled(loans[id].guarantor),
                         {MarkerEntry(loans[id])})

\* A poke with nothing to do succeeds, and renews what it read: the loan, but
\* not while the engine is paused.  (flag_overdue and liquidate fail instead.)
PokeInVain ==
    /\ \E id \in LoanIds :
          LET read == IF isPaused THEN {}
                      ELSE {Instance(LedgerAddr), LoanEntry(id)}
          IN  /\ isPaused \/ (~Overdue(id) /\ ~GraceExpired(id))
              /\ Touches({Instance(EngineAddr)} \cup read, {}, {})
    /\ UNCHANGED vars

\* The views that renew what they read.  The vault's renew the record only.
Look ==
    /\ \/ \E id \in LoanIds : Touches({Instance(LedgerAddr), LoanEntry(id)}, {}, {})
       \/ /\ Live(Instance(VaultAddr))
          /\ \E g \in Guarantors : Touches({VaultEntry(g)}, {}, {})
    /\ UNCHANGED vars

RoleEntries ==
    /\ \/ \E a \in Agents : SetOracle(a) /\ Touches({Instance(LedgerAddr)}, {}, {})
       \/ \E a \in Agents, authorized \in BOOLEAN :
             LET other(k) == IF authorized THEN {k} ELSE {}
             IN  \/ /\ SetPartner(a, authorized)
                    /\ Touches({Instance(LedgerAddr)} \cup other(VerifierEntry(a)),
                               {PartnerEntry(a)}, {})
                 \/ /\ SetVerifier(a, authorized)
                    /\ Touches({Instance(LedgerAddr)} \cup other(PartnerEntry(a)),
                               {VerifierEntry(a)}, {})
    /\ UNCHANGED <<vaultVars, isPaused>>

ReassignEntries ==
    /\ \E id \in LoanIds, a \in Agents :
          /\ ReassignPartner(id, a)
          /\ Touches({Instance(LedgerAddr), PartnerEntry(a)},
                     SaveLoan(id, loans[id]), {})
    /\ UNCHANGED <<vaultVars, isPaused>>

ScoreEntries ==
    /\ \E a \in Agents, b \in Beneficiaries, score \in Scores :
          /\ SetReputation(a, b, score)
          /\ Touches({Instance(LedgerAddr)}, {ScoreEntry(b)}, {})
    /\ UNCHANGED <<vaultVars, isPaused>>

\* The calls that keep everything in their contract's instance.
InstanceCalls ==
    \/ /\ WireVault \/ ChangeSettlement
       /\ Touches({Instance(VaultAddr)}, {}, {})
    \/ WireLedger /\ Touches({Instance(LedgerAddr)}, {}, {})
    \/ PauseEngine /\ Touches({Instance(EngineAddr)}, {}, {})

-----------------------------------------------------------------------------
\* RestoreFootprint, which anyone may submit.
Restore(footprint) ==
    /\ footprint # {} /\ \A k \in footprint : Archived(k)
    /\ ttl' = [k \in DOMAIN ttl |-> IF k \in footprint THEN MinLifetime ELSE ttl[k]]
    /\ UNCHANGED vars

Age ==
    /\ Tick
    /\ ttl' = [k \in DOMAIN ttl |-> IF ttl[k] < 0 THEN ttl[k] ELSE ttl[k] - 1]

LifetimeNext ==
    /\ \/ UseVaultEntry \/ OpenLoanEntries \/ RepayEntries \/ CrankEntries
       \/ PokeInVain \/ Look \/ RoleEntries \/ ReassignEntries \/ ScoreEntries
       \/ InstanceCalls
       \/ \E footprint \in SUBSET DOMAIN ttl : Restore(footprint)
       \/ Age
       \/ ChangeStanding /\ UNCHANGED ttl
    /\ Watch

LifetimeSpec == LifetimeInit /\ [][LifetimeNext]_lifetimeVars

-----------------------------------------------------------------------------
\* What the clocks promise.

\* A record that a call changed less than THRESHOLD ago is there without a
\* restore, whichever calls came between and however old its entry was; an
\* open loan's marker with it, and the vault record by its own changes.
UsedEntriesStayLive ==
    /\ \A id \in LoanIds :
          now - saved[id] <= Threshold =>
             /\ Live(LoanEntry(id))
             /\ IsOpen(loans[id]) => Live(MarkerEntry(loans[id]))
    /\ \A g \in Guarantors :
          VaultEntry(g) \in DOMAIN ttl /\ now - moved[g] <= Threshold =>
             Live(VaultEntry(g))

\* "calling them also keeps an idle loan from being archived before it can be
\* liquidated" (loan_ledger lib.rs 735-737): as long as calls keep an open
\* loan live, no crank of it needs a restore.  The code renews the loan's own
\* entry on a read, and its marker, which the cranks touch too, only on a save.
KeptLoansStayWhole ==
    \A id \in LoanIds :
        IsOpen(loans[id]) /\ Live(LoanEntry(id)) => Live(MarkerEntry(loans[id]))

=============================================================================
