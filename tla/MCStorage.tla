------------------------------ MODULE MCStorage ------------------------------
(***************************************************************************)
(* The deployed protocol with storage lifetimes, small, and what happens   *)
(* when whoever wants a crank recorded also restores the entries it needs. *)
(***************************************************************************)
EXTENDS StorageLifetime, RemitProperties

CONSTANTS
    p1, v1, o1,      \* the first partner, verifier and oracle of deploy.sh
    LastOrigination  \* bound on when a loan is opened

FirstAgents == {p1, v1, o1}
BothContracts == {LedgerAddr, EngineAddr}

\* deploy.sh has run, with one key for each role.
Ready ==
    /\ vaultLoanLedger = LedgerAddr /\ vaultEngine = EngineAddr
    /\ ledgerEngine = EngineAddr
    /\ partners = {p1} /\ verifiers = {v1} /\ oracle = o1
    /\ ~isPaused

\* What the script, the admin and the oracle do until then.
Deploy == ~Ready /\ (RoleEntries \/ ScoreEntries \/ InstanceCalls)

RestoreAll == Restore({k \in DOMAIN ttl : Archived(k)})

\* The clock waits for the cranks that are due and for what they need.
TimelyAge == ~CanCrank /\ Age

StorageNext ==
    /\ \/ Deploy
       \/ /\ Ready
          /\ \/ UseVaultEntry \/ (now <= LastOrigination /\ OpenLoanEntries)
             \/ RepayEntries \/ ReassignEntries \/ CrankEntries
             \/ PokeInVain \/ Look \/ RestoreAll \/ TimelyAge
    /\ Watch

\* Anyone may crank, and anyone may restore.
StorageSpec ==
    /\ LifetimeInit
    /\ [][StorageNext]_lifetimeVars
    /\ WF_lifetimeVars(Ready /\ TimelyAge /\ Watch)
    /\ WF_lifetimeVars(CrankEntries /\ Watch)
    /\ WF_lifetimeVars(RestoreAll /\ Watch)

\* Cranked and restored in time, a loan is over one grace period after its
\* term at the latest, whatever was paid, when, and however the entries'
\* clocks ran: a part payment moves the end of its grace by nothing, and one
\* that ends grace leads into the next within the term.  The two seconds are
\* the strict comparisons of is_overdue and is_grace_expired.
EveryLoanEndsInTime ==
    Fees = {0} /\ MaxTime + GracePeriod <= MaxU64 =>
        \A id \in LoanIds : IsOpen(loans[id]) =>
            now <= TermEnd(loans[id]) + GracePeriod + 2

\* No archived entry keeps a loan, and the collateral behind it, open for
\* good: every loan ends, however its entries' clocks ran out.
LoansCloseDespiteArchival ==
    \A id \in 1 .. MaxLoans :
        id \in LoanIds ~> (id \in LoanIds /\ ~IsOpen(loans[id]))

=============================================================================
