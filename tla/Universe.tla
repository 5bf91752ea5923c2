------------------------------ MODULE Universe -------------------------------
(***************************************************************************)
(* The tradable universe (DataSeed.load_available_stocks): a nightly job,  *)
(* and the boot thread of an empty database, profile the tickers of a file *)
(* that are not in the database yet, a budget of them a run, one commit    *)
(* each.                                                                   *)
(*                                                                         *)
(* Tickers are numbered in file order.  History (the module) adds the      *)
(* price history of the tickers that are loaded here.                      *)
(***************************************************************************)
EXTENDS Integers, FiniteSets, FiniteSetsExt

CONSTANTS
  Tickers,      \* how many lines the ticker file has
  Budget,       \* FMP_DAILY_BUDGET
  Profile,      \* ticker -> the symbol its profile bears; NoProfile when there
                \* is none, or a required field is missing from it
  Quoted,       \* the symbols whose profile has a price
  MaxFaults,    \* failures of any kind in a behaviour (bound)
  NoProfile

All == 1 .. Tickers

\* The tickers that a run can turn into rows, and those it asks for in vain:
\* the provider has nothing, or answers under the symbol of another ticker.
Loadable == {t \in All : Profile[t] = t}
Stuck    == All \ Loadable

ASSUME BudgetAssumption == Tickers \in Nat \ {0} /\ Budget \in Nat \ {0} /\ MaxFaults \in Nat
ASSUME ProfileAssumption ==
  /\ NoProfile \notin All /\ Quoted \subseteq All
  /\ \A t \in All : Profile[t] \in Loadable \cup {NoProfile}

VARIABLES
  available,   \* available_stocks
  priced,      \* the symbols with a row of stock_price
  touched,     \* whether a row of stock_price has been updated today
  loader,      \* each run of the job: what it has read and still has to ask for
  loads,       \* history: nightly runs that nothing disturbed, up to a bound
  faults       \* failures so far

universe == <<available, priced, touched, loader, loads, faults>>

Loaders == {"boot", "night"}
NotLoading == [on |-> FALSE, held |-> {}, left |-> {}, clean |-> TRUE]

UniverseInit ==
  /\ available = {} /\ priced = {} /\ touched = FALSE
  /\ loader = [l \in Loaders |-> NotLoading]
  /\ loads = 0 /\ faults = 0

\* The place of t in the sorted list of the tickers in S, from 0.
Place(t, S) == Cardinality({u \in S : u < t})

TakeThenFilter(missing) == {t \in missing : Place(t, All) < Budget}

\* missing[:budget]
Batch(missing) == {t \in missing : Place(t, missing) < Budget}

\* existing is read once, at the start of a run.
LoadBegin(l) ==
  /\ ~loader[l].on
  /\ loader' = [loader EXCEPT ![l] = [on |-> TRUE, held |-> available, clean |-> TRUE,
                                      left |-> Batch(All \ available)]]
  /\ UNCHANGED <<available, priced, touched, loads, faults>>

Fault == faults < MaxFaults /\ faults' = faults + 1

\* The next ticker in file order is profiled.  A symbol this run knows of is
\* left alone; one that the other run has committed since meets the unique
\* index, which costs this run nothing but the statement.
LoadOne(l) ==
  /\ loader[l].left # {}
  /\ LET t     == Min(loader[l].left)
         fresh == {Profile[t]} \ ({NoProfile} \cup loader[l].held \cup available)
     IN /\ available' = available \cup fresh
        /\ priced' = priced \cup (fresh \cap Quoted)
        /\ touched' = (touched \/ fresh \cap Quoted # {})
        /\ loader' = [loader EXCEPT ![l].left = @ \ {t}, ![l].held = @ \cup fresh]
  /\ UNCHANGED <<loads, faults>>

\* The request fails, or its commit does: the next ticker is tried.  On 402 or
\* 429 the run ends.
LoadFails(l) ==
  /\ loader[l].left # {} /\ Fault
  /\ \E kept \in {loader[l].left \ {Min(loader[l].left)}, {}} :
       loader' = [loader EXCEPT ![l].left = kept, ![l].clean = FALSE]
  /\ UNCHANGED <<available, priced, touched, loads>>

\* Runs that load everything that can be loaded, even if every one of them
\* asks for all the stuck tickers first.
RunsNeeded ==
  LET gain == Budget - Cardinality(Stuck)
  IN  (Cardinality(Loadable) + gain - 1) \div gain

LoadEnd(l) ==
  /\ loader[l].on /\ loader[l].left = {}
  /\ loader' = [loader EXCEPT ![l] = NotLoading]
  /\ loads' = IF l = "night" /\ loader[l].clean /\ loads < Tickers THEN loads + 1 ELSE loads
  /\ UNCHANGED <<available, priced, touched, faults>>

-----------------------------------------------------------------------------
(* Properties *)

\* Only symbols of loadable tickers are in the tables, and a run asks for no
\* more tickers than its budget.
UniverseTypeOK ==
  /\ available \subseteq Loadable /\ priced \subseteq All /\ touched \in BOOLEAN
  /\ loader \in [Loaders -> [on : BOOLEAN, held : SUBSET All, clean : BOOLEAN,
                              left : {S \in SUBSET All : Cardinality(S) <= Budget}]]
  /\ loads \in 0 .. Tickers /\ faults \in 0 .. MaxFaults

\* "Each run is capped at FMP_DAILY_BUDGET new symbols and resumes where it
\* stopped on the next run": however the boot's run and the nightly one
\* overlap, and whatever failed on other nights, ceil(n / b) undisturbed runs
\* load all n tickers that can be loaded, where b is the budget less the
\* tickers that never can be, as every run asks for those again.
EveryTickerLoads ==
  Cardinality(Stuck) < Budget /\ loads >= RunsNeeded => Loadable \subseteq available

\* Without the allowance for tickers that never load: TLC refutes it, for they
\* stay at the head of `missing` and, when there are as many as the budget,
\* nothing behind them is ever asked for.
ResumesWhereItStopped ==
  loads >= (Tickers + Budget - 1) \div Budget => Loadable \subseteq available
=============================================================================
