-------------------------------- MODULE Menu --------------------------------
(***************************************************************************)
(* The menu: the page of the bot with its buttons, and the server calls it *)
(* makes. Every call is answered later, by a callback, so that presses of  *)
(* buttons and answers interleave; a page that is reloaded leaves its run  *)
(* at work on the server. What a run does to an account is the subject of  *)
(* CostOfSales; here it returns a summary, or the whole call throws.       *)
(*                                                                         *)
(* The calls that fill the page when it is loaded are taken to succeed:    *)
(* they have no failure handler, and the page would stay disabled.         *)
(***************************************************************************)
EXTENDS Integers

CONSTANTS
    Pages,
    Accounts,   \* accounts of the goods, numbered in the order of their names
    Assets,     \* those of type ASSET
    Openings,   \* what pages are opened for: kind, and the accounts meant
    Jobs,       \* bounds the script runs at work at a time
    NoPage

Kinds == {"account", "group", "book"}

ASSUME MenuAssumption ==
    /\ Accounts \subseteq Int /\ Assets \subseteq Accounts /\ NoPage \notin Pages
    /\ Openings \subseteq [kind : Kinds, accounts : SUBSET Accounts]

VARIABLES
    inventory,  \* the accounts that exist in the Inventory Book
    page,       \* the pages
    job         \* the server calls of the buttons

vars == <<inventory, page, job>>

\* opened: what the page was opened for; load: the answer it waits for; context:
\* what contextParams names, none while it is undefined; listed: the accounts shown
\* when the page was loaded; answered: the kind of run whose results are shown;
\* results: the accounts with a result.
PageRecords ==
    [opened : Openings, load : {"location", "params", "accounts", "done"},
     enabled : BOOLEAN, context : Kinds \cup {"none"}, listed : SUBSET Accounts,
     answered : {"none", "calculate", "reset"}, results : SUBSET Accounts, alert : BOOLEAN]
NewPage(o) ==
    [opened |-> o, load |-> "location", enabled |-> TRUE, context |-> "none", listed |-> {},
     answered |-> "none", results |-> {}, alert |-> FALSE]

Calls == {"none", "validate", "fire", "work"}
\* context, of: what the page passes to the call, until the accounts are chosen.
JobRecords ==
    [pc : Calls, page : Pages \cup {NoPage}, kind : {"calculate", "reset"},
     context : Kinds \cup {"none"}, of : SUBSET Accounts,
     todo : SUBSET Accounts, done : SUBSET Accounts]
NoJob ==
    [pc |-> "none", page |-> NoPage, kind |-> "calculate", context |-> "none",
     of |-> {}, todo |-> {}, done |-> {}]

\* A run works on accounts of the Inventory Book only.
MenuTypeOK ==
    /\ inventory \subseteq Accounts
    /\ page \in [Pages -> PageRecords]
    /\ job \in [Jobs -> JobRecords]
    /\ \A j \in Jobs : job[j].todo \cup job[j].done \subseteq inventory

Init ==
    /\ inventory = {}
    /\ page \in [Pages -> {NewPage(o) : o \in Openings}]
    /\ job = [j \in Jobs |-> NoJob]

\* The event bot creates the account of a good.
CreateAccount(a) ==
    /\ a \notin inventory
    /\ inventory' = inventory \cup {a}
    /\ UNCHANGED <<page, job>>
------------------------------------------------------------------------------
(* Loading the page *)

\* Mutant: the buttons are not disabled while the page is loaded.
loadTemplate_Enabled(v) ==
    /\ page[v].load = "location"
    /\ page' = [page EXCEPT ![v].load = "params"]
    /\ UNCHANGED <<inventory, job>>

\* The location arrives: the buttons, enabled until now, are disabled.
loadTemplate(v) ==
    /\ page[v].load = "location"
    /\ page' = [page EXCEPT ![v].load = "params", ![v].enabled = FALSE]
    /\ UNCHANGED <<inventory, job>>

\* Mutant: the account is not looked up in the Inventory Book.
getContextParams_NoLookup(v) == page[v].opened.kind

\* An account that the Inventory Book does not have is left out, and what is left
\* names neither an account nor a group.
getContextParams(v) ==
    LET opened == page[v].opened
    IN  IF opened.kind = "account" /\ ~(opened.accounts \subseteq inventory)
        THEN "book" ELSE opened.kind

setParams(v) ==
    /\ page[v].load = "params"
    /\ page' = [page EXCEPT ![v].load = "accounts", ![v].context = getContextParams(v)]
    /\ UNCHANGED <<inventory, job>>

getAccountsToCalculate(context, accounts) ==
    CASE context = "account" -> accounts
      [] context = "group"   -> accounts \cap Assets \cap inventory
      [] OTHER               -> Assets \cap inventory

\* The reset takes no notice of the account or group the page was opened for, nor of
\* an account that is no asset, which a page opened for it lists.
getAccountsToReset == Assets \cap inventory

showAccountsList(v) ==
    /\ page[v].load = "accounts"
    /\ page' = [page EXCEPT
          ![v].load = "done", ![v].enabled = TRUE,
          ![v].listed = getAccountsToCalculate(page[v].context, page[v].opened.accounts)]
    /\ UNCHANGED <<inventory, job>>

\* The user loads the page again, or closes it and opens another. A call of it that
\* is at work goes on, and its answer is lost.
Reload(v) ==
    /\ \E o \in Openings : page' = [page EXCEPT ![v] = NewPage(o)]
    /\ job' = [j \in Jobs |-> IF job[j].page = v THEN [job[j] EXCEPT !.page = NoPage]
                              ELSE job[j]]
    /\ UNCHANGED inventory
------------------------------------------------------------------------------
(* The buttons *)

\* The user presses Calculate or Reset. Before contextParams has arrived the press
\* has no effect but to disable the buttons.
Press(v, kind) ==
    /\ page[v].enabled
    /\ page' = [page EXCEPT ![v].enabled = FALSE]
    /\ \/ /\ page[v].context = "none"
          /\ UNCHANGED job
       \/ /\ page[v].context # "none"
          /\ \E j \in Jobs :
                /\ job[j].pc = "none"
                /\ job' = [job EXCEPT ![j] =
                      [NoJob EXCEPT !.pc = "validate", !.page = v, !.kind = kind,
                                    !.context = page[v].context,
                                    !.of = page[v].opened.accounts]]
    /\ UNCHANGED inventory

\* An answer reaches the page that made the call, if it is still there.
Answer(j, to) ==
    /\ page' = IF job[j].page = NoPage THEN page
               ELSE [page EXCEPT ![job[j].page] = to]
    /\ job' = [job EXCEPT ![j] = NoJob]
    /\ UNCHANGED inventory

showError(j) == Answer(j, [page[job[j].page] EXCEPT !.alert = TRUE])

\* Mutant: validate is called without a failure handler.
validate_NoFailureHandler(j) ==
    /\ job[j].pc = "validate"
    /\ \/ /\ job' = [job EXCEPT ![j].pc = "fire"]
          /\ UNCHANGED <<inventory, page>>
       \/ /\ job' = [job EXCEPT ![j] = NoJob]
          /\ UNCHANGED <<inventory, page>>

\* validate throws when the Inventory Book has a backlog. When it returns to a page
\* that is still there, the page fires the run.
validate(j) ==
    /\ job[j].pc = "validate"
    /\ \/ /\ job[j].page # NoPage
          /\ job' = [job EXCEPT ![j].pc = "fire"]
          /\ UNCHANGED <<inventory, page>>
       \/ /\ job[j].page = NoPage
          /\ job' = [job EXCEPT ![j] = NoJob]
          /\ UNCHANGED <<inventory, page>>
       \/ showError(j)

\* calculateCostOfSales and resetCostOfSales choose the accounts.
fireForAll(j) ==
    /\ job[j].pc = "fire"
    /\ job' = [job EXCEPT ![j].pc = "work", ![j].context = "none", ![j].of = {},
          ![j].todo = IF job[j].kind = "reset" THEN getAccountsToReset
                      ELSE getAccountsToCalculate(job[j].context, job[j].of)]
    /\ UNCHANGED <<inventory, page>>

\* What a summary says: what was done (calculated, reset, nothing to calculate), or
\* that the account cannot be processed (locked, not enough stock, no book).
Summaries == {"proceeded", "cannot proceed"}

\* Mutant: a run ends with the first account that cannot be processed.
Rest_UntilRefusal(j, a, summary) == IF summary = "cannot proceed" THEN {} ELSE job[j].todo \ {a}

\* The accounts still to be processed after a, whatever its summary says.
Rest(j, a, summary) == job[j].todo \ {a}

\* The next account, in the order of their names, is processed.
ProcessAccount(j) ==
    /\ job[j].pc = "work"
    /\ \E a \in job[j].todo, summary \in Summaries :
          /\ \A b \in job[j].todo : a <= b
          /\ job' = [job EXCEPT ![j].todo = Rest(j, a, summary), ![j].done = @ \cup {a}]
    /\ UNCHANGED <<inventory, page>>

showResults(j) ==
    /\ job[j].pc = "work" /\ job[j].todo = {}
    /\ Answer(j, [page[job[j].page] EXCEPT !.answered = job[j].kind,
                                           !.results = job[j].done, !.enabled = TRUE])

\* The run is cut off, or a call to Bkper fails: the accounts processed so far stay
\* processed, their summaries are lost.
RunFails(j) ==
    /\ job[j].pc \in {"fire", "work"}
    /\ showError(j)
------------------------------------------------------------------------------
(* Specification *)

LoadStep(v) == loadTemplate(v) \/ setParams(v) \/ showAccountsList(v)

JobStep(j) ==
    validate(j) \/ fireForAll(j) \/ ProcessAccount(j) \/ showResults(j) \/ RunFails(j)

Next ==
    \/ \E a \in Accounts : CreateAccount(a)
    \/ \E v \in Pages : LoadStep(v) \/ Reload(v)
    \/ \E v \in Pages, kind \in {"calculate", "reset"} : Press(v, kind)
    \/ \E j \in Jobs : JobStep(j)

Spec == Init /\ [][Next]_vars

\* The server answers every call of a page, with a result or an error. Nothing
\* makes users press a button.
FairSpec ==
    /\ Spec
    /\ \A v \in Pages : WF_vars(LoadStep(v))
    /\ \A j \in Jobs : WF_vars(JobStep(j))
------------------------------------------------------------------------------
(* Properties *)

\* A page never has two runs at work, and its buttons are disabled while it has
\* one, whatever is pressed while the page is being loaded.
OneRunPerPage ==
    \A v \in Pages :
        /\ \A i, j \in Jobs : job[i].page = v /\ job[j].page = v => i = j
        /\ page[v].enabled => \A j \in Jobs : job[j].page # v

\* The listed accounts that a run of this kind is about: a reset leaves an account
\* alone that is no asset, also on the page that was opened for it.
Due(kind, listed) == IF kind = "reset" THEN listed \cap Assets ELSE listed

\* The results of a run cover every account that the page has listed, also when one
\* of them could not be processed, but for a listed account that is no asset, which
\* a reset passes over in silence.
ListedAccountsAnswered ==
    \A v \in Pages : page[v].answered # "none" =>
        Due(page[v].answered, page[v].listed) \subseteq page[v].results

\* Disabled buttons come back, or an error has been shown: no press and no answer
\* leaves the user waiting for ever.
ButtonsComeBack == \A v \in Pages : ~page[v].enabled ~> page[v].enabled \/ page[v].alert
==============================================================================
