----------------------------- MODULE MenuProofs -----------------------------
(***************************************************************************)
(* Proofs that a page of the menu never has two script runs at work, and   *)
(* that results cover every account the page has listed, for any number of *)
(* pages, accounts and runs, whatever is pressed while a page is being     *)
(* loaded and whenever it is loaded again.                                 *)
(***************************************************************************)
EXTENDS Menu, TLAPS

\* Records have their types: MenuTypeOK without the relation to the inventory.
RecordsOK == page \in [Pages -> PageRecords] /\ job \in [Jobs -> JobRecords]

\* contextParams is undefined until the page has received it, and the buttons are
\* disabled from the arrival of the location to the end of the loading. A page with
\* a run at work has been loaded, and its buttons are disabled.
PageInv ==
    \A v \in Pages :
        /\ page[v].load \in {"location", "params"} => page[v].context = "none"
        /\ page[v].load \in {"params", "accounts"} => ~page[v].enabled
        /\ \A j \in Jobs : job[j].page = v => page[v].load = "done" /\ ~page[v].enabled

OneJob == \A i, j \in Jobs : job[i].page = job[j].page /\ job[i].page \in Pages => i = j

MenuInv == RecordsOK /\ PageInv /\ OneJob

LEMMA NewRecords == (\A o \in Openings : NewPage(o) \in PageRecords) /\ NoJob \in JobRecords
  BY DEF NewPage, PageRecords, NoJob, JobRecords, Calls, Kinds

LEMMA MenuInvSafe == MenuInv => OneRunPerPage
  BY DEF MenuInv, PageInv, OneJob, OneRunPerPage

\* An answer: the job is gone, and nothing else has changed but its page, which may
\* have enabled its buttons.
LEMMA AnswerInv ==
    ASSUME MenuInv, NEW j \in Jobs, NEW to, Answer(j, to),
           job[j].page # NoPage =>
              /\ to \in PageRecords /\ to.load = page[job[j].page].load
              /\ to.context = page[job[j].page].context
    PROVE  MenuInv'
  <1>1. job \in [Jobs -> JobRecords] /\ page \in [Pages -> PageRecords]
    BY DEF MenuInv, RecordsOK
  <1>2. job' = [job EXCEPT ![j] = NoJob] /\ job'[j] = NoJob
    BY <1>1 DEF Answer
  <1>3. NoJob.page = NoPage /\ NoPage \notin Pages
    BY MenuAssumption DEF NoJob
  <1>4. CASE job[j].page = NoPage
    <2>1. UNCHANGED page
      BY <1>4 DEF Answer
    <2>2. RecordsOK'
      BY <1>1, <1>2, <2>1, NewRecords DEF RecordsOK
    <2>3. PageInv' /\ OneJob'
      BY <1>1, <1>2, <1>3, <2>1 DEF MenuInv, PageInv, OneJob
    <2>4. QED
      BY <2>2, <2>3 DEF MenuInv
  <1>5. CASE job[j].page # NoPage
    <2>1. job[j].page \in Pages
      BY <1>1, <1>5 DEF JobRecords
    <2>2. page' = [page EXCEPT ![job[j].page] = to]
      BY <1>5 DEF Answer
    <2>3. /\ to \in PageRecords /\ to.load = page[job[j].page].load
          /\ to.context = page[job[j].page].context /\ to.load = "done"
      BY <1>5, <2>1 DEF MenuInv, PageInv
    <2>4. RecordsOK'
      BY <1>1, <1>2, <2>2, <2>3, NewRecords DEF RecordsOK
    <2>5. \A i \in Jobs : i # j => job[i].page # job[j].page
      BY <2>1 DEF MenuInv, OneJob
    <2>6. PageInv'
      BY <1>1, <1>2, <1>3, <2>1, <2>2, <2>3, <2>5 DEF MenuInv, PageInv
    <2>7. OneJob'
      BY <1>1, <1>2, <1>3 DEF MenuInv, OneJob
    <2>8. QED
      BY <2>4, <2>6, <2>7 DEF MenuInv
  <1>6. QED
    BY <1>4, <1>5

LEMMA ErrorInv ==
    ASSUME MenuInv, NEW j \in Jobs, showError(j)
    PROVE  MenuInv'
  <1> DEFINE to == [page[job[j].page] EXCEPT !.alert = TRUE]
  <1>1. Answer(j, to)
    BY DEF showError
  <1>2. ASSUME job[j].page # NoPage
        PROVE  /\ to \in PageRecords /\ to.load = page[job[j].page].load
               /\ to.context = page[job[j].page].context
    <2>1. page[job[j].page] \in PageRecords
      BY <1>2 DEF MenuInv, RecordsOK, JobRecords
    <2>2. QED
      BY <2>1 DEF PageRecords
  <1> HIDE DEF to
  <1>3. QED
    BY <1>1, <1>2, AnswerInv

\* A step of a job that stays with its page.
LEMMA JobGoesOn ==
    ASSUME MenuInv, NEW j \in Jobs, NEW new \in JobRecords, new.page = job[j].page,
           job' = [job EXCEPT ![j] = new], UNCHANGED page
    PROVE  MenuInv'
  <1>1. job \in [Jobs -> JobRecords]
    BY DEF MenuInv, RecordsOK
  <1>2. job'[j] = new /\ \A i \in Jobs : job'[i].page = job[i].page
    BY <1>1
  <1>3. RecordsOK'
    BY <1>1 DEF MenuInv, RecordsOK
  <1>4. QED
    BY <1>2, <1>3 DEF MenuInv, PageInv, OneJob

\* A step that changes one page.
LEMMA PageReplaced ==
    ASSUME page \in [Pages -> PageRecords], NEW v \in Pages, NEW new \in PageRecords,
           page' = [page EXCEPT ![v] = new]
    PROVE  /\ page' \in [Pages -> PageRecords] /\ page'[v] = new
           /\ \A w \in Pages : w # v => page'[w] = page[w]
  OBVIOUS

\* A page that is loaded again forgets its run.
LEMMA ReloadInv ==
    ASSUME MenuInv, NEW v \in Pages, Reload(v)
    PROVE  MenuInv'
  <1>1. job \in [Jobs -> JobRecords] /\ page \in [Pages -> PageRecords]
    BY DEF MenuInv, RecordsOK
  <1>2. PICK o \in Openings : page' = [page EXCEPT ![v] = NewPage(o)]
    BY DEF Reload
  <1>p. page' \in [Pages -> PageRecords]
    BY <1>1, <1>2, NewRecords
  <1>3. job' \in [Jobs -> JobRecords]
    BY <1>1 DEF Reload, JobRecords
  <1>4. \A i \in Jobs : \/ job[i].page = v /\ job'[i].page = NoPage
                        \/ job[i].page # v /\ job'[i].page = job[i].page
    BY <1>1 DEF Reload, JobRecords
  <1>5. PageInv' /\ OneJob'
    BY <1>1, <1>2, <1>4, MenuAssumption DEF MenuInv, PageInv, OneJob, NewPage
  <1>6. QED
    BY <1>p, <1>3, <1>5 DEF MenuInv, RecordsOK

\* A press starts a run on a page that has none: its buttons are enabled.
LEMMA PressInv ==
    ASSUME MenuInv, NEW v \in Pages, NEW kind \in {"calculate", "reset"}, Press(v, kind)
    PROVE  MenuInv'
  <1>1. job \in [Jobs -> JobRecords] /\ page \in [Pages -> PageRecords]
    BY DEF MenuInv, RecordsOK
  <1> DEFINE new == [page[v] EXCEPT !.enabled = FALSE]
  <1>n. /\ new \in PageRecords /\ new.load = page[v].load /\ new.context = page[v].context
        /\ ~new.enabled
    BY <1>1 DEF PageRecords
  <1>p. page' = [page EXCEPT ![v] = new] /\ page[v].enabled
    BY <1>1 DEF Press
  <1> HIDE DEF new
  <1>2. /\ page' \in [Pages -> PageRecords] /\ page'[v] = new /\ page[v].enabled
        /\ \A w \in Pages : w # v => page'[w] = page[w]
    BY <1>1, <1>n, <1>p, PageReplaced
  <1>3. /\ \A w \in Pages : /\ page'[w].load = page[w].load
                            /\ page'[w].context = page[w].context
                            /\ w # v => page'[w].enabled = page[w].enabled
        /\ ~page'[v].enabled
    BY <1>n, <1>2
  <1>4. CASE UNCHANGED job
    <2>1. PageInv'
      BY <1>3, <1>4 DEF MenuInv, PageInv
    <2>2. OneJob' /\ RecordsOK'
      BY <1>1, <1>2, <1>4 DEF MenuInv, RecordsOK, OneJob
    <2>3. QED
      BY <2>1, <2>2 DEF MenuInv
  <1>5. ASSUME NEW j \in Jobs, page[v].context # "none",
               job' = [job EXCEPT ![j] =
                  [NoJob EXCEPT !.pc = "validate", !.page = v, !.kind = kind,
                                !.context = page[v].context, !.of = page[v].opened.accounts]]
        PROVE  MenuInv'
    <2>1. [NoJob EXCEPT !.pc = "validate", !.page = v, !.kind = kind,
                        !.context = page[v].context, !.of = page[v].opened.accounts] \in JobRecords
      <3>1. /\ page[v].context \in Kinds \cup {"none"}
            /\ page[v].opened.accounts \in SUBSET Accounts
        BY <1>1, MenuAssumption DEF PageRecords
      <3>2. QED
        BY <3>1 DEF NoJob, JobRecords, Calls
    <2>2. job' \in [Jobs -> JobRecords] /\ job'[j].page = v
      BY <1>1, <1>5, <2>1 DEF NoJob
    <2>3. \A i \in Jobs : i # j => job'[i] = job[i]
      BY <1>1, <1>5
    <2>4. page[v].load = "done"
      <3>1. page[v].load \in {"location", "params", "accounts", "done"}
        BY <1>1 DEF PageRecords
      <3>2. QED
        BY <3>1, <1>2, <1>5 DEF MenuInv, PageInv
    <2>5. \A i \in Jobs : job[i].page # v
      BY <1>2 DEF MenuInv, PageInv
    <2>6. PageInv'
      BY <1>3, <2>2, <2>3, <2>4 DEF MenuInv, PageInv
    <2>7. OneJob'
      BY <2>2, <2>3, <2>5 DEF MenuInv, OneJob
    <2>8. QED
      BY <1>2, <2>2, <2>6, <2>7 DEF MenuInv, RecordsOK
  <1>6. QED
    BY <1>4, <1>5 DEF Press

\* The answers that load a page.
LEMMA LoadInv ==
    ASSUME MenuInv, NEW v \in Pages, LoadStep(v)
    PROVE  MenuInv'
  <1>1. page \in [Pages -> PageRecords] /\ UNCHANGED job
    BY DEF MenuInv, RecordsOK, LoadStep, loadTemplate, setParams, showAccountsList
  <1>2. CASE loadTemplate(v)
    <2> DEFINE new == [page[v] EXCEPT !.load = "params", !.enabled = FALSE]
    <2>n. /\ new \in PageRecords /\ new.load = "params" /\ ~new.enabled
          /\ new.context = page[v].context
      BY <1>1 DEF PageRecords
    <2>p. page' = [page EXCEPT ![v] = new] /\ page[v].load = "location"
      BY <1>1, <1>2 DEF loadTemplate
    <2> HIDE DEF new
    <2>1. page[v].load = "location" /\ page' \in [Pages -> PageRecords]
      BY <1>1, <2>n, <2>p, PageReplaced
    <2>2. /\ page'[v].load = "params" /\ ~page'[v].enabled
          /\ page'[v].context = page[v].context
          /\ \A w \in Pages : w # v => page'[w] = page[w]
      BY <1>1, <2>n, <2>p, PageReplaced
    <2>3. QED
      <3>1. PageInv'
        BY <1>1, <2>1, <2>2 DEF MenuInv, PageInv
      <3>2. OneJob' /\ RecordsOK'
        BY <1>1, <2>1 DEF MenuInv, RecordsOK, OneJob
      <3>3. QED
        BY <3>1, <3>2 DEF MenuInv
  <1>3. CASE setParams(v)
    <2>1. getContextParams(v) \in Kinds
      BY <1>1, MenuAssumption DEF PageRecords, getContextParams, Kinds
    <2> DEFINE new == [page[v] EXCEPT !.load = "accounts", !.context = getContextParams(v)]
    <2>n. new \in PageRecords /\ new.load = "accounts" /\ new.enabled = page[v].enabled
      BY <1>1, <2>1 DEF PageRecords
    <2>p. page' = [page EXCEPT ![v] = new] /\ page[v].load = "params"
      BY <1>1, <1>3 DEF setParams
    <2> HIDE DEF new
    <2>2. page[v].load = "params" /\ page' \in [Pages -> PageRecords]
      BY <1>1, <2>n, <2>p, PageReplaced
    <2>3. /\ page'[v].load = "accounts" /\ page'[v].enabled = page[v].enabled
          /\ \A w \in Pages : w # v => page'[w] = page[w]
      BY <1>1, <2>n, <2>p, PageReplaced
    <2>4. QED
      <3>1. PageInv'
        BY <1>1, <2>2, <2>3 DEF MenuInv, PageInv
      <3>2. OneJob' /\ RecordsOK'
        BY <1>1, <2>2 DEF MenuInv, RecordsOK, OneJob
      <3>3. QED
        BY <3>1, <3>2 DEF MenuInv
  <1>4. CASE showAccountsList(v)
    <2>1. getAccountsToCalculate(page[v].context, page[v].opened.accounts) \subseteq Accounts
      BY <1>1, MenuAssumption DEF getAccountsToCalculate, PageRecords
    <2> DEFINE listed == getAccountsToCalculate(page[v].context, page[v].opened.accounts)
               new == [page[v] EXCEPT !.load = "done", !.enabled = TRUE, !.listed = listed]
    <2>p. page' = [page EXCEPT ![v] = new] /\ page[v].load = "accounts"
      BY <1>1, <1>4 DEF showAccountsList
    <2> HIDE DEF listed
    <2>n. new \in PageRecords /\ new.load = "done"
      BY <1>1, <2>1 DEF PageRecords, listed
    <2> HIDE DEF new
    <2>2. /\ page[v].load = "accounts" /\ page' \in [Pages -> PageRecords]
          /\ page'[v].load = "done"
          /\ \A w \in Pages : w # v => page'[w] = page[w]
      BY <1>1, <2>n, <2>p, PageReplaced
    <2>3. \A j \in Jobs : job[j].page # v
      BY <2>2 DEF MenuInv, PageInv
    <2>4. QED
      <3>1. PageInv'
        BY <1>1, <2>2, <2>3 DEF MenuInv, PageInv
      <3>2. OneJob' /\ RecordsOK'
        BY <1>1, <2>2 DEF MenuInv, RecordsOK, OneJob
      <3>3. QED
        BY <3>1, <3>2 DEF MenuInv
  <1>5. QED
    BY <1>2, <1>3, <1>4 DEF LoadStep

\* The steps of a run.
LEMMA JobInv ==
    ASSUME MenuInv, inventory \subseteq Accounts, NEW j \in Jobs, JobStep(j)
    PROVE  MenuInv'
  <1>1. job \in [Jobs -> JobRecords] /\ job[j] \in JobRecords
    BY DEF MenuInv, RecordsOK
  <1>2. CASE validate(j)
    <2>1. CASE showError(j)
      BY <2>1, ErrorInv
    <2>2. CASE job' = [job EXCEPT ![j].pc = "fire"] /\ UNCHANGED page
      <3> DEFINE new == [job[j] EXCEPT !.pc = "fire"]
      <3>1. new \in JobRecords /\ new.page = job[j].page /\ job' = [job EXCEPT ![j] = new]
        BY <1>1, <2>2 DEF JobRecords, Calls
      <3> HIDE DEF new
      <3>2. QED
        BY <2>2, <3>1, JobGoesOn
    <2>3. CASE job[j].page = NoPage /\ job' = [job EXCEPT ![j] = NoJob] /\ UNCHANGED page
      <3>1. NoJob \in JobRecords /\ NoJob.page = job[j].page
        BY <2>3, NewRecords DEF NoJob
      <3>2. QED
        BY <2>3, <3>1, JobGoesOn
    <2>4. QED
      BY <1>2, <2>1, <2>2, <2>3 DEF validate
  <1>3. CASE fireForAll(j)
    <2> DEFINE todo == IF job[j].kind = "reset" THEN getAccountsToReset
                       ELSE getAccountsToCalculate(job[j].context, job[j].of)
               new == [job[j] EXCEPT !.pc = "work", !.context = "none", !.of = {}, !.todo = todo]
    <2>1. todo \subseteq Accounts
      BY <1>1, MenuAssumption DEF getAccountsToReset, getAccountsToCalculate, JobRecords
    <2>2. job' = [job EXCEPT ![j] = new] /\ UNCHANGED page
      BY <1>1, <1>3 DEF fireForAll
    <2> HIDE DEF todo
    <2>3. new \in JobRecords /\ new.page = job[j].page
      BY <1>1, <2>1 DEF JobRecords, Calls
    <2> HIDE DEF new
    <2>4. QED
      BY <2>2, <2>3, JobGoesOn
  <1>4. CASE ProcessAccount(j)
    <2>1. PICK a \in job[j].todo :
             /\ job' = [job EXCEPT ![j].todo = job[j].todo \ {a}, ![j].done = @ \cup {a}]
             /\ UNCHANGED page
      BY <1>4 DEF ProcessAccount, Rest
    <2> DEFINE new == [job[j] EXCEPT !.todo = job[j].todo \ {a}, !.done = @ \cup {a}]
    <2>2. new \in JobRecords /\ new.page = job[j].page /\ job' = [job EXCEPT ![j] = new]
      BY <1>1, <2>1 DEF JobRecords
    <2> HIDE DEF new
    <2>3. QED
      BY <2>1, <2>2, JobGoesOn
  <1>5. CASE showResults(j)
    <2> DEFINE to == [page[job[j].page] EXCEPT !.answered = job[j].kind,
                                               !.results = job[j].done, !.enabled = TRUE]
    <2>1. Answer(j, to)
      BY <1>5 DEF showResults
    <2>2. ASSUME job[j].page # NoPage
          PROVE  /\ to \in PageRecords /\ to.load = page[job[j].page].load
                 /\ to.context = page[job[j].page].context
      <3>1. /\ page[job[j].page] \in PageRecords /\ job[j].done \subseteq Accounts
            /\ job[j].kind \in {"calculate", "reset"}
        BY <1>1, <2>2 DEF MenuInv, RecordsOK, JobRecords
      <3>2. QED
        BY <3>1 DEF PageRecords
    <2> HIDE DEF to
    <2>3. QED
      BY <2>1, <2>2, AnswerInv
  <1>6. CASE RunFails(j)
    BY <1>6, ErrorInv DEF RunFails
  <1>7. QED
    BY <1>2, <1>3, <1>4, <1>5, <1>6 DEF JobStep

LEMMA MenuInvariant == Spec => [](inventory \subseteq Accounts /\ MenuInv)
  <1> DEFINE Inv == inventory \subseteq Accounts /\ MenuInv
  <1>1. Init => Inv
    <2> SUFFICES ASSUME Init PROVE Inv
      OBVIOUS
    <2>p. \A v \in Pages : \E o \in Openings : page[v] = NewPage(o)
      BY DEF Init
    <2>1. RecordsOK
      BY NewRecords DEF Init, RecordsOK
    <2>2. PageInv /\ OneJob
      BY <2>p, MenuAssumption DEF Init, PageInv, OneJob, NewPage, NoJob
    <2>3. QED
      BY <2>1, <2>2 DEF Init, MenuInv
  <1>2. Inv /\ [Next]_vars => Inv'
    <2> SUFFICES ASSUME Inv, [Next]_vars PROVE Inv'
      OBVIOUS
    <2>1. ASSUME NEW a \in Accounts, CreateAccount(a) PROVE Inv'
      BY <2>1 DEF CreateAccount, MenuInv, RecordsOK, PageInv, OneJob
    <2>2. ASSUME NEW v \in Pages, LoadStep(v) PROVE Inv'
      <3>1. UNCHANGED inventory
        BY <2>2 DEF LoadStep, loadTemplate, setParams, showAccountsList
      <3>2. QED
        BY <2>2, <3>1, LoadInv
    <2>3. ASSUME NEW v \in Pages, Reload(v) PROVE Inv'
      <3>1. UNCHANGED inventory
        BY <2>3 DEF Reload
      <3>2. QED
        BY <2>3, <3>1, ReloadInv
    <2>4. ASSUME NEW v \in Pages, NEW kind \in {"calculate", "reset"}, Press(v, kind)
          PROVE  Inv'
      <3>1. UNCHANGED inventory
        BY <2>4 DEF Press
      <3>2. QED
        BY <2>4, <3>1, PressInv
    <2>5. ASSUME NEW j \in Jobs, JobStep(j) PROVE Inv'
      <3>1. UNCHANGED inventory
        BY <2>5 DEF JobStep, validate, fireForAll, ProcessAccount, showResults, RunFails,
                    showError, Answer
      <3>2. QED
        BY <2>5, <3>1, JobInv
    <2>6. CASE UNCHANGED vars
      BY <2>6 DEF vars, MenuInv, RecordsOK, PageInv, OneJob
    <2>7. QED
      BY <2>1, <2>2, <2>3, <2>4, <2>5, <2>6 DEF Next
  <1>3. QED
    BY <1>1, <1>2, PTL DEF Spec

\* A page never has two script runs at work, and its buttons are disabled while it
\* has one: pressing a button early, late or on a page loaded again starts no second
\* run whose answer the page would take for that of the first.
THEOREM OneRun == Spec => []OneRunPerPage
  BY MenuInvariant, MenuInvSafe, PTL
------------------------------------------------------------------------------
(* What a run covers *)

\* A page lists, and has listed, only accounts that a calculation of it would take;
\* results cover them.
PageList(v) ==
    /\ page[v].context = "account" => page[v].opened.accounts \subseteq inventory
    /\ page[v].load # "done" => page[v].listed = {} /\ page[v].answered = "none"
    /\ page[v].listed \subseteq getAccountsToCalculate(page[v].context, page[v].opened.accounts)
    /\ page[v].answered # "none" =>
          Due(page[v].answered, page[v].listed) \subseteq page[v].results

\* A run has the context of its page, works on accounts of the Inventory Book only,
\* and on all that its page has listed.
JobList(j) ==
    /\ job[j].context = "account" => job[j].of \subseteq inventory
    /\ job[j].todo \cup job[j].done \subseteq inventory
    /\ job[j].page \in Pages =>
          /\ job[j].pc # "work" =>
                /\ job[j].context = page[job[j].page].context
                /\ job[j].of = page[job[j].page].opened.accounts
          /\ job[j].pc = "work" =>
                Due(job[j].kind, page[job[j].page].listed) \subseteq job[j].todo \cup job[j].done

ListInv == (\A v \in Pages : PageList(v)) /\ (\A j \in Jobs : JobList(j))

\* A page that stays as it is, but for its buttons and alerts.
LEMMA PageKept ==
    ASSUME inventory \subseteq inventory', NEW v, PageList(v),
           page'[v].opened = page[v].opened, page'[v].context = page[v].context,
           page'[v].load = page[v].load, page'[v].listed = page[v].listed,
           \/ page'[v].answered = page[v].answered /\ page'[v].results = page[v].results
           \/ page[v].load = "done" /\ Due(page'[v].answered, page[v].listed) \subseteq page'[v].results
    PROVE  PageList(v)'
  <1>1. getAccountsToCalculate(page[v].context, page[v].opened.accounts)
          \subseteq getAccountsToCalculate(page[v].context, page[v].opened.accounts)'
    BY DEF getAccountsToCalculate
  <1>2. QED
    BY <1>1 DEF PageList, getAccountsToCalculate

\* A run that stays as it is, on a page that has the same context and the same list.
LEMMA JobKept ==
    ASSUME inventory \subseteq inventory', NEW j, JobList(j), job'[j] = job[j],
           job[j].page \in Pages =>
              /\ page'[job[j].page].context = page[job[j].page].context
              /\ page'[job[j].page].opened = page[job[j].page].opened
              /\ page'[job[j].page].listed = page[job[j].page].listed
    PROVE  JobList(j)'
  BY DEF JobList

LEMMA LoadList ==
    ASSUME MenuInv, ListInv, NEW v \in Pages, LoadStep(v)
    PROVE  ListInv'
  <1>1. /\ page \in [Pages -> PageRecords] /\ page[v] \in PageRecords
        /\ UNCHANGED <<job, inventory>> /\ page[v].load # "done"
    BY DEF MenuInv, RecordsOK, LoadStep, loadTemplate, setParams, showAccountsList
  <1>2. \A w \in Pages : w # v => page'[w] = page[w]
    BY <1>1 DEF LoadStep, loadTemplate, setParams, showAccountsList
  <1>3. \A j \in Jobs : job[j].page # v
    BY <1>1 DEF MenuInv, PageInv
  <1>4. \A j \in Jobs : JobList(j)'
    BY <1>1, <1>2, <1>3, JobKept DEF ListInv
  <1>5. PageList(v)'
    <2>1. CASE loadTemplate(v)
      <3>1. /\ page'[v].opened = page[v].opened /\ page'[v].context = page[v].context
            /\ page'[v].load = "params" /\ page'[v].listed = page[v].listed
            /\ page'[v].answered = page[v].answered /\ page'[v].results = page[v].results
        BY <1>1, <2>1 DEF loadTemplate, PageRecords
      <3>2. QED
        BY <1>1, <3>1 DEF ListInv, PageList, getAccountsToCalculate
    <2>2. CASE setParams(v)
      <3>1. /\ page'[v].opened = page[v].opened /\ page'[v].context = getContextParams(v)
            /\ page'[v].load = "accounts" /\ page'[v].listed = page[v].listed
            /\ page'[v].answered = page[v].answered
        BY <1>1, <2>2 DEF setParams, PageRecords
      <3>2. getContextParams(v) = "account" =>
               page[v].opened.accounts \subseteq inventory
        BY <1>1, MenuAssumption DEF getContextParams, PageRecords
      <3>3. page[v].listed = {} /\ page[v].answered = "none"
        BY <1>1 DEF ListInv, PageList
      <3>4. QED
        BY <1>1, <3>1, <3>2, <3>3 DEF PageList
    <2>3. CASE showAccountsList(v)
      <3>1. /\ page'[v].opened = page[v].opened /\ page'[v].context = page[v].context
            /\ page'[v].load = "done" /\ page'[v].answered = page[v].answered
            /\ page'[v].listed = getAccountsToCalculate(page[v].context, page[v].opened.accounts)
        BY <1>1, <2>3 DEF showAccountsList, PageRecords
      <3>2. page[v].answered = "none"
        BY <1>1 DEF ListInv, PageList
      <3>3. QED
        BY <1>1, <3>1, <3>2 DEF ListInv, PageList, getAccountsToCalculate
    <2>4. QED
      BY <2>1, <2>2, <2>3 DEF LoadStep
  <1>6. \A w \in Pages : w # v => PageList(w)'
    BY <1>1, <1>2, PageKept DEF ListInv
  <1>7. QED
    BY <1>4, <1>5, <1>6 DEF ListInv

LEMMA ReloadList ==
    ASSUME MenuInv, ListInv, NEW v \in Pages, Reload(v)
    PROVE  ListInv'
  <1>1. /\ job \in [Jobs -> JobRecords] /\ page \in [Pages -> PageRecords]
        /\ UNCHANGED inventory /\ NoPage \notin Pages
    BY MenuAssumption DEF MenuInv, RecordsOK, Reload
  <1>2. PICK o \in Openings : page' = [page EXCEPT ![v] = NewPage(o)]
    BY DEF Reload
  <1>3. page'[v] = NewPage(o) /\ \A w \in Pages : w # v => page'[w] = page[w]
    BY <1>1, <1>2
  <1>4. PageList(v)'
    BY <1>3 DEF PageList, NewPage
  <1>5. \A w \in Pages : w # v => PageList(w)'
    BY <1>1, <1>3, PageKept DEF ListInv
  <1>6. ASSUME NEW j \in Jobs, job[j].page = v PROVE JobList(j)'
    <2>1. /\ job'[j].page = NoPage /\ job'[j].context = job[j].context
          /\ job'[j].of = job[j].of /\ job'[j].todo = job[j].todo
          /\ job'[j].done = job[j].done
      BY <1>1, <1>6 DEF Reload, JobRecords
    <2>2. QED
      BY <1>1, <2>1 DEF ListInv, JobList
  <1>7. ASSUME NEW j \in Jobs, job[j].page # v PROVE JobList(j)'
    <2>1. job'[j] = job[j]
      BY <1>7 DEF Reload
    <2>2. QED
      BY <1>1, <1>3, <1>7, <2>1, JobKept DEF ListInv
  <1>8. QED
    BY <1>4, <1>5, <1>6, <1>7 DEF ListInv

LEMMA PressList ==
    ASSUME MenuInv, ListInv, NEW v \in Pages, NEW kind \in {"calculate", "reset"}, Press(v, kind)
    PROVE  ListInv'
  <1>1. /\ job \in [Jobs -> JobRecords] /\ page \in [Pages -> PageRecords]
        /\ UNCHANGED inventory
    BY DEF MenuInv, RecordsOK, Press
  <1>2. \A w \in Pages : /\ page'[w].opened = page[w].opened
                         /\ page'[w].context = page[w].context
                         /\ page'[w].load = page[w].load /\ page'[w].listed = page[w].listed
                         /\ page'[w].answered = page[w].answered
                         /\ page'[w].results = page[w].results
    BY <1>1 DEF Press, PageRecords
  <1>3. \A w \in Pages : PageList(w)'
    BY <1>1, <1>2, PageKept DEF ListInv
  <1>4. ASSUME NEW j \in Jobs, job'[j] = job[j] PROVE JobList(j)'
    BY <1>1, <1>2, <1>4, JobKept DEF ListInv
  <1>5. ASSUME NEW j \in Jobs, job'[j] # job[j] PROVE JobList(j)'
    <2>1. job'[j] = [NoJob EXCEPT !.pc = "validate", !.page = v, !.kind = kind,
                                  !.context = page[v].context,
                                  !.of = page[v].opened.accounts]
      BY <1>1, <1>5 DEF Press
    <2>2. /\ job'[j].pc = "validate" /\ job'[j].page = v /\ job'[j].context = page[v].context
          /\ job'[j].of = page[v].opened.accounts /\ job'[j].todo = {} /\ job'[j].done = {}
      BY <2>1 DEF NoJob
    <2>3. PageList(v)
      BY DEF ListInv
    <2>4. QED
      BY <1>1, <1>2, <2>2, <2>3 DEF JobList, PageList
  <1>6. QED
    BY <1>3, <1>4, <1>5 DEF ListInv

\* A step of run j that leaves the pages alone.
LEMMA OnlyJob ==
    ASSUME MenuInv, ListInv, NEW j \in Jobs, NEW new, job' = [job EXCEPT ![j] = new],
           UNCHANGED <<inventory, page>>, job'[j] = new => JobList(j)'
    PROVE  ListInv'
  <1>1. job'[j] = new /\ \A i \in Jobs : i # j => job'[i] = job[i]
    BY DEF MenuInv, RecordsOK
  <1>2. \A i \in Jobs : i # j => JobList(i)'
    BY <1>1, JobKept DEF ListInv
  <1>3. \A v \in Pages : PageList(v)'
    BY PageKept DEF ListInv
  <1>4. QED
    BY <1>1, <1>2, <1>3 DEF ListInv

\* The end of run j: its page keeps its list, and any results cover it.
LEMMA AnswerList ==
    ASSUME MenuInv, ListInv, NEW j \in Jobs, NEW to, Answer(j, to),
           job[j].page # NoPage =>
              /\ to.opened = page[job[j].page].opened /\ to.context = page[job[j].page].context
              /\ to.load = page[job[j].page].load /\ to.listed = page[job[j].page].listed
              /\ \/ /\ to.answered = page[job[j].page].answered
                    /\ to.results = page[job[j].page].results
                 \/ Due(to.answered, page[job[j].page].listed) \subseteq to.results
    PROVE  ListInv'
  <1>1. /\ job \in [Jobs -> JobRecords] /\ page \in [Pages -> PageRecords]
        /\ UNCHANGED inventory /\ NoPage \notin Pages
        /\ job'[j] = NoJob /\ \A i \in Jobs : i # j => job'[i] = job[i]
    BY MenuAssumption DEF MenuInv, RecordsOK, Answer
  <1>2. JobList(j)'
    BY <1>1 DEF JobList, NoJob
  <1>3. \A w \in Pages : w # job[j].page => page'[w] = page[w]
    BY <1>1 DEF Answer
  <1>4. ASSUME job[j].page # NoPage
        PROVE  /\ job[j].page \in Pages /\ page'[job[j].page] = to
               /\ page[job[j].page].load = "done"
    BY <1>1, <1>4 DEF Answer, JobRecords, MenuInv, PageInv
  <1>5. ASSUME NEW w \in Pages PROVE PageList(w)'
    <2>1. CASE w = job[j].page
      BY <1>1, <1>4, <2>1, PageKept DEF ListInv
    <2>2. CASE w # job[j].page
      BY <1>1, <1>3, <2>2, PageKept DEF ListInv
    <2>3. QED
      BY <2>1, <2>2
  <1>6. ASSUME NEW i \in Jobs, i # j PROVE JobList(i)'
    <2>1. job[i].page \in Pages =>
             /\ page'[job[i].page].context = page[job[i].page].context
             /\ page'[job[i].page].opened = page[job[i].page].opened
             /\ page'[job[i].page].listed = page[job[i].page].listed
      BY <1>1, <1>3, <1>4
    <2>2. QED
      BY <1>1, <1>6, <2>1, JobKept DEF ListInv
  <1>7. QED
    BY <1>2, <1>5, <1>6 DEF ListInv

LEMMA ErrorList ==
    ASSUME MenuInv, ListInv, NEW j \in Jobs, showError(j)
    PROVE  ListInv'
  <1> DEFINE to == [page[job[j].page] EXCEPT !.alert = TRUE]
  <1>1. Answer(j, to)
    BY DEF showError
  <1>2. ASSUME job[j].page # NoPage
        PROVE  /\ to.opened = page[job[j].page].opened /\ to.context = page[job[j].page].context
               /\ to.load = page[job[j].page].load /\ to.listed = page[job[j].page].listed
               /\ to.answered = page[job[j].page].answered
               /\ to.results = page[job[j].page].results
    <2>1. page[job[j].page] \in PageRecords
      BY <1>2 DEF MenuInv, RecordsOK, JobRecords
    <2>2. QED
      BY <2>1 DEF PageRecords
  <1> HIDE DEF to
  <1>3. QED
    BY <1>1, <1>2, AnswerList

LEMMA JobStepList ==
    ASSUME MenuInv, ListInv, NEW j \in Jobs, JobStep(j)
    PROVE  ListInv'
  <1>1. /\ job \in [Jobs -> JobRecords] /\ job[j] \in JobRecords /\ JobList(j)
        /\ page \in [Pages -> PageRecords]
    BY DEF MenuInv, RecordsOK, ListInv
  <1>2. CASE validate(j)
    <2>1. CASE showError(j)
      BY <2>1, ErrorList
    <2>2. CASE job' = [job EXCEPT ![j].pc = "fire"] /\ UNCHANGED <<inventory, page>>
      <3> DEFINE new == [job[j] EXCEPT !.pc = "fire"]
      <3>1. /\ job' = [job EXCEPT ![j] = new] /\ new.page = job[j].page
            /\ new.pc = "fire" /\ new.context = job[j].context /\ new.of = job[j].of
            /\ new.todo = job[j].todo /\ new.done = job[j].done
        BY <1>1, <2>2 DEF JobRecords
      <3>p. job[j].pc = "validate"
        BY <1>2 DEF validate
      <3> HIDE DEF new
      <3>2. job'[j] = new => JobList(j)'
        BY <1>1, <2>2, <3>1, <3>p DEF JobList
      <3>3. QED
        BY <2>2, <3>1, <3>2, OnlyJob
    <2>3. CASE job' = [job EXCEPT ![j] = NoJob] /\ UNCHANGED <<inventory, page>>
      <3>1. job'[j] = NoJob => JobList(j)'
        BY MenuAssumption DEF JobList, NoJob
      <3>2. QED
        BY <2>3, <3>1, OnlyJob
    <2>4. QED
      BY <1>2, <2>1, <2>2, <2>3 DEF validate
  <1>3. CASE fireForAll(j)
    <2> DEFINE todo == IF job[j].kind = "reset" THEN getAccountsToReset
                       ELSE getAccountsToCalculate(job[j].context, job[j].of)
               new == [job[j] EXCEPT !.pc = "work", !.context = "none", !.of = {}, !.todo = todo]
    <2>1. job' = [job EXCEPT ![j] = new] /\ UNCHANGED <<inventory, page>>
      BY <1>1, <1>3 DEF fireForAll
    <2>2. getAccountsToCalculate(job[j].context, job[j].of) \cap Assets \subseteq getAccountsToReset
      BY <1>1 DEF JobList, getAccountsToCalculate, getAccountsToReset
    <2>3. todo \subseteq inventory
      BY <1>1 DEF JobList, getAccountsToCalculate, getAccountsToReset
    <2>4. job[j].page \in Pages => Due(job[j].kind, page[job[j].page].listed) \subseteq todo
      <3>1. job[j].page \in Pages =>
               page[job[j].page].listed \subseteq getAccountsToCalculate(job[j].context, job[j].of)
        BY <1>1, <1>3 DEF ListInv, PageList, JobList, fireForAll
      <3>2. QED
        BY <2>2, <3>1 DEF Due
    <2> HIDE DEF todo
    <2>5. /\ new.pc = "work" /\ new.page = job[j].page /\ new.context = "none"
          /\ new.kind = job[j].kind /\ new.todo = todo /\ new.done = job[j].done
      BY <1>1 DEF JobRecords
    <2> HIDE DEF new
    <2>6. job'[j] = new => JobList(j)'
      BY <1>1, <2>1, <2>3, <2>4, <2>5 DEF JobList
    <2>7. QED
      BY <2>1, <2>6, OnlyJob
  <1>4. CASE ProcessAccount(j)
    <2>1. PICK a \in job[j].todo :
             /\ job' = [job EXCEPT ![j].todo = job[j].todo \ {a}, ![j].done = @ \cup {a}]
             /\ UNCHANGED <<inventory, page>>
      BY <1>4 DEF ProcessAccount, Rest
    <2> DEFINE new == [job[j] EXCEPT !.todo = job[j].todo \ {a}, !.done = @ \cup {a}]
    <2>2. /\ job' = [job EXCEPT ![j] = new] /\ new.page = job[j].page
          /\ new.pc = job[j].pc /\ new.kind = job[j].kind
          /\ new.context = job[j].context /\ new.of = job[j].of
          /\ new.todo = job[j].todo \ {a} /\ new.done = job[j].done \cup {a}
      BY <1>1, <2>1 DEF JobRecords
    <2> HIDE DEF new
    <2>3. new.todo \cup new.done = job[j].todo \cup job[j].done
      BY <2>2
    <2>4. job'[j] = new => JobList(j)'
      BY <1>1, <2>1, <2>2, <2>3 DEF JobList
    <2>5. QED
      BY <2>1, <2>2, <2>4, OnlyJob
  <1>5. CASE showResults(j)
    <2> DEFINE to == [page[job[j].page] EXCEPT !.answered = job[j].kind,
                                               !.results = job[j].done, !.enabled = TRUE]
    <2>1. Answer(j, to) /\ job[j].pc = "work" /\ job[j].todo = {}
      BY <1>5 DEF showResults
    <2>2. ASSUME job[j].page # NoPage
          PROVE  /\ to.opened = page[job[j].page].opened
                 /\ to.context = page[job[j].page].context
                 /\ to.load = page[job[j].page].load /\ to.listed = page[job[j].page].listed
                 /\ Due(to.answered, page[job[j].page].listed) \subseteq to.results
      <3>1. job[j].page \in Pages /\ page[job[j].page] \in PageRecords
        BY <1>1, <2>2 DEF JobRecords
      <3>2. Due(job[j].kind, page[job[j].page].listed) \subseteq job[j].done
        BY <1>1, <2>1, <3>1 DEF JobList
      <3>3. QED
        BY <3>1, <3>2 DEF PageRecords
    <2> HIDE DEF to
    <2>3. QED
      BY <2>1, <2>2, AnswerList
  <1>6. CASE RunFails(j)
    BY <1>6, ErrorList DEF RunFails
  <1>7. QED
    BY <1>2, <1>3, <1>4, <1>5, <1>6 DEF JobStep

LEMMA ListInvariant == Spec => []ListInv
  <1>1. Init => ListInv
    <2> SUFFICES ASSUME Init PROVE ListInv
      OBVIOUS
    <2>1. \A v \in Pages : \E o \in Openings : page[v] = NewPage(o)
      BY DEF Init
    <2>2. ASSUME NEW v \in Pages PROVE PageList(v)
      <3>o. PICK o \in Openings : page[v] = NewPage(o)
        BY <2>1
      <3>1. page[v].context = "none" /\ page[v].listed = {} /\ page[v].answered = "none"
        BY <3>o DEF NewPage
      <3>2. QED
        BY <3>1 DEF PageList
    <2>3. \A j \in Jobs : JobList(j)
      BY MenuAssumption DEF Init, JobList, NoJob
    <2>4. QED
      BY <2>2, <2>3 DEF ListInv
  <1>2. MenuInv /\ ListInv /\ [Next]_vars => ListInv'
    <2> SUFFICES ASSUME MenuInv, ListInv, [Next]_vars PROVE ListInv'
      OBVIOUS
    <2>1. ASSUME inventory \subseteq inventory', UNCHANGED <<page, job>> PROVE ListInv'
      <3>1. \A v \in Pages : PageList(v)'
        BY <2>1, PageKept DEF ListInv
      <3>2. \A j \in Jobs : JobList(j)'
        BY <2>1, JobKept DEF ListInv
      <3>3. QED
        BY <3>1, <3>2 DEF ListInv
    <2>2. ASSUME NEW a \in Accounts, CreateAccount(a) PROVE ListInv'
      BY <2>1, <2>2 DEF CreateAccount
    <2>3. CASE UNCHANGED vars
      BY <2>1, <2>3 DEF vars
    <2>4. QED
      BY <2>2, <2>3, LoadList, ReloadList, PressList, JobStepList DEF Next
  <1>3. QED
    BY <1>1, <1>2, MenuInvariant, PTL DEF Spec

\* Pages and runs keep their types, and a run works on accounts of the Inventory Book
\* only, although the accounts are named by a context computed when the page was
\* loaded.
THEOREM MenuTypeCorrect == Spec => []MenuTypeOK
  <1>1. inventory \subseteq Accounts /\ MenuInv /\ ListInv => MenuTypeOK
    BY DEF MenuInv, RecordsOK, ListInv, JobList, MenuTypeOK
  <1>2. QED
    BY <1>1, MenuInvariant, ListInvariant, PTL

\* The results that a page shows cover every account it has listed (those of type
\* ASSET, after a reset), whatever happened to the accounts of the run, whatever the
\* page was opened for and whatever accounts were created since.
THEOREM ResultsComplete == Spec => []ListedAccountsAnswered
  <1>1. ListInv => ListedAccountsAnswered
    BY DEF ListInv, PageList, ListedAccountsAnswered
  <1>2. QED
    BY <1>1, ListInvariant, PTL
==============================================================================
