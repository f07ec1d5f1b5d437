----------------------------- MODULE CheckPage -----------------------------
(***************************************************************************)
(* js/check.js: the page from which an author runs checks.  One runs at a  *)
(* time, and the author may choose another paper, sign in or out, or press *)
(* "New check" while it does.  Of the server it sees whose each job is and *)
(* whether it is open, done, failed or forgotten: how that comes about is  *)
(* in Admission and CheckRunner.  A paper stands for its file's name.      *)
(***************************************************************************)
EXTENDS Integers, FiniteSets

CONSTANTS
  Files, Ids,
  Users,       \* those who may sign in
  Timeout,     \* TIMEOUT_MS, in ticks
  Null

ASSUME PageAssumption == Null \notin Ids /\ Timeout \in Nat

VARIABLES
  paper,     \* state.paper
  signedIn,  \* whose token is in localStorage
  phase,     \* where runCheck() stands
  sent,      \* what it submitted: the paper, compare_to, and the id it was given
  asking,    \* whose token the request under way carries
  lastJob, lastPaper, \* state.lastJobId and state.lastPaperName
  result,    \* the job whose result is shown
  message,   \* whether the last check failed, and if for want of what it was to be compared with
  waited,    \* since pollJob() began
  jobs       \* the server's jobs: the paper, the owner, how far it is; and, as history,
             \* whether the paper had been changed when the page learned of the job

authorVars == <<paper, signedIn>>
memory == <<lastJob, lastPaper>>
shown == <<result, message>>
pageVars == <<authorVars, phase, sent, asking, memory, shown, waited, jobs>>

Nothing == [paper |-> Null, compare |-> Null, job |-> Null]

PageInit ==
  /\ paper = Null /\ signedIn \in Users \cup {Null}
  /\ phase = "idle" /\ sent = Nothing /\ asking = Null
  /\ lastJob = Null /\ lastPaper = Null
  /\ result = Null /\ message = Null /\ waited = 0
  /\ jobs = [j \in Ids |-> [is |-> "unborn", paper |-> Null, owner |-> Null, changed |-> FALSE]]

\* setPaper() and its chip's button.
Choose(p) ==
  /\ paper' = p /\ p # paper
  /\ UNCHANGED <<signedIn, phase, sent, asking, memory, shown, waited, jobs>>

\* The sign-in flow, of this page or of another tab.
SignIn(u) ==
  /\ signedIn' = u /\ u # signedIn
  /\ UNCHANGED <<paper, phase, sent, asking, memory, shown, waited, jobs>>

\* reset(), whose button is part of the results' view.
Reset ==
  /\ result # Null
  /\ paper' = Null /\ lastJob' = Null /\ lastPaper' = Null /\ result' = Null /\ message' = Null
  /\ UNCHANGED <<signedIn, phase, sent, asking, waited, jobs>>

CompareTo_Any == lastJob
CompareTo == IF lastJob # Null /\ paper = lastPaper THEN lastJob ELSE Null

\* runCheck(); each request has the token of that moment.
Click ==
  /\ phase = "idle" /\ paper # Null
  /\ phase' = "submit"
  /\ sent' = [paper |-> paper, compare |-> CompareTo, job |-> Null]
  /\ asking' = signedIn
  /\ UNCHANGED <<authorVars, memory, shown, waited, jobs>>

\* Its catch block.
Fails(why) ==
  /\ phase' = "idle" /\ message' = why
  /\ sent' = Nothing /\ asking' = Null /\ waited' = 0
  /\ UNCHANGED <<authorVars, memory, result>>

Readable(j) == jobs[j].is \notin {"unborn", "gone"} /\ jobs[j].owner \in {Null, asking}
MayCompare == sent.compare # Null => Readable(sent.compare) /\ jobs[sent.compare].is = "done"

\* The submission is refused, for the job to compare with (404) or for something else (400,
\* 401, 402, 413, 429, 503), or lost on its way.
SubmitRefused ==
  /\ phase = "submit"
  /\ (~MayCompare /\ Fails("incomparable")) \/ Fails("failed")
  /\ UNCHANGED jobs

\* It is accepted, and the page learns the id unless the answer is lost.
Accepted ==
  /\ phase = "submit" /\ MayCompare
  /\ \E j \in Ids :
       /\ jobs[j].is = "unborn" /\ \A i \in Ids : i < j => jobs[i].is # "unborn"
       /\ jobs' = [jobs EXCEPT ![j] = [is |-> "open", paper |-> sent.paper, owner |-> asking,
                                       changed |-> paper # sent.paper]]
       /\ \/ Fails("failed")
          \/ /\ lastJob' = j /\ lastPaper' = paper
             /\ phase' = "sleep"
             /\ sent' = [sent EXCEPT !.compare = Null, !.job = j]
             /\ UNCHANGED <<authorVars, asking, shown, waited>>

\* pollJob(): it sleeps, asks, and looks at the clock before it sleeps again.
Wake ==
  /\ phase = "sleep"
  /\ phase' = "poll" /\ asking' = signedIn
  /\ UNCHANGED <<authorVars, sent, memory, shown, waited, jobs>>

State == IF Readable(sent.job) THEN jobs[sent.job].is ELSE "gone"

GoesOn_ForEver == State = "open"
GoesOn == State = "open" /\ waited < Timeout
Open ==
  /\ phase = "poll" /\ GoesOn
  /\ phase' = "sleep"
  /\ UNCHANGED <<authorVars, sent, asking, memory, shown, waited, jobs>>

Done ==
  /\ phase = "poll" /\ State = "done"
  /\ result' = sent.job /\ message' = Null
  /\ phase' = "idle" /\ sent' = Nothing /\ asking' = Null /\ waited' = 0
  /\ UNCHANGED <<authorVars, memory, jobs>>

\* The deadline, any other answer (401, 404), a failed check and a lost connection end it.
NotDone ==
  /\ phase = "poll"
  /\ Fails("failed")
  /\ UNCHANGED jobs

\* The server, at its own pace, and the clock.
Becomes(j, s) ==
  /\ \/ jobs[j].is = "open" /\ s \in {"done", "failed", "gone"}
     \/ jobs[j].is \in {"done", "failed"} /\ s = "gone"
  /\ jobs' = [jobs EXCEPT ![j].is = s]
  /\ UNCHANGED <<authorVars, phase, sent, asking, memory, shown, waited>>

PageTick ==
  /\ phase \in {"sleep", "poll"} /\ waited < Timeout
  /\ waited' = waited + 1
  /\ UNCHANGED <<authorVars, phase, sent, asking, memory, shown, jobs>>

Page == SubmitRefused \/ Accepted \/ Wake \/ Open \/ Done \/ NotDone

PageNext ==
  \/ \E p \in Files \cup {Null} : Choose(p)
  \/ \E u \in Users \cup {Null} : SignIn(u)
  \/ Reset \/ Click \/ Page \/ PageTick
  \/ \E j \in Ids, s \in {"done", "failed", "gone"} : Becomes(j, s)

\* A request is answered or the browser gives it up, and time passes.
PageSpec == PageInit /\ [][PageNext]_pageVars /\ WF_pageVars(Page) /\ WF_pageVars(PageTick)

-----------------------------------------------------------------------------
(* Properties *)

PageTypeOK ==
  /\ paper \in Files \cup {Null} /\ lastPaper \in Files \cup {Null}
  /\ signedIn \in Users \cup {Null} /\ asking \in Users \cup {Null}
  /\ phase \in {"idle", "submit", "sleep", "poll"}
  /\ sent \in [paper : Files \cup {Null}, compare : Ids \cup {Null}, job : Ids \cup {Null}]
  /\ lastJob \in Ids \cup {Null} /\ result \in Ids \cup {Null}
  /\ message \in {Null, "failed", "incomparable"}
  /\ waited \in 0 .. Timeout
  /\ jobs \in [Ids -> [is : {"unborn", "open", "done", "failed", "gone"}, paper : Files \cup {Null},
                        owner : Users \cup {Null}, changed : BOOLEAN]]

\* check.js:332-333, "checking the same file again is a re-check": what is compared with is a
\* check this page submitted of a file of that name, unless another file was chosen while
\* that one was being sent.
ComparesItsOwn ==
  sent.compare # Null =>
    /\ jobs[sent.compare].is # "unborn"
    /\ jobs[sent.compare].paper = sent.paper \/ jobs[sent.compare].changed

\* check.js:286-303: however the server and the author behave, a check the page has begun
\* comes to an end, and the page can begin another.
RunEnds == phase # "idle" ~> phase = "idle"

\* check.js:295 and :302, "Please run it again" and "Please try again": one who does is not
\* refused for the sake of a comparison.
RunAgainIsNotRefused == message # "incomparable"
=============================================================================
