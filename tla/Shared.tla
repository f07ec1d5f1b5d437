------------------------------- MODULE Shared -------------------------------
(***************************************************************************)
(* Checks that run at once and what they share: the full texts, the model  *)
(* and the vectors.  Each searches the databases (academic_corpus.py,      *)
(* search()), fetches full texts on threads of its own, and has the source *)
(* sentences encoded (plagiarism_matcher.py).  The threads that ask the    *)
(* databases share nothing, so a search is one step that takes the answers *)
(* in any order.  Uploaded references are left out of the sources.         *)
(***************************************************************************)
EXTENDS AcademicSearch, FullText, Embeddings

CONSTANTS
  Submissions,  \* the manuscripts the checks may be given
  Uploads,      \* the checks that came with readable references
  Databases,    \* the providers enabled
  Replies,      \* what each may answer to the queries of a check; Raised: its thread raised
  Raised,
  Content,      \* the sentences of the full text behind each link
  Fetching      \* academic_fulltext

Work == [title : Seq(STRING), year : Nat, abstract : Seq(Sentences), links : Seq(Links)]
ASSUME SharedAssumption ==
  /\ Tasks \subseteq Checks \X Nat
  /\ IsFiniteSet(Databases) /\ Databases \cap {"abstracts only", "too short", "none found"} = {}
  /\ Raised # <<>>
  /\ \A p \in Databases : Replies[p] \ {Raised} \subseteq Seq([works : Seq(Work), failed : BOOLEAN])
  /\ Sentences \subseteq Seq(STRING) /\ Content \in [Links -> Seq(Sentences)]

VARIABLES
  manuscript,
  pc,        \* where each check stands
  replied,   \* what the databases replied to it
  answered,  \* the works it was given, as they arrived
  sources,   \* the candidates, by the number in their id
  warnings   \* what the coverage statement says about the search

checkVars == <<manuscript, pc, replied, answered, sources, warnings>>
vars == <<manuscript, pc, replied, answered, sources, warnings, order, data, now, left, asking, tried,
          model, lock, flag, vector, recent, at, texts, cached, rows>>

Init ==
  /\ FetchInit /\ EncoderInit
  /\ manuscript \in Submissions
  /\ pc = [c \in Checks |-> "search"]
  /\ replied = [c \in Checks |-> [p \in Databases |-> <<>>]]
  /\ answered = [c \in Checks |-> <<>>]
  /\ sources = [c \in Checks |-> <<>>]
  /\ warnings = [c \in Checks |-> {}]

TasksOf(c) == {t \in Tasks : t[1] = c}

\* as_completed(): what the databases gave, one after the other, and what they warned of.
Arrivals == {a \in [1 .. Cardinality(Databases) -> Databases] : Range(a) = Databases}
Contribution(p, replies, queries) ==
  IF replies = Raised THEN [out |-> <<>>, unreachable |-> TRUE]
  ELSE SearchProvider(p, SubSeq(replies, 1, Min({queries, Len(replies)})))

ReplySets == {r \in [Databases -> UNION {Replies[p] : p \in Databases}] : \A p \in Databases : r[p] \in Replies[p]}

\* All that the search for a manuscript may come to.
Outcome(m, replies, arrival) ==
  LET given == [p \in Databases |-> Contribution(p, replies[p], Len(BuildQueries(m)))]
      all   == FlattenSeq([i \in DOMAIN arrival |-> given[arrival[i]].out])
  IN  [for |-> m, replies |-> replies, works |-> all, found |-> Merged(all), chosen |-> Chosen(m, Merged(all)),
       unreachable |-> {p \in Databases : given[p].unreachable}]
Outcomes == {Outcome(m, r, a) : m \in UNION {Range(s) : s \in Submissions}, r \in ReplySets, a \in Arrivals}

Search(c) ==
  /\ pc[c] = "search" /\ BuildQueries(manuscript[c]) # <<>>
  /\ \E o \in {x \in Outcomes : x.for = manuscript[c]} :
       /\ replied' = [replied EXCEPT ![c] = o.replies]
       /\ answered' = [answered EXCEPT ![c] = o.works]
       /\ sources' = [sources EXCEPT ![c] = o.found]
       /\ warnings' = [warnings EXCEPT ![c] = o.unreachable]
       /\ Begin([t \in {u \in TasksOf(c) : Fetching /\ u[2] \in o.chosen} |-> o.found[t[2]].links])
  /\ pc' = [pc EXCEPT ![c] = "fetch"]
  /\ UNCHANGED <<manuscript, encoderVars>>

TooShort(c) ==
  /\ pc[c] = "search" /\ BuildQueries(manuscript[c]) = <<>>
  /\ warnings' = [warnings EXCEPT ![c] = {"too short"}]
  /\ pc' = [pc EXCEPT ![c] = "fetch"]
  /\ UNCHANGED <<manuscript, replied, answered, sources, now, fetchVars, encoderVars>>

Fetch(t) ==
  /\ FetchStep(t)
  /\ UNCHANGED <<checkVars, encoderVars>>

\* _enrich_fulltext() when its threads have ended: the texts they got take the place of the
\* abstracts.  RetrieveStage fails the check if there is nothing to compare with;
\* uploaded references alone are enough.
Obtained(c, i) ==
  \E t \in TasksOf(c) : t[2] = i /\ tried[t] # <<>> /\ Last(tried[t]).result.ok
FullTextOf(c, i) == Last(tried[<<c, i>>]).result.url

AbstractsOnly_None(c) == Cardinality({i \in DOMAIN sources[c] : Obtained(c, i)}) = 0 /\ WithLinks(sources[c]) # {}
AbstractsOnly(c) == Cardinality({i \in DOMAIN sources[c] : Obtained(c, i)}) < Cardinality(WithLinks(sources[c]))

Retrieved(c) ==
  LET full == [i \in DOMAIN sources[c] |->
                 IF Obtained(c, i) THEN [sources[c][i] EXCEPT !.text = Content[FullTextOf(c, i)], !.kind = "fulltext"]
                 ELSE sources[c][i]]
      said == warnings[c] \cup (IF Fetching /\ Chosen(manuscript[c], sources[c]) # {} /\ AbstractsOnly(c)
                                THEN {"abstracts only"} ELSE {})
  IN  /\ pc[c] = "fetch" /\ \A t \in TasksOf(c) : left[t] = <<>>
      /\ sources' = [sources EXCEPT ![c] = full]
      /\ warnings' = [warnings EXCEPT ![c] = IF full = <<>> /\ said = {} /\ Databases # {} THEN {"none found"} ELSE said]
      /\ IF full = <<>>
         THEN pc' = [pc EXCEPT ![c] = IF c \in Uploads THEN "alone" ELSE "rejected"] /\ UNCHANGED encoderVars
         ELSE pc' = [pc EXCEPT ![c] = "match"] /\ Given(c, FlattenSeq([i \in DOMAIN full |-> full[i].text]))
  /\ UNCHANGED <<manuscript, replied, answered, now, fetchVars>>

Match(c) ==
  /\ EncoderStep(c)
  /\ UNCHANGED <<checkVars, now, fetchVars>>

Time == Tick /\ UNCHANGED <<checkVars, encoderVars>>

Next ==
  \/ \E c \in Checks : Search(c) \/ TooShort(c) \/ Retrieved(c)
  \/ \E t \in Tasks : Fetch(t)
  \/ \E c \in Clients : Match(c)
  \/ Time

Spec == Init /\ [][Next]_vars

-----------------------------------------------------------------------------
(* Properties *)

Searched(c) == pc[c] # "search"

\* academic_corpus.py:19, "the other providers still contribute": whatever order the
\* databases answer in, every paper with a Latin title is there once, unless as many others
\* are; it has the longest abstract anyone gave or a full text, and every link to it.
SourcesAreMerged ==
  \A c \in Checks : Searched(c) =>
    LET keys == {DedupKey(w) : w \in Range(answered[c])} \ {<<>>}
        of(k) == {w \in Range(answered[c]) : DedupKey(w) = k}
    IN  /\ \A i, j \in DOMAIN sources[c] : sources[c][i].key = sources[c][j].key => i = j
        /\ {s.key : s \in Range(sources[c])} \subseteq keys
        /\ Len(sources[c]) = Min({MaxSources, Cardinality(keys)})
        /\ \A s \in Range(sources[c]) :
             /\ s.size = Max({Size(w) : w \in of(s.key)})
             /\ Range(s.links) = UNION {Range(w.links) : w \in of(s.key)}
             /\ IF s.kind = "abstract" THEN \E w \in of(s.key) : s.text = w.abstract /\ Size(w) = s.size
                ELSE \E u \in Range(s.links) : s.text = Content[u]

\* academic_corpus.py:4-8 and 18-19: what could not be had is said.  A database is named if
\* its thread raised, or if an answer of it failed and none brought a usable work, and no
\* other is; one that failed after it had given a work is not mentioned, whatever lines 18-19
\* say.  "Abstracts only" is said if and only if a candidate with links kept its abstract,
\* full texts being fetched.  A check without sources has some warning, unless there was no
\* database to ask.
BroughtNothing(p, reply, queries) ==
  LET asked == {i \in DOMAIN reply : i <= queries /\ (p = "arxiv" => i <= ArxivQueries)}
  IN  /\ MaxSources > 0 /\ (p = "semanticscholar" => HasKey)
      /\ \E i \in asked : reply[i].failed
      /\ \A i \in asked : \A w \in Range(reply[i].works) : ~(Len(w.abstract) >= MinAbstract)
Unanswered(c) ==
  {p \in Databases : \/ replied[c][p] = Raised
                    \/ BroughtNothing(p, replied[c][p], Len(BuildQueries(manuscript[c])))}
SaysWhatIsMissing ==
  \A c \in Checks : pc[c] \notin {"search", "fetch"} =>
    /\ Databases \cap warnings[c] = Unanswered(c)
    /\ sources[c] = <<>> /\ Databases # {} => warnings[c] # {}
    /\ Fetching /\ FulltextMaxDocs > 0 /\ (\E s \in Range(sources[c]) : s.kind = "abstract" /\ s.links # <<>>)
         => "abstracts only" \in warnings[c]
    /\ "abstracts only" \in warnings[c] => \E s \in Range(sources[c]) : s.kind = "abstract" /\ s.links # <<>>

\* fulltext.py:10-17: a task learns of the public ones of its candidate's first two links, in
\* their order, up to the first that has a text, and what it learns of a link, though it was
\* another check that asked, was true of that link cache_ttl_seconds ago at most.
FullTextIsCurrent ==
  \A t \in Tasks :
    LET public == Those(FirstTwo(sources[t[1]][t[2]].links), Public)
    IN  /\ tried[t] # <<>> => IsPrefix([i \in DOMAIN tried[t] |-> tried[t][i].result.url], public)
        /\ \A i \in DOMAIN tried[t] :
             LET r == tried[t][i].result
             IN  /\ tried[t][i].read - r.at <= CacheTTL
                 /\ r.ok => \E a \in Answers[r.url] : a.url \in Public /\ Accepted(a)
                 /\ i < Len(tried[t]) => ~r.ok
=============================================================================
