----------------------------- MODULE TaskQueries -----------------------------
(***************************************************************************)
(* The task pages of the API on the rows of EventStore: the two lists with *)
(* their cursor (list_tasks, list_task_summary), the retry chain of a task *)
(* (get_retry_chain) and the graph of a workflow (get_workflow, build_dag). *)
(*                                                                         *)
(* Bounds: a client begins when there is more than a page to list, and the *)
(* instance ends when it has its last page; the default window of a list,  *)
(* a day, holds all of it; of the filters the states stand for all.        *)
(***************************************************************************)
EXTENDS EventStore

CONSTANTS
    PageLimit,     \* the limit of a list request
    Unknown,       \* a word in ?state= that is no task state
    Asked,         \* bound: the ?state= values requested
    MAX_DEPTH

TASK_EVENT_TYPES_IN == {"task-succeeded", "task-failed", "task-started", "task-received",
                        "task-sent", "task-retried", "task-revoked"}
TASK_STATES_IN == {"PENDING", "RECEIVED", "STARTED", "SUCCESS", "FAILURE", "RETRY",
                   "REVOKED", "REJECTED"}

ASSUME QueriesAssumption ==
    /\ PageLimit \in 1 .. 200
    /\ Unknown \notin TASK_STATES_IN
    /\ Asked \subseteq SUBSET (TASK_STATES_IN \cup {Unknown})
    /\ MAX_DEPTH \in Nat \ {0}

VARIABLE pager     \* a client that follows next_cursor through a list

queriesVars == <<storeVars, pager>>

\* owed: the rows that matched when the client began and that it has still to
\* be shown.
NoPager == [at |-> "idle", list |-> "none", states |-> {}, cursor |-> MaxClock + 1, owed |-> {}]

QueriesInit == StoreInit /\ pager = NoPager

-----------------------------------------------------------------------------
(* Lists.                                                                  *)

\* parsed_states: unknown words are dropped; nothing left means no filter.
\* ALLOWED_TASK_STATES are the states of TASK_STATES_IN.
ParsedStates(asked) == asked \cap TASK_STATES_IN

\* append_task_where.  The list of events has its scope in the types, the
\* summary in the states: a rejected task is in the summary only.
InScope(list, r) ==
    IF list = "events" THEN r.type \in TASK_EVENT_TYPES_IN ELSE StateOf(r) \in TASK_STATES_IN

Matching(list, states) ==
    {r \in rows : InScope(list, r) /\ (states = {} \/ StateOf(r) \in states)}

\* The rows a list is cut from: query_task_events takes them all, and
\* get_task_summary, LIMIT 1 BY task_id, one of the newest of each task.
Listed(list, candidates) ==
    IF list = "events" THEN {candidates}
    ELSE {one \in SUBSET candidates :
            /\ \A r \in candidates : \E s \in one : s.task = r.task
            /\ \A s \in one : /\ \A r \in candidates : r.task = s.task => s.at >= r.at
                              /\ \A r \in one : r.task = s.task => r = s}

\* ORDER BY timestamp DESC LIMIT n: of equally old rows, any.
TopRows(set, n) ==
    {top \in SUBSET set : /\ Cardinality(top) = Min({n, Cardinality(set)})
                          /\ \A r \in top, s \in set \ top : r.at >= s.at}

StartPaging ==
    /\ pager.at = "idle"
    /\ \E list \in {"events", "summary"}, asked \in Asked :
          /\ Cardinality(Matching(list, ParsedStates(asked))) > PageLimit
          /\ pager' = [NoPager EXCEPT !.at = "reading", !.list = list, !.states = ParsedStates(asked),
                                      !.owed = Matching(list, ParsedStates(asked))]
    /\ UNCHANGED storeVars

\* What a page settles: the rows shown and, in the summary, older ones of the
\* same tasks.  Rows as old as the last one shown are lost: the next page takes
\* strictly older ones (task_events.rs:223, tasks.rs:374).
Settled(page) ==
    page \cup {r \in pager.owed : \E s \in page :
                  \/ pager.list = "summary" /\ s.task = r.task /\ s.at >= r.at
                  \/ s.at = r.at /\ \A q \in page : q.at >= s.at}

\* Slip: the cursor is cut from the row that only tells that there are more.
NextPageCutLate ==
    /\ pager.at = "reading"
    /\ \E set \in Listed(pager.list, {r \in Matching(pager.list, pager.states) : r.at < pager.cursor}) :
       \E page \in TopRows(set, PageLimit) :
          LET more == Cardinality(set) > PageLimit
              cut == IF more THEN Max({r.at : r \in set \ page}) ELSE 0
          IN  pager' = [pager EXCEPT !.owed = @ \ Settled(page),
                                     !.cursor = IF more THEN cut ELSE @,
                                     !.at = IF more THEN "reading" ELSE "done"]
    /\ UNCHANGED storeVars

\* One request: the rows older than the cursor, one more than the limit to tell
\* whether there are more; paginate cuts that one off and the oldest row left
\* is the next cursor.
NextPage ==
    /\ pager.at = "reading"
    /\ \E set \in Listed(pager.list, {r \in Matching(pager.list, pager.states) : r.at < pager.cursor}) :
       \E page \in TopRows(set, PageLimit) :
          LET more == Cardinality(set) > PageLimit
              cut == Min({r.at : r \in page})
          IN  pager' = [pager EXCEPT !.owed = @ \ Settled(page),
                                     !.cursor = IF more THEN cut ELSE @,
                                     !.at = IF more THEN "reading" ELSE "done"]
    /\ UNCHANGED storeVars

-----------------------------------------------------------------------------
(* The retry chain.                                                        *)

Stored == {r.task : r \in rows}

Parent(t) == Merged(RowsOf(t), "parent")

\* Slip: a task met before is taken again.
ClimbTwice(t) ==
    LET up[k \in 0 .. MAX_DEPTH] ==
            IF k = 0 THEN <<t>>
            ELSE LET chain == up[k - 1]
                     p == Parent(Head(chain))
                 IN  IF p # None /\ p \in Stored
                           /\ MergedName(RowsOf(p)) = MergedName(RowsOf(t))
                     THEN <<p>> \o chain ELSE chain
    IN  up[MAX_DEPTH]

\* From the task up, while there is a parent of the same name that is not in
\* the chain yet.
Climb(t) ==
    LET up[k \in 0 .. MAX_DEPTH] ==
            IF k = 0 THEN <<t>>
            ELSE LET chain == up[k - 1]
                     p == Parent(Head(chain))
                 IN  IF p # None /\ p \notin ToSet(chain) /\ p \in Stored
                           /\ MergedName(RowsOf(p)) = MergedName(RowsOf(t))
                     THEN <<p>> \o chain ELSE chain
    IN  up[MAX_DEPTH]

\* get_children_by_parent_ids: only the rows that name the parent are read.
Naming(t, level) == {r \in RowsOf(t) : Carried(r, "parent") \in level}
Children(level, name) ==
    {t \in Stored : Naming(t, level) # {} /\ MergedName(Naming(t, level)) = name}

\* Level by level down from the task, the oldest first.
Descend(chain, name) ==
    LET order(set, level) ==
            SetToSortSeq(set, LAMBDA t, u : Newest(Naming(t, level)) < Newest(Naming(u, level)))
        down[k \in 0 .. MAX_DEPTH] ==
            IF k = 0 THEN [chain |-> chain, level |-> {Last(chain)}]
            ELSE LET last == down[k - 1]
                     fresh == Children(last.level, name) \ ToSet(last.chain)
                 IN  [chain |-> last.chain \o order(fresh, last.level), level |-> fresh]
    IN  down[MAX_DEPTH].chain

\* get_retry_chain of a stored task.
RetryChain(t) == Descend(Climb(t), MergedName(RowsOf(t)))

-----------------------------------------------------------------------------
(* The graph of a workflow.                                                *)

\* get_workflow_tasks: the rows that carry the root, and those of the root.
WorkflowRows(root) == {r \in rows : Carried(r, "root") = root \/ r.task = root}
WorkflowTasks(root) == {r.task : r \in WorkflowRows(root)}
NodeRows(root, t) == {r \in WorkflowRows(root) : r.task = t}
Node(root, t, field) == Merged(NodeRows(root, t), field)

\* build_dag, one operator per kind of edge.
ParentEdges(root) ==
    {<<Node(root, t, "parent"), t>> : t \in {u \in WorkflowTasks(root) :
                                                Node(root, u, "parent") \in WorkflowTasks(root)}}

GroupEdges(root) ==
    {pair \in kSubset(2, WorkflowTasks(root)) :
        \E g \in {Node(root, t, "group") : t \in pair} \ {None} :
            \A t \in pair : Node(root, t, "group") = g}

\* The callback of a chord is the task of that id or, if it comes first, one
\* with the chord's id that is in no group.
ChordEdges(root) ==
    LET nodes == SetToSortSeq(WorkflowTasks(root),
                              LAMBDA t, u : Newest(NodeRows(root, t)) < Newest(NodeRows(root, u)))
        calls(c, t) == t = c \/ (Node(root, t, "group") = None /\ Node(root, t, "chord") = c)
        callback(c) == LET at == SelectInSeq(nodes, LAMBDA t : calls(c, t))
                       IN  IF at = 0 THEN None ELSE nodes[at]
    IN  {e \in WorkflowTasks(root) \X WorkflowTasks(root) :
            /\ Node(root, e[1], "chord") # None
            /\ callback(Node(root, e[1], "chord")) = e[2]
            /\ e[1] # e[2]}

Connected(root) ==
    UNION ({ {e[1], e[2]} : e \in ParentEdges(root) \cup ChordEdges(root) } \cup GroupEdges(root))

\* What is left over is strung together in the order of the ids.
FallbackEdges(root) ==
    LET loose == SetToSeq({t \in WorkflowTasks(root) \ Connected(root) :
                                Node(root, t, "group") = None})
    IN  {<<loose[i], loose[i + 1]>> : i \in 1 .. Len(loose) - 1}

-----------------------------------------------------------------------------
QueriesNext ==
    \/ StoreNext /\ pager.at # "done" /\ UNCHANGED pager
    \/ StartPaging \/ NextPage

QueriesSpec == QueriesInit /\ [][QueriesNext]_queriesVars

-----------------------------------------------------------------------------
(* Properties.  What the store shows does not depend on the client, so it  *)
(* is looked at where the client has not begun.                            *)

Idle == pager.at = "idle"

\* Every row is an event off the wire, of a task that was published, with a type
\* that has a state; an event has one row for each insert that was carried out
\* and not heard of, and one more, off the wire, for the one that was.  A part
\* of a view counts something, and never more than there are rows.
KeyOf(x) == [task |-> x.task, type |-> x.type, at |-> x.at, try |-> x.try]
RowsTypeOK ==
    /\ {KeyOf(r) : r \in rows} \cap wire = {}
    /\ \A x \in rows \cup wire :
          /\ life[x.task] # None /\ x.type \in EventTypes /\ x.at \in 0 .. clock
          /\ \A k \in 0 .. x.try - 1 :
                \E r \in rows : KeyOf(r) = [KeyOf(x) EXCEPT !.try = k]
    /\ \A r, s \in rows : KeyOf(r) = KeyOf(s) => r = s
    /\ \A p \in parts : \E c \in DOMAIN p.count : p.count[c] \in 1 .. Cardinality(rows)
    /\ pager.at \in {"idle", "reading", "done"}
    /\ pager.cursor \in 0 .. MaxClock + 1
    /\ pager.owed \subseteq Matching(pager.list, pager.states)

\* A client that follows next_cursor to the end has been shown every row that
\* matched when it began, whatever is inserted meanwhile and however the lists
\* order equally old rows, but for what Settled names: rows as old as the last
\* of a page, and in list_task_summary older rows of a task shown.
PagesCover == pager.at = "done" => pager.owed = {}

\* The lineage of a task in what is stored: a retry has the name of the task it
\* hangs on.
RetryLinks == {l \in Stored \X Stored : /\ Parent(l[2]) = l[1]
                                        /\ MergedName(RowsOf(l[1])) = MergedName(RowsOf(l[2]))}
Closure(links) ==
    LET up[k \in 0 .. Cardinality(Tasks)] ==
            IF k = 0 THEN links
            ELSE LET l == up[k - 1]
                 IN  l \cup {<<p[1][1], p[2][2]>> : p \in {q \in l \X l : q[1][2] = q[2][1]}}
    IN  up[Cardinality(Tasks)]
Lineage(t) ==
    LET links == Closure(RetryLinks)
    IN  {t} \cup {u \in Stored : <<u, t>> \in links \/ <<t, u>> \in links}

\* Whatever rows have arrived, in whatever order, the retry chain of a task is
\* its lineage, every task once and after the task it retries; a task that
\* hangs on itself does not loop (task_events.rs:389-391, 405-408).
ChainIsLineage(t) ==
    LET chain == RetryChain(t) IN
    /\ ToSet(chain) = Lineage(t) /\ IsInjective(chain)
    /\ \A i, j \in DOMAIN chain : chain[i] = Parent(chain[j]) => i <= j

\* However incomplete the rows of a workflow, its graph has no cycle but that
\* of a task that hangs on itself (build_dag).
Arrows(root) == ParentEdges(root) \cup ChordEdges(root) \cup FallbackEdges(root)
GraphIsAcyclic(root) ==
    LET above == Closure({e \in Arrows(root) : e[1] # e[2]})
    IN  \A t \in WorkflowTasks(root) : <<t, t>> \notin above

\* What the page of a task shows around it is true of the stored rows, however
\* few of them have arrived: its retries and its workflow.
LineageIsTrue == Idle => \A t \in Stored : ChainIsLineage(t) /\ GraphIsAcyclic(t)

\* "When a multi-stage pipeline fails, you can see which step broke" (README.md:60).
FailedStepShows ==
    \A root \in Tasks : \A t \in WorkflowTasks(root) :
        MergedStates(RowsOf(t)) = {"FAILURE"} => "FAILURE" \in MergedStates(NodeRows(root, t))
=============================================================================
