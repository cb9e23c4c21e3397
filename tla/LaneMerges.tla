------------------------------ MODULE LaneMerges ------------------------------
(***************************************************************************)
(* How the lanes whose sources overlap choose between them, once all of a  *)
(* lane's sources are parsed: Copilot (lib.rs), Grok (sessions/grok.rs),   *)
(* Kiro (sessions/kiro.rs) and Trae (lib.rs).  A message is a record with  *)
(* its key, its session and what else its client says.                     *)
(***************************************************************************)
EXTENDS Subsequences, SequencesExt

CONSTANTS
    NoKey,         \* no dedup key
    UnknownModel,  \* grok-unknown
    NoWorkspace    \* no workspace is known

SessionsOf(messages) == {m.session : m \in ToSet(messages)}

\* The one value a field has among these messages, `Default` if there is none
\* or several.
OnlyValue(values, Default) ==
    IF Cardinality(values) = 1 THEN CHOOSE v \in values : TRUE ELSE Default

\* A session that the telemetry of Copilot covers is left out of its desktop
\* database as a whole.
PreferCopilotOtel(otel, desktop) ==
    otel \o Chosen(desktop, {i \in DOMAIN desktop : desktop[i].session \notin SessionsOf(otel)})

(***************************************************************************)
(* Grok: the unified log covers a session as a whole.  What it does not    *)
(* say of a message, its model and workspace, comes from the older rows    *)
(* of the session when they agree.                                         *)
(***************************************************************************)
\* What the older rows say of a session.
LegacyModel(messages, session) ==
    OnlyValue({m.model : m \in {m \in ToSet(messages) : ~m.unified /\ m.session = session}} \ {UnknownModel},
              UnknownModel)
LegacyWorkspace(messages, session) ==
    OnlyValue({m.workspace : m \in {m \in ToSet(messages) : ~m.unified /\ m.session = session}} \ {NoWorkspace},
              NoWorkspace)

Completed(m, messages) ==
    IF ~m.unified THEN m
    ELSE [m EXCEPT !.model = IF m.model = UnknownModel THEN LegacyModel(messages, m.session) ELSE m.model,
                   !.workspace =
                     IF m.workspace = NoWorkspace THEN LegacyWorkspace(messages, m.session) ELSE m.workspace]

PreferUnifiedLog(messages) ==
    LET unified == {m \in ToSet(messages) : m.unified}
    IN  Chosen([i \in DOMAIN messages |-> Completed(messages[i], messages)],
               {i \in DOMAIN messages :
                  messages[i].unified \/ \A m \in unified : m.session # messages[i].session})

(***************************************************************************)
(* Kiro: a source of the IDE holds an execution, a snapshot of a           *)
(* conversation, which names an execution or a chat session, or a          *)
(* workspace session; the CLI has sources of its own.                      *)
(***************************************************************************)
KiroKind == {"execution", "execution_snapshot", "chat_snapshot", "workspace_session", "cli"}

Superseded(m, executions) ==
    \/ /\ m.kind = "execution_snapshot"
       /\ \E x \in executions : x.workspace = m.workspace /\ x.key = m.key
    \/ /\ m.kind = "chat_snapshot"
       /\ \E x \in executions : x.workspace = m.workspace /\ x.session = m.session
    \/ /\ m.kind = "workspace_session"
       /\ \E x \in executions : x.session = m.session

\* What the keys of the sources are made of; a message of the CLI has its own.
KiroIdentity(m) ==
    CASE m.kind = "execution" -> <<m.kind, m.workspace, m.key>>
      [] m.kind = "execution_snapshot" -> <<m.kind, m.workspace, m.session, m.key>>
      [] m.kind = "chat_snapshot" -> <<m.kind, m.workspace, m.session>>
      [] m.kind = "workspace_session" -> <<m.kind, m.session>>
      [] m.kind = "cli" -> <<m.kind, m.key>>

FirstOfEach(messages) ==
    Chosen(messages,
           {i \in DOMAIN messages :
              messages[i].key # NoKey =>
                \A j \in 1..(i - 1) : KiroIdentity(messages[j]) # KiroIdentity(messages[i])})

\* Mutant: only what was listed before is known to be executed.
MergeKiro_OnePass(messages) ==
    LET executions(i) == {m \in ToSet(SubSeq(messages, 1, i)) : m.kind = "execution"}
    IN  FirstOfEach(FlattenSeq([i \in DOMAIN messages |->
                        IF Superseded(messages[i], executions(i)) THEN <<>> ELSE <<messages[i]>>]))

MergeKiro(messages) ==
    LET executions == {m \in ToSet(messages) : m.kind = "execution"}
    IN  FirstOfEach(Chosen(messages, {i \in DOMAIN messages : ~Superseded(messages[i], executions)}))

\* Mutant: the first of two dumps of one time stays.
ReplacesTrae_NoTie(m, existing) == m.time > existing.time

\* Trae: each dump repeats a session; the latest one counts, the greater key
\* between two of one time.
ReplacesTrae(m, existing) ==
    \/ m.time > existing.time
    \/ m.time = existing.time /\ m.key # NoKey /\ (existing.key = NoKey \/ m.key > existing.key)

KeepLatest(latest, m) ==
    IF m.session \in DOMAIN latest /\ ~ReplacesTrae(m, latest[m.session])
    THEN latest
    ELSE [s \in DOMAIN latest \cup {m.session} |-> IF s = m.session THEN m ELSE latest[s]]
===============================================================================
