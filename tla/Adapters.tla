------------------------------ MODULE Adapters ------------------------------
(***************************************************************************)
(* The actuators behind the gateway (packages/syscall): the registry, which *)
(* resolves an intent to its adapter or, when none can handle it, to the    *)
(* human_task tail; the manual tasks the tail queues; the adapter that      *)
(* sends mail; drafts; and the research adapters' choice of a provider.     *)
(*                                                                         *)
(* The caller is the kernel's Gateway in the one worker loop: it asks an     *)
(* adapter once for a key that has no receipt, turns what the adapter       *)
(* raises into an error result and saves the receipt, whatever its status.  *)
(* Between any two of these awaits the worker can be cancelled, and the     *)
(* process restarted; what the adapters remember is then gone.              *)
(***************************************************************************)
EXTENDS Integers, Sequences, FiniteSets, SequencesExt

CONSTANTS
    Keys, Instances,
    InstanceOf,     (* [Keys -> Instances]                                   *)
    Bound,          (* instances whose channel_binding names a sender        *)
    Marks,          (* what an operator may say of a task                    *)
    MaxMishaps      (* bound: cancellations, restarts and lost replies       *)

Intents == {"lead_research_batch", "read_url", "deep_research", "draft_email", "draft_candidate_type",
            "send_email", "queue_manual_action", "mark_outcome", "unsupported"}

ASSUME AdapterAssumption ==
    /\ InstanceOf \in [Keys -> Instances]
    /\ Bound \subseteq Instances
    /\ Keys # {} /\ "none" \notin Marks
    /\ MaxMishaps \in Nat

VARIABLES
    build,          (* what the process was composed with                    *)
    tasks,          (* the manual tasks of the adapters' store, by id        *)
    sent,           (* keys SendEmailAdapter remembers a receipt of          *)
    drafts,         (* keys DraftCandidateTypeAdapter remembers a draft of   *)
    mailbox,        (* the mails that left, in order                         *)
    receipts,       (* [Keys -> the result the gateway saved, or NoAnswer]   *)
    intent,         (* [Keys -> the intent the key was first attempted with] *)
    call,           (* the gateway's call in flight                          *)
    paid,           (* history: [Keys -> faults that forget a mail of theirs] *)
    hidden,         (* history: keys a fault came between a mail and its receipt *)
    mishaps

history == <<paid, hidden, mishaps>>
adapterVars == <<build, tasks, sent, drafts, mailbox, receipts, intent, call, history>>

(* build_configured_research_providers: the configured ones, in this order. *)
ProviderOrder == <<"exa", "brave", "firecrawl">>
Configured(chosen) == SelectSeq(ProviderOrder, LAMBDA p : p \in chosen)

(* build_configured_email_transport: nothing unless RUN_LIVE_EMAIL is set, SMTP
   before Resend. *)
Environment == {"RUN_LIVE_EMAIL", "SMTP", "RESEND"}
Transport(env) ==
    CASE "RUN_LIVE_EMAIL" \notin env -> "none"
      [] "RUN_LIVE_EMAIL" \in env /\ "SMTP" \in env -> "smtp"
      [] env = {"RUN_LIVE_EMAIL", "RESEND"} -> "resend"
      [] OTHER -> "none"

(* What GET /capabilities reports: the same, of an environment rebuilt from the
   settings, which do not know of Resend; and the research providers it lists. *)
Reported(env) == Transport(env \ {"RESEND"})
Listed(providers) == Range(providers) \ {"brave"}

Builds == {[backend |-> b, providers |-> Configured(c), transport |-> Transport(env),
            reported |-> Reported(env)] :
              b \in {"memory", "mongo"}, c \in SUBSET Range(ProviderOrder), env \in SUBSET Environment}

(* A page or a list that an adapter read; a provider's answer without content is
   an ok result nevertheless, and so is a provider that cannot read. *)
Pages == {"none", "unread", "blank", "full"}
Adapted == Intents \cup {"human_task"}
NoAnswer == [status |-> "none", by |-> "human_task", task |-> 0, page |-> "none"]
Answers == [status : {"none", "ok", "error", "queued_manual"}, by : Adapted,
            task : Nat, page : Pages]
Calls == [pc : {"idle", "vault", "execute", "sender", "send", "reply"},
          key : Keys, by : Adapted, args : BOOLEAN, sender : Instances \cup {"none"},
          answer : Answers]
NoCall == [pc |-> "idle", key |-> CHOOSE k \in Keys : TRUE, by |-> "human_task",
           args |-> TRUE, sender |-> "none", answer |-> NoAnswer]

AdapterTypes ==
    /\ build \in Builds
    /\ tasks \in Seq([key : Keys, outcome : Marks \cup {"none"}])
    /\ sent \subseteq Keys /\ drafts \subseteq Keys
    /\ mailbox \in Seq([key : Keys, from : Instances])
    /\ receipts \in [Keys -> Answers]
    /\ intent \in [Keys -> Intents \cup {"none"}]
    /\ call \in Calls
    /\ paid \in [Keys -> 0 .. mishaps] /\ hidden \subseteq Keys /\ mishaps \in 0 .. MaxMishaps

AdapterInit ==
    /\ build \in Builds
    /\ tasks = <<>> /\ sent = {} /\ drafts = {} /\ mailbox = <<>>
    /\ receipts = [k \in Keys |-> NoAnswer]
    /\ intent = [k \in Keys |-> "none"]
    /\ call = NoCall
    /\ paid = [k \in Keys |-> 0] /\ hidden = {} /\ mishaps = 0

At(pc) == call.pc = pc
Mails(k) == Cardinality({n \in DOMAIN mailbox : mailbox[n].key = k})
TasksOf(k) == {n \in DOMAIN tasks : tasks[n].key = k}

-----------------------------------------------------------------------------
(* Phase1SyscallRegistry.resolve *)

CanHandle(name) ==
    CASE name \in {"lead_research_batch", "read_url", "deep_research"} -> build.providers # <<>>
      [] name = "send_email" -> build.transport # "none"
      [] OTHER -> name # "unsupported"

(* One adapter at most can handle an intent; the tail handles the rest. *)
Resolve(name) == IF CanHandle(name) THEN name ELSE "human_task"

(* The gateway has no receipt for the key, and refuses another request under
   it (Gateway).  The harness supplies the args, so they may be malformed; the
   run loop stamps the sender of a bound instance
   over whatever the request claims. *)
Ask(k, name, args, claimed) ==
    /\ At("idle")
    /\ receipts[k] = NoAnswer
    /\ intent[k] \in {"none", name}
    /\ intent' = [intent EXCEPT ![k] = name]
    /\ call' = [NoCall EXCEPT !.pc = "vault", !.key = k, !.args = args,
                  !.by = Resolve(name),
                  !.sender = IF InstanceOf[k] \in Bound THEN InstanceOf[k] ELSE claimed]
    /\ UNCHANGED <<build, tasks, sent, drafts, mailbox, receipts, history>>

(* An adapter returns a result or raises, and the gateway makes an error result
   of that. *)
Reply(answer) == call' = [call EXCEPT !.pc = "reply", !.answer = [answer EXCEPT !.by = call.by]]
Ok == [NoAnswer EXCEPT !.status = "ok"]
Error == [NoAnswer EXCEPT !.status = "error"]
Queued(n) == [NoAnswer EXCEPT !.status = "queued_manual", !.task = n]

(* self._vault.get(...) *)
Vault ==
    /\ At("vault")
    /\ \/ call' = [call EXCEPT !.pc = "execute"]
       \/ Reply(Error)
    /\ UNCHANGED <<build, tasks, sent, drafts, mailbox, receipts, intent, history>>

Executing(by) == At("execute") /\ call.by \in by

-----------------------------------------------------------------------------
(* The manual tasks *)

(* MongoManualTaskRepository calls the driver without awaiting it, and the
   driver the operator passes is asynchronous: find_one returns a coroutine,
   which is not None, and reading it as a document raises. *)
StoreRaises == build.backend = "mongo"

(* Mutant: a second call with the key queues a second task. *)
BugQueueAgain ==
    /\ Executing({"human_task", "queue_manual_action"})
    /\ IF StoreRaises THEN Reply(Error) /\ UNCHANGED tasks
       ELSE /\ tasks' = Append(tasks, [key |-> call.key, outcome |-> "none"])
            /\ Reply(Queued(Len(tasks) + 1))
    /\ UNCHANGED <<build, sent, drafts, mailbox, receipts, intent, history>>

(* HumanTaskAdapter and QueueManualActionAdapter: enqueue finds the task of the
   key or makes one; a task's id is manual_{its place}. *)
QueueTask ==
    /\ Executing({"human_task", "queue_manual_action"})
    /\ CASE StoreRaises -> Reply(Error) /\ UNCHANGED tasks
         [] ~StoreRaises /\ TasksOf(call.key) # {} ->
              /\ \E n \in TasksOf(call.key) : Reply(Queued(n))
              /\ UNCHANGED tasks
         [] OTHER ->
              /\ tasks' = Append(tasks, [key |-> call.key, outcome |-> "none"])
              /\ Reply(Queued(Len(tasks) + 1))
    /\ UNCHANGED <<build, sent, drafts, mailbox, receipts, intent, history>>

(* MarkOutcomeAdapter, with the id of some task or of none. *)
MarkOutcome(n, outcome) ==
    /\ Executing({"mark_outcome"})
    /\ IF ~call.args \/ StoreRaises \/ n \notin DOMAIN tasks
       THEN Reply(Error) /\ UNCHANGED tasks
       ELSE /\ tasks' = [tasks EXCEPT ![n].outcome = outcome]
            /\ Reply([Ok EXCEPT !.task = n])
    /\ UNCHANGED <<build, sent, drafts, mailbox, receipts, intent, history>>

(* What GET /manual-queue lists: with a database, the store the adapters were
   pointed at; without one, a store of the API's own that they never see. *)
ListOpen ==
    IF build.backend = "mongo"
    THEN {n \in DOMAIN tasks : tasks[n].outcome = "none"} ELSE {}

-----------------------------------------------------------------------------
(* Drafts and reads *)

(* DraftEmailAdapter is a pure function of its args. *)
DraftEmail ==
    /\ Executing({"draft_email"})
    /\ Reply(IF call.args THEN Ok ELSE Error)
    /\ UNCHANGED <<build, tasks, sent, drafts, mailbox, receipts, intent, history>>

(* DraftCandidateTypeAdapter gives every missing or malformed arg a default. *)
DraftCandidate ==
    /\ Executing({"draft_candidate_type"})
    /\ drafts' = drafts \cup {call.key}
    /\ Reply(Ok)
    /\ UNCHANGED <<build, tasks, sent, mailbox, receipts, intent, history>>

(* provider = self._providers[0] *)
Provider == Head(build.providers)

(* What the parsers make of a provider's response. *)
Found == {"blank", "full"}
PageOf(provider) == IF provider = "brave" THEN {"unread"} ELSE {"blank", "full"}

Research ==
    /\ Executing({"lead_research_batch", "read_url"})
    /\ \/ Reply(Error)
       \/ \E page \in IF call.by = "read_url" THEN PageOf(Provider) ELSE Found :
             /\ call.by = "read_url" => call.args
             /\ Reply([Ok EXCEPT !.page = page])
    /\ UNCHANGED <<build, tasks, sent, drafts, mailbox, receipts, intent, history>>

(* Every provider is searched and a source is read by the first one that has
   content; what a provider raises is skipped, so only a missing question is an
   error. *)
Excerpt == {"blank"} \cup UNION {PageOf(p) \ {"unread"} : p \in Range(build.providers)}
DeepResearch ==
    /\ Executing({"deep_research"})
    /\ IF call.args THEN \E page \in Excerpt : Reply([Ok EXCEPT !.page = page]) ELSE Reply(Error)
    /\ UNCHANGED <<build, tasks, sent, drafts, mailbox, receipts, intent, history>>

-----------------------------------------------------------------------------
(* SendEmailAdapter.execute *)

(* Replay a remembered receipt, or go on to await the instance's sender. *)
BeginSend ==
    /\ Executing({"send_email"})
    /\ CASE call.key \in sent -> Reply(Ok)
         [] call.key \notin sent /\ call.sender = "none" -> Reply(Error)
         [] OTHER -> call' = [call EXCEPT !.pc = "sender"]
    /\ UNCHANGED <<build, tasks, sent, drafts, mailbox, receipts, intent, history>>

(* The resolver finds the binding unless the store raises; the claim must be
   the instance's own sender and the other args strings. *)
MaySend(found) ==
    /\ found /\ InstanceOf[call.key] \in Bound
    /\ call.sender = InstanceOf[call.key]
    /\ call.args

ResolveSender ==
    /\ At("sender")
    /\ \E found \in BOOLEAN :
          IF MaySend(found) THEN call' = [call EXCEPT !.pc = "send"] ELSE Reply(Error)
    /\ UNCHANGED <<build, tasks, sent, drafts, mailbox, receipts, intent, history>>

(* A fault that leaves the mail of the key without its receipt. *)
Hides(k) == hidden' = hidden \cup {k} /\ UNCHANGED paid
Forgets(k) == hidden' = hidden \cup {k} /\ paid' = [paid EXCEPT ![k] = @ + 1]

Deliver == mailbox' = Append(mailbox, [key |-> call.key, from |-> call.sender])

(* Mutant: the adapter forgets what it sent. *)
BugForgetReceipt ==
    /\ At("send")
    /\ \/ Deliver /\ Reply(Ok) /\ UNCHANGED <<sent, history>>
       \/ Reply(Error) /\ UNCHANGED <<mailbox, sent, history>>
    /\ UNCHANGED <<build, tasks, drafts, receipts, intent>>

(* await transport.send(...): the mail leaves and the receipt is remembered;
   or nothing leaves and the transport raises; or the mail leaves and the
   transport raises, its reply lost. *)
Send ==
    /\ At("send")
    /\ \/ /\ Deliver
          /\ sent' = sent \cup {call.key}
          /\ Reply(Ok)
          /\ UNCHANGED history
       \/ /\ Reply(Error)
          /\ UNCHANGED <<mailbox, sent, history>>
       \/ /\ mishaps < MaxMishaps
          /\ mishaps' = mishaps + 1
          /\ Forgets(call.key)
          /\ Deliver
          /\ Reply(Error)
          /\ UNCHANGED sent
    /\ UNCHANGED <<build, tasks, drafts, receipts, intent>>

-----------------------------------------------------------------------------
(* The gateway's receipt, and faults *)

(* self._receipts.save(SyscallReceipt.from_execution(stamped, result)) *)
SaveReceipt ==
    /\ At("reply")
    /\ receipts' = [receipts EXCEPT ![call.key] = call.answer]
    /\ call' = NoCall
    /\ UNCHANGED <<build, tasks, sent, drafts, mailbox, intent, history>>

(* The worker is cancelled at an await and started again in this process.  A
   send that is cancelled may have delivered its mail. *)
Cancel ==
    /\ ~At("idle")
    /\ mishaps < MaxMishaps
    /\ mishaps' = mishaps + 1
    /\ call' = NoCall
    /\ \/ /\ Mails(call.key) = 0
          /\ UNCHANGED <<mailbox, hidden, paid>>
       \/ /\ Mails(call.key) > 0
          /\ Hides(call.key)
          /\ UNCHANGED mailbox
       \/ /\ At("send")
          /\ Deliver
          /\ Forgets(call.key)
    /\ UNCHANGED <<build, tasks, sent, drafts, receipts, intent>>

(* The process restarts, perhaps with another environment, between two calls:
   the database survives it and the adapters' memory does not.  Without a
   database nothing survives that could ask again. *)
Restart ==
    /\ At("idle")
    /\ build.backend = "mongo"
    /\ mishaps < MaxMishaps
    /\ mishaps' = mishaps + 1
    /\ \E b \in Builds : b.backend = "mongo" /\ build' = b
    /\ sent' = {} /\ drafts' = {}
    /\ paid' = [k \in Keys |-> IF k \in sent /\ receipts[k] = NoAnswer
                               THEN paid[k] + 1 ELSE paid[k]]
    /\ UNCHANGED <<tasks, mailbox, receipts, intent, call, hidden>>

Perform ==
    \/ QueueTask \/ DraftEmail \/ DraftCandidate \/ Research \/ DeepResearch
    \/ \E n \in 1 .. Len(tasks) + 1, o \in Marks : MarkOutcome(n, o)
    \/ BeginSend \/ ResolveSender \/ Send

AdapterNext ==
    \/ \E k \in Keys, name \in Intents, args \in BOOLEAN, c \in Instances \cup {"none"} :
          Ask(k, name, args, c)
    \/ Vault \/ Perform \/ SaveReceipt
    \/ Cancel \/ Restart

AdapterSpec == AdapterInit /\ [][AdapterNext]_adapterVars

-----------------------------------------------------------------------------
(* Properties *)

(* What the receipts say is what happened, through retries and restarts: a
   queued_manual names the one task of its key, an ok send has a mail, an error
   has none unless a fault hid it, a marked task carries an outcome, and no
   request is both mailed and handed to a human. *)
ReceiptsAreTrue ==
    /\ \A k \in Keys :
        LET a == receipts[k]
        IN  /\ a.status = "queued_manual" => TasksOf(k) = {a.task}
            /\ a.by = "send_email" /\ a.status = "ok" => Mails(k) > 0
            /\ a.by = "send_email" /\ a.status = "error" => Mails(k) = 0 \/ k \in hidden
            /\ a.by = "mark_outcome" /\ a.status = "ok" => tasks[a.task].outcome # "none"
            /\ Mails(k) = 0 \/ TasksOf(k) = {}

(* A mail leaves under its own instance's sender, and twice for one key only if
   a fault made the adapter forget the first: a cancelled or lost reply of the
   transport, or a restart before the gateway saved the receipt. *)
MailIsPaidFor ==
    /\ \A n \in DOMAIN mailbox : mailbox[n].from = InstanceOf[mailbox[n].key]
    /\ \A k \in Keys : Mails(k) <= 1 + paid[k]

(* Promised by the manual-task store and refuted: what falls to the human_task
   tail is a task the operator's queue lists until somebody marks it.  With a
   database the tail answers with an error; without one, the queue that the API
   lists is not the one the tail fills. *)
TailIsListed ==
    \A k \in Keys : receipts[k].by = "human_task" /\ receipts[k].status # "none" =>
        \E n \in TasksOf(k) : n \in ListOpen \/ tasks[n].outcome # "none"

(* Promised of the read paths and refuted when brave comes first: they use the
   first provider that can serve the call. *)
CapableProviderReads ==
    \A k \in Keys : receipts[k].page = "unread" =>
        Range(build.providers) \cap {"exa", "firecrawl"} = {}

(* Promised of GET /capabilities and refuted: it names the transport that is
   wired and every provider that is asked. *)
ReportIsWired ==
    build.reported = build.transport /\ Listed(build.providers) = Range(build.providers)

-----------------------------------------------------------------------------
(* The strengthening of MailIsPaidFor: a key that the adapter does not remember
   and the gateway has no receipt of has no mail but the ones paid for. *)

CallInHand ==
    /\ call = [pc |-> call.pc, key |-> call.key, by |-> call.by, args |-> call.args,
               sender |-> call.sender, answer |-> call.answer]
    /\ call.key \in Keys
    /\ ~At("idle") => receipts[call.key] = NoAnswer
    /\ At("sender") \/ At("send") => call.key \notin sent
    /\ At("send") => call.sender = InstanceOf[call.key]

Known(k) == k \in sent \/ receipts[k] # NoAnswer

PaidInv ==
    /\ CallInHand
    /\ mailbox \in Seq([key : Keys, from : Instances])
    /\ paid \in [Keys -> Nat]
    /\ DOMAIN receipts = Keys
    /\ \A n \in DOMAIN mailbox : mailbox[n].from = InstanceOf[mailbox[n].key]
    /\ \A k \in Keys : Mails(k) <= paid[k] + IF Known(k) THEN 1 ELSE 0

(* The strengthening of ReceiptsAreTrue: the answer in hand tells what happened
   as a receipt does, and a mail without a receipt is hidden or answered ok. *)
Tells(k, answer) ==
    /\ answer.status = "queued_manual" => TasksOf(k) = {answer.task}
    /\ answer.by = "send_email" /\ answer.status = "ok" => Mails(k) > 0
    /\ answer.by = "send_email" /\ answer.status = "error" => Mails(k) = 0 \/ k \in hidden
    /\ answer.by = "mark_outcome" /\ answer.status = "ok" =>
          answer.task \in DOMAIN tasks /\ tasks[answer.task].outcome # "none"

(* Only a process without a database queues tasks, and it is never recomposed:
   what serves a key once serves it always. *)
Queueing == {"human_task", "queue_manual_action"}
OneServesTheKey ==
    /\ tasks # <<>> => build.backend = "memory"
    /\ ~At("idle") => intent[call.key] # "none" /\ call.by = Resolve(intent[call.key])
    /\ At("sender") \/ At("send") => call.by = "send_email"
    /\ \A k \in Keys : TasksOf(k) # {} => intent[k] # "none" /\ Resolve(intent[k]) \in Queueing
    /\ \A k \in Keys : Mails(k) > 0 =>
          /\ intent[k] = "send_email"
          /\ build.backend = "memory" => Resolve("send_email") = "send_email"

AnswersTell ==
    /\ \A k \in Keys : Tells(k, receipts[k])
    /\ At("reply") => Tells(call.key, call.answer)
    /\ \A k \in Keys : \A m, n \in TasksOf(k) : m = n
    /\ \A k \in sent : Mails(k) > 0
    /\ \A k \in Keys : Mails(k) > 0 /\ receipts[k] = NoAnswer =>
          k \in hidden \/ (At("reply") /\ call.key = k /\ call.answer.status = "ok")

ToldInv == AdapterTypes /\ PaidInv /\ OneServesTheKey /\ AnswersTell
=============================================================================
