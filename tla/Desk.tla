--------------------------------- MODULE Desk ---------------------------------
(***************************************************************************)
(* Opening SSH sessions from the interface:                                *)
(*                                                                         *)
(*   crates/app-ui/lib.rs       what is asked for, the events drained once *)
(*                              a frame, and the two prompts;              *)
(*   crates/app-ui/vault.rs     the vault and the prompt over it;          *)
(*   crates/app-ui/ssh.rs       one task per attempt, which asks about the *)
(*                              server's key and waits for the answer;     *)
(*   crates/proto-ssh           the check of the key, and the pin of a     *)
(*                              reconnect.                                 *)
(*                                                                         *)
(* The interface is one thread; every attempt is a task of the runtime,    *)
(* which sends its events on a channel and reads its answer from another.  *)
(***************************************************************************)
EXTENDS HostKeys, FiniteSets

CONSTANTS Saved,         \* sessions to open: host, whether the password is in
                         \* the vault, whether a file browser is wanted
          KnownBefore,   \* known_hosts when the application starts
          VaultsBefore,  \* the vault file there may be: "none", "kept", "unreadable"
          None,          \* nothing
          MaxAttempts,   \* bound: attempts to connect
          MaxChanges     \* bound: times a server comes back with another key

Decisions == {"Accept", "AcceptAndStore", "Reject"}

ASSUME SavedAssumption ==
  Saved \subseteq [host : Hosts, stored : BOOLEAN, files : BOOLEAN]
ASSUME KnownBeforeAssumption == KnownBefore \in Seq(Lines)
ASSUME VaultsBeforeAssumption == VaultsBefore \subseteq {"none", "kept", "unreadable"}
ASSUME NoneAssumption == None \notin Saved \cup Keys /\ None \notin Decisions
ASSUME BoundsAssumption == {MaxAttempts, MaxChanges} \subseteq Nat

Attempts == 1 .. MaxAttempts

VARIABLES
  \* the vault
  vaultFile,    \* what is on disk
  vault,        \* "closed", "kept" when it was unlocked, "fresh" when created
  prompt,       \* VaultState::prompt: "none", "Unlock" or "Create"
  resumes,      \* VaultState::pending: whether a session waits behind it
  waiting,      \* BestTermApp::pending_session
  \* the interface
  question,     \* BestTermApp::pending_host_key: the attempt asking, 0 for none
  tabs,         \* the attempts with a tab on their session
  ended,        \* those of them whose session is over
  known,        \* known_hosts
  said,         \* every host and key the person has said yes to
  \* the runtime
  events,       \* the channel to the interface
  attempts,     \* what each attempt is doing
  \* the servers
  presents,     \* the key each has now
  changes       \* how many times one changed

vaultVars == <<vaultFile, vault, prompt, resumes, waiting>>
deskVars == <<question, tabs, ended, known, said>>
serverVars == <<presents, changes>>
vars == <<vaultFile, vault, prompt, resumes, waiting, question, tabs, ended, known, said,
          events, attempts, presents, changes>>

\* What an attempt is given: the host, whether a file browser is wanted, the
\* lines of known_hosts, and the key it pins if it is a reconnect.
Request(host, files, file, pin) == [host |-> host, files |-> files, file |-> file, pin |-> pin]

\* And where it is: the key it was shown, what is in its channel of answers,
\* and what was decided.
Attempt(stage, request, key, reply, decision) ==
  [stage |-> stage, request |-> request, key |-> key, reply |-> reply, decision |-> decision]

NoAttempt == Attempt("none", Request(None, FALSE, <<>>, None), None, None, None)

Event(kind, a) == [kind |-> kind, attempt |-> a]

Init ==
  /\ vaultFile \in VaultsBefore
  /\ vault = "closed"
  /\ prompt = "none"
  /\ resumes = FALSE
  /\ waiting = None
  /\ question = 0
  /\ tabs = {}
  /\ ended = {}
  /\ known = KnownBefore
  /\ said = {}
  /\ events = <<>>
  /\ attempts = [a \in Attempts |-> NoAttempt]
  /\ presents \in [Hosts -> Keys]
  /\ changes = 0

------------------------------------------------------------------------------
(* Asking for a session                                                    *)

\* A modal prompt keeps the rest of the window from being clicked.
Clickable == prompt = "none" /\ question = 0

\* ssh::connect and ssh::reconnect: a task of its own.
Starts(a, host, files, file, pin) ==
  /\ attempts[a].stage = "none"
  /\ \A b \in Attempts : b < a => attempts[b].stage # "none"
  /\ attempts' = [attempts EXCEPT ![a] =
       Attempt("dialling", Request(host, files, file, pin), None, None, None)]

\* connect_ssh and connect_files, once resolve_auth has found the credential:
\* it is given what known_hosts says at this moment.
Connect(c, open) ==
  \/ /\ c.stored => open = "kept"
     /\ \E a \in Attempts : Starts(a, c.host, c.files, known, None)
  \/ /\ c.stored /\ open = "fresh"      \* "the vault holds no entry"
     /\ UNCHANGED attempts

\* VaultState::ask
Ask(forSession) ==
  /\ vault = "closed"
  /\ prompt' = IF vaultFile = "kept" THEN "Unlock" ELSE "Create"
  /\ resumes' = forSession

Open(c) ==
  /\ Clickable
  /\ \/ /\ c.stored => vault # "closed"
        /\ Connect(c, vault)
        /\ UNCHANGED vaultVars
     \/ /\ c.stored
        /\ Ask(TRUE)
        /\ waiting' = c
        /\ UNCHANGED <<vaultFile, vault, attempts>>
  /\ UNCHANGED <<deskVars, events, serverVars>>

\* The Configuration dialog's row of passwords.
OpenPasswords ==
  /\ Clickable
  /\ Ask(FALSE)
  /\ UNCHANGED <<vaultFile, vault, waiting, deskVars, events, attempts, serverVars>>

\* reconnect_tab: a terminal whose session is over, with the key it saw.
Reconnect(t) ==
  /\ Clickable
  /\ t \in ended
  /\ ~attempts[t].request.files
  /\ \E a \in Attempts : Starts(a, attempts[t].request.host, FALSE, <<>>, attempts[t].key)
  /\ UNCHANGED <<vaultVars, deskVars, events, serverVars>>

CloseTab(t) ==
  /\ Clickable
  /\ t \in tabs
  /\ tabs' = tabs \ {t}
  /\ ended' = ended \ {t}
  /\ UNCHANGED <<vaultVars, question, known, said, events, attempts, serverVars>>

------------------------------------------------------------------------------
(* The prompt over the vault                                               *)

CancelPrompt ==
  /\ prompt # "none"
  /\ prompt' = "none"
  /\ resumes' = FALSE
  /\ waiting' = None
  /\ UNCHANGED <<vaultFile, vault, deskVars, events, attempts, serverVars>>

\* submit: the repeat does not match, nothing was typed, the password is
\* wrong or the file has gone.  The prompt stays, and pending_session has
\* been taken all the same.
Refused ==
  /\ prompt # "none"
  /\ waiting' = None
  /\ UNCHANGED <<vaultFile, vault, prompt, resumes, deskVars, events, attempts, serverVars>>

\* submit: the vault is open.  A new one is written at once, over whatever
\* was there; a failure to write it is logged.
Opens ==
  /\ \/ /\ prompt = "Unlock"
        /\ vault' = "kept"
        /\ UNCHANGED vaultFile
     \/ /\ prompt = "Create"
        /\ vault' = "fresh"
        /\ vaultFile' \in {"kept", vaultFile}
  /\ prompt' = "none"
  /\ resumes' = FALSE
  /\ waiting' = None
  /\ IF resumes /\ waiting # None THEN Connect(waiting, vault') ELSE UNCHANGED attempts
  /\ UNCHANGED <<deskVars, events, serverVars>>

------------------------------------------------------------------------------
(* One attempt: a task of the runtime                                      *)

Sends(kind, a) == events' = Append(events, Event(kind, a))

\* It goes on, having been shown key k and decided d about it.
Goes(a, stage, k, d) ==
  attempts' = [attempts EXCEPT ![a] =
    Attempt(stage, attempts[a].request, k, attempts[a].reply, d)]

\* The key is let through, or the task is done but for telling the interface.
LetsIn(a, k, d) == Goes(a, "allowed", k, d) /\ UNCHANGED events
Refuses(a, k) == Goes(a, "ended", k, "Reject") /\ Sends("failed", a)

\* HostKeyChecker::check with the pin of a reconnect, which has no file to
\* consult and asks nobody.
CheckPinned(a, k) ==
  \/ k = attempts[a].request.pin /\ LetsIn(a, k, "Accept")
  \/ k # attempts[a].request.pin /\ Refuses(a, k)

\* And with the person to ask: a revoked key never is a question, and a
\* trusted one needs none.
CheckAndAsk(a, k) ==
  LET verdict == Verify(attempts[a].request.file, attempts[a].request.host, k)
  IN \/ verdict = "trusted" /\ LetsIn(a, k, "Accept")
     \/ verdict = "revoked" /\ Refuses(a, k)
     \/ /\ verdict \in {"changed", "unknown"}
        /\ Goes(a, "asking", k, None)
        /\ Sends("question", a)

\* The server shows its key.
Present(a) ==
  /\ attempts[a].stage = "dialling"
  /\ LET k == presents[attempts[a].request.host]
     IN \/ attempts[a].request.pin # None /\ CheckPinned(a, k)
        \/ attempts[a].request.pin = None /\ CheckAndAsk(a, k)
  /\ UNCHANGED <<vaultVars, deskVars, serverVars>>

\* PromptingVerifier hears the answer ...
Hear(a) ==
  /\ attempts[a].stage = "asking"
  /\ \/ attempts[a].reply = "Reject" /\ Refuses(a, attempts[a].key)
     \/ /\ attempts[a].reply \in {"Accept", "AcceptAndStore"}
        /\ LetsIn(a, attempts[a].key, attempts[a].reply)
  /\ UNCHANGED <<vaultVars, deskVars, serverVars>>

\* Mutant: it waits for as long as it takes.
WaitOn(a) == FALSE

\* ... or has waited for PROMPT_TIMEOUT.
TimeOut(a) ==
  /\ attempts[a].stage = "asking"
  /\ attempts[a].reply = None
  /\ Refuses(a, attempts[a].key)
  /\ UNCHANGED <<vaultVars, deskVars, serverVars>>

\* Nothing answers, authentication fails or the shell is refused ...
Fail(a) ==
  /\ attempts[a].stage \in {"dialling", "allowed"}
  /\ Goes(a, "ended", attempts[a].key, attempts[a].decision)
  /\ Sends("failed", a)
  /\ UNCHANGED <<vaultVars, deskVars, serverVars>>

\* ... or the session is there, with what a tab needs.
Succeed(a) ==
  /\ attempts[a].stage = "allowed"
  /\ Goes(a, "open", attempts[a].key, attempts[a].decision)
  /\ Sends("opened", a)
  /\ UNCHANGED <<vaultVars, deskVars, serverVars>>

------------------------------------------------------------------------------
(* drain_sessions, one event at a time                                     *)

\* An answer reaches whoever still waits for it, and otherwise nobody.
Reply(a, d) ==
  IF attempts[a].stage = "asking"
  THEN attempts' = [attempts EXCEPT ![a] =
         Attempt("asking", attempts[a].request, attempts[a].key, d, attempts[a].decision)]
  ELSE UNCHANGED attempts

\* One question at a time: while one is on screen the others are refused.
DrainQuestion(a) ==
  /\ \/ /\ question = 0
        /\ question' = a
        /\ UNCHANGED attempts
     \/ /\ question # 0
        /\ Reply(a, "Reject")
        /\ UNCHANGED question
  /\ UNCHANGED <<tabs, ended, known, said>>

\* The key is written down if that was the answer, and if the file can be.
DrainOpened(a) ==
  /\ tabs' = tabs \cup {a}
  /\ Goes(a, "told", attempts[a].key, attempts[a].decision)
  /\ \/ /\ attempts[a].decision = "AcceptAndStore"
        /\ known' = Append(known, Record(attempts[a].request.host, attempts[a].key))
     \/ UNCHANGED known
  /\ UNCHANGED <<question, ended, said>>

\* A notice.
DrainFailed(a) ==
  /\ Goes(a, "told", attempts[a].key, attempts[a].decision)
  /\ UNCHANGED deskVars

Drain ==
  /\ events # <<>>
  /\ LET a == Head(events).attempt
         kind == Head(events).kind
     IN \/ kind = "question" /\ DrainQuestion(a)
        \/ kind = "opened" /\ DrainOpened(a)
        \/ kind = "failed" /\ DrainFailed(a)
  /\ events' = Tail(events)
  /\ UNCHANGED <<vaultVars, serverVars>>

\* Mutant: the answer goes to whoever asked last.
AnswerTheLast(decision) ==
  /\ question # 0
  /\ \E a \in Attempts :
       /\ attempts[a].stage = "asking"
       /\ \A b \in Attempts : attempts[b].stage = "asking" => b <= a
       /\ Reply(a, decision)
  /\ said' = IF decision = "Reject" THEN said
             ELSE said \cup {<<attempts[question].request.host, attempts[question].key>>}
  /\ question' = 0
  /\ UNCHANGED <<vaultVars, tabs, ended, known, events, serverVars>>

\* host_key_prompt: the person answers what is on screen.
Answer(decision) ==
  /\ question # 0
  /\ Reply(question, decision)
  /\ said' = IF decision = "Reject" THEN said
             ELSE said \cup {<<attempts[question].request.host, attempts[question].key>>}
  /\ question' = 0
  /\ UNCHANGED <<vaultVars, tabs, ended, known, events, serverVars>>

------------------------------------------------------------------------------
(* The servers                                                             *)

\* A server is rebuilt, or something else answers for its address.
ChangeKey(h, k) ==
  /\ changes < MaxChanges
  /\ k # presents[h]
  /\ presents' = [presents EXCEPT ![h] = k]
  /\ changes' = changes + 1
  /\ UNCHANGED <<vaultVars, deskVars, events, attempts>>

\* A session ends, and its terminal shows it.
SessionEnds(t) ==
  /\ t \in tabs \ ended
  /\ ended' = ended \cup {t}
  /\ UNCHANGED <<vaultVars, question, tabs, known, said, events, attempts, serverVars>>

------------------------------------------------------------------------------

Next ==
  \/ \E c \in Saved : Open(c)
  \/ OpenPasswords \/ CancelPrompt \/ Refused \/ Opens
  \/ Drain
  \/ \E d \in Decisions : Answer(d)
  \/ \E a \in Attempts :
       \/ Present(a) \/ Hear(a) \/ TimeOut(a) \/ Fail(a) \/ Succeed(a)
       \/ Reconnect(a) \/ CloseTab(a) \/ SessionEnds(a)
  \/ \E h \in Hosts, k \in Keys : ChangeKey(h, k)

\* A frame is painted whenever an event was sent, a task of the runtime goes
\* on, a dialled server answers or does not, and the clock runs.  Nobody has
\* to answer a prompt.
Fairness ==
  /\ WF_vars(Drain)
  /\ \A a \in Attempts :
       WF_vars(Present(a) \/ Hear(a) \/ TimeOut(a) \/ Fail(a) \/ Succeed(a))

Spec == Init /\ [][Next]_vars /\ Fairness

------------------------------------------------------------------------------
(* What should hold                                                        *)

Stages == {"none", "dialling", "asking", "allowed", "open", "ended", "told"}

Requests == [host : Hosts \cup {None}, files : BOOLEAN, file : Seq(Lines), pin : Keys \cup {None}]

AllAttempts == [stage : Stages, request : Requests, key : Keys \cup {None},
                reply : Decisions \cup {None}, decision : Decisions \cup {None}]

AllEvents == [kind : {"question", "opened", "failed"}, attempt : Attempts]

\* Every variable keeps to the values the code can give it.
TypeOK ==
  /\ vaultFile \in {"none", "kept", "unreadable"}
  /\ vault \in {"closed", "kept", "fresh"}
  /\ prompt \in {"none", "Unlock", "Create"}
  /\ resumes \in BOOLEAN
  /\ waiting \in Saved \cup {None}
  /\ question \in Attempts \cup {0}
  /\ ended \subseteq tabs /\ tabs \subseteq Attempts
  /\ known \in Seq(Lines)
  /\ said \subseteq Hosts \X Keys
  /\ events \in Seq(AllEvents)
  /\ attempts \in [Attempts -> AllAttempts]
  /\ presents \in [Hosts -> Keys]
  /\ changes \in Nat

\* The attempts whose server's key was let through.
LetIn == {a \in Attempts : attempts[a].decision \in {"Accept", "AcceptAndStore"}}

\* A session goes on past the key only of a host the file trusted when the
\* application started, or for which somebody said yes to this very key:
\* whatever the order of questions, of late answers, of refusals, of lines
\* written and of reconnects with a pin.
TrustIsFromAPerson ==
  \A a \in LetIn :
    \/ IsTrusted(KnownBefore, attempts[a].request.host, attempts[a].key)
    \/ <<attempts[a].request.host, attempts[a].key>> \in said

\* A key the file revokes before it trusts it is never let through, nor ever
\* a question on the screen.
RevokedStaysOut ==
  \A a \in Attempts :
    IsRevoked(KnownBefore, attempts[a].request.host, attempts[a].key) => a \notin LetIn /\ a # question

\* A session that waits for the vault waits behind a prompt that will open it.
WaitingHasAPrompt == waiting # None => prompt # "none" /\ resumes

\* Unlocking the vault over a session that waits for it begins that session.
WaitingIsResumed ==
  [][waiting # None /\ vault = "closed" /\ vault' = "kept" =>
       \E a \in Attempts :
         /\ attempts[a].stage = "none" /\ attempts'[a].stage = "dialling"
         /\ attempts'[a].request.host = waiting.host
         /\ attempts'[a].request.files = waiting.files]_vars

\* A session that waits for the vault does so behind a prompt that is on the screen,
\* and is an attempt once the vault is unlocked there; an attempt ends as a tab or
\* as a notice, whether or not anybody answers its question.  A session forgotten
\* after a wrong password (Refused) waits no longer, and nothing is said of it
\* here: see WaitsUntilAnswered.
EveryAttemptIsTold ==
  /\ []WaitingHasAPrompt
  /\ WaitingIsResumed
  /\ \A a \in Attempts : (attempts[a].stage # "none") ~> (attempts[a].stage = "told")

\* What VaultState::pending is for, "so the work can continue once it is
\* answered": a session stops waiting only when the prompt is dismissed or
\* when the vault opens.
WaitsUntilAnswered ==
  [][waiting # None /\ waiting' = None => prompt' = "none"]_vars

==============================================================================
