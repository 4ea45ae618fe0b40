----------------------------- MODULE Desk_proofs -----------------------------
(***************************************************************************)
(* For any hosts, keys, known_hosts file and number of attempts: no        *)
(* session goes on past a server's key that the file did not trust and     *)
(* nobody accepted, and a revoked key is neither let through nor asked     *)
(* about.                                                                  *)
(***************************************************************************)
EXTENDS Desk, TLAPS

Accepts == {"Accept", "AcceptAndStore"}

\* What the first lines of a file say of a key stands, whatever is appended;
\* and what is appended, the person has said.
Grown(file, yes) ==
  /\ file \in Seq(Lines)
  /\ Len(KnownBefore) <= Len(file)
  /\ \A i \in 1 .. Len(KnownBefore) : file[i] = KnownBefore[i]
  /\ \A i \in Len(KnownBefore) + 1 .. Len(file) :
       \E h \in Hosts, k \in Keys : file[i] = Record(h, k) /\ <<h, k>> \in yes

\* A key that may be let through.
Welcome(h, k, yes) ==
  /\ k \in Keys
  /\ IsTrusted(KnownBefore, h, k) \/ <<h, k>> \in yes
  /\ ~IsRevoked(KnownBefore, h, k)

\* An attempt is given a file that has only grown, or a pin that was welcome;
\* it asks about a key that is not revoked, an answer in its channel is what
\* was said of this key, and it goes on past a welcome key only.
RequestIsSound(r, yes) ==
  /\ r.host \in Hosts
  /\ r.pin = None => Grown(r.file, yes)
  /\ r.pin # None => Welcome(r.host, r.pin, yes)

AttemptIsSound(r, yes) ==
  /\ r.stage # "none" => RequestIsSound(r.request, yes)
  /\ r.stage = "dialling" => r.reply \notin Accepts
  /\ r.stage = "asking" => r.key \in Keys /\ ~IsRevoked(KnownBefore, r.request.host, r.key)
  /\ r.stage = "asking" /\ r.reply \in Accepts => <<r.request.host, r.key>> \in yes
  /\ r.decision \in Accepts =>
       /\ Welcome(r.request.host, r.key, yes)
       /\ r.stage \in {"allowed", "open", "ended", "told"}
  /\ r.decision = "AcceptAndStore" => <<r.request.host, r.key>> \in yes
  /\ r.stage \in {"allowed", "open"} => r.decision \in Accepts

AttemptsAreSound == \A a \in Attempts : AttemptIsSound(attempts[a], said)

Queued(queue, e) == \E i \in DOMAIN queue : queue[i] = e

\* A question, on the screen or on its way there, is about a key that is not
\* revoked, and stays the same question.
QuestionIsSound(r) ==
  /\ r.stage \notin {"none", "dialling"}
  /\ r.key \in Keys
  /\ ~IsRevoked(KnownBefore, r.request.host, r.key)

QuestionsAreSound ==
  \A a \in Attempts :
    question = a \/ Queued(events, Event("question", a)) => QuestionIsSound(attempts[a])

\* A tab, or a session on its way to one, was let in; a failure was tried.
TabsAreLetIn ==
  \A a \in Attempts :
    /\ a \in tabs \/ Queued(events, Event("opened", a)) => attempts[a].decision \in Accepts
    /\ Queued(events, Event("failed", a)) => attempts[a].stage # "none"

KnownIsSound == Grown(known, said)
SaidIsSound == \A h \in Hosts, k \in Keys : <<h, k>> \in said => ~IsRevoked(KnownBefore, h, k)

IInv ==
  /\ TypeOK
  /\ AttemptsAreSound
  /\ QuestionsAreSound
  /\ TabsAreLetIn
  /\ KnownIsSound
  /\ SaidIsSound

------------------------------------------------------------------------------
(* What a file says                                                        *)

LEMMA TrustedIsNotRevoked ==
  ASSUME NEW file \in Seq(Lines), NEW h, NEW k, IsTrusted(file, h, k)
  PROVE  ~IsRevoked(file, h, k)
  BY DEF IsTrusted, IsRevoked, Decides, Same, Applies

\* The first line to decide still decides when lines are appended.
LEMMA FirstStays ==
  ASSUME NEW yes, NEW file, Grown(file, yes), NEW h, NEW k,
         NEW i \in 1 .. Len(KnownBefore)
  PROVE  Decides(KnownBefore, h, k, i) <=> Decides(file, h, k, i)
  <1>1. KnownBefore \in Seq(Lines) /\ file \in Seq(Lines) /\ Len(KnownBefore) <= Len(file)
    BY KnownBeforeAssumption DEF Grown
  <1>2. \A j \in 1 .. Len(KnownBefore) : j \in Same(KnownBefore, h, k) <=> j \in Same(file, h, k)
    BY <1>1 DEF Grown, Same, Applies
  <1>3. Same(KnownBefore, h, k) \subseteq 1 .. Len(KnownBefore) /\ Same(file, h, k) \subseteq 1 .. Len(file)
    BY <1>1 DEF Same, Applies
  <1> QED
    BY <1>1, <1>2, <1>3 DEF Decides

LEMMA RevokedStays ==
  ASSUME NEW yes, NEW file, Grown(file, yes), NEW h, NEW k, IsRevoked(KnownBefore, h, k)
  PROVE  IsRevoked(file, h, k)
  <1>1. PICK i \in DOMAIN KnownBefore : Decides(KnownBefore, h, k, i) /\ KnownBefore[i].marker = "revoked"
    BY DEF IsRevoked
  <1>2. i \in 1 .. Len(KnownBefore) /\ i \in DOMAIN file /\ file[i] = KnownBefore[i]
    BY KnownBeforeAssumption DEF Grown
  <1> QED
    BY <1>1, <1>2, FirstStays DEF IsRevoked

\* What a file that has grown trusts, it trusted before or the person did.
LEMMA TrustedIsWelcome ==
  ASSUME NEW yes, NEW file, Grown(file, yes), NEW h \in Hosts, NEW k \in Keys,
         IsTrusted(file, h, k)
  PROVE  Welcome(h, k, yes)
  <1>1. file \in Seq(Lines) /\ KnownBefore \in Seq(Lines)
    BY KnownBeforeAssumption DEF Grown
  <1>2. ~IsRevoked(KnownBefore, h, k)
    BY <1>1, TrustedIsNotRevoked, RevokedStays
  <1>3. PICK i \in 1 .. Len(file) : Decides(file, h, k, i) /\ file[i].marker = "none"
    BY <1>1 DEF IsTrusted
  <1>4. CASE i \in 1 .. Len(KnownBefore)
    <2>1. file[i] = KnownBefore[i] /\ i \in DOMAIN KnownBefore
      BY <1>1, <1>4 DEF Grown
    <2>2. IsTrusted(KnownBefore, h, k)
      BY <1>3, <1>4, <2>1, FirstStays DEF IsTrusted
    <2> QED
      BY <1>2, <2>2 DEF Welcome
  <1>5. CASE i \notin 1 .. Len(KnownBefore)
    <2>1. i \in Len(KnownBefore) + 1 .. Len(file)
      BY <1>1, <1>5
    <2>2. PICK g \in Hosts, l \in Keys : file[i] = Record(g, l) /\ <<g, l>> \in yes
      BY <2>1 DEF Grown
    <2>3. h = g /\ k = l
      BY <1>3, <2>2 DEF Decides, Same, Applies, Record, Line
    <2> QED
      BY <1>2, <2>2, <2>3 DEF Welcome
  <1> QED
    BY <1>4, <1>5

LEMMA GrownByOne ==
  ASSUME NEW yes, NEW file, Grown(file, yes), NEW h \in Hosts, NEW k \in Keys, <<h, k>> \in yes
  PROVE  Grown(Append(file, Record(h, k)), yes)
  <1>1. file \in Seq(Lines) /\ KnownBefore \in Seq(Lines) /\ Len(KnownBefore) <= Len(file)
    BY KnownBeforeAssumption DEF Grown
  <1>2. Record(h, k) \in Lines
    BY DEF Record, Line, Lines, Markers
  <1> DEFINE longer == Append(file, Record(h, k))
  <1>3. /\ longer \in Seq(Lines)
        /\ Len(longer) = Len(file) + 1
        /\ \A i \in 1 .. Len(file) : longer[i] = file[i]
        /\ longer[Len(file) + 1] = Record(h, k)
    BY <1>1, <1>2
  <1> HIDE DEF longer
  <1>4. \A i \in 1 .. Len(KnownBefore) : longer[i] = KnownBefore[i]
    BY <1>1, <1>3 DEF Grown
  <1>5. \A i \in Len(KnownBefore) + 1 .. Len(longer) : i \in 1 .. Len(file) \/ i = Len(file) + 1
    BY <1>1, <1>3
  <1>6. ASSUME NEW i \in Len(KnownBefore) + 1 .. Len(longer)
        PROVE  \E g \in Hosts, l \in Keys : longer[i] = Record(g, l) /\ <<g, l>> \in yes
    <2>1. CASE i = Len(file) + 1
      BY <1>3, <2>1
    <2>2. CASE i \in 1 .. Len(file)
      <3>1. i \in Len(KnownBefore) + 1 .. Len(file)
        BY <1>1, <2>2
      <3> QED
        BY <1>3, <2>2, <3>1 DEF Grown
    <2> QED
      BY <1>5, <2>1, <2>2
  <1>7. Len(KnownBefore) <= Len(longer)
    BY <1>1, <1>3
  <1>8. Grown(longer, yes)
    BY ONLY <1>3, <1>4, <1>6, <1>7 DEF Grown
  <1> QED
    BY <1>8 DEF longer

\* Saying yes once more takes nothing back.
LEMMA SoundWithMore ==
  ASSUME NEW yes, NEW more, yes \subseteq more
  PROVE  /\ \A file : Grown(file, yes) => Grown(file, more)
         /\ \A r : AttemptIsSound(r, yes) => AttemptIsSound(r, more)
  <1>1. \A file : Grown(file, yes) => Grown(file, more)
    BY DEF Grown
  <1>2. \A h, k : Welcome(h, k, yes) => Welcome(h, k, more)
    BY DEF Welcome
  <1> QED
    BY <1>1, <1>2 DEF AttemptIsSound, RequestIsSound

\* A queue after one more, and after one less.
LEMMA QueueAfter ==
  ASSUME NEW S, NEW queue \in Seq(S), NEW e \in S
  PROVE  \A x : Queued(Append(queue, e), x) => x = e \/ Queued(queue, x)
  BY DEF Queued

LEMMA QueueBefore ==
  ASSUME NEW S, NEW queue \in Seq(S), queue # <<>>
  PROVE  /\ Queued(queue, Head(queue))
         /\ \A x : Queued(Tail(queue), x) => Queued(queue, x)
  BY DEF Queued

------------------------------------------------------------------------------
(* What a step does to the attempts                                        *)

LEMMA AttemptTyped ==
  ASSUME NEW stage \in Stages, NEW request \in Requests, NEW key \in Keys \cup {None},
         NEW reply \in Decisions \cup {None}, NEW decision \in Decisions \cup {None}
  PROVE  Attempt(stage, request, key, reply, decision) \in AllAttempts
  BY DEF Attempt, AllAttempts

\* A decision is not the absence of one.
LEMMA NoneIsNoDecision == None \notin Accepts
  BY NoneAssumption DEF Accepts, Decisions

LEMMA AttemptFields ==
  ASSUME NEW r \in AllAttempts
  PROVE  /\ r.stage \in Stages /\ r.request \in Requests /\ r.key \in Keys \cup {None}
         /\ r.reply \in Decisions \cup {None} /\ r.decision \in Decisions \cup {None}
  BY DEF AllAttempts

LEMMA GoesTyped ==
  ASSUME attempts \in [Attempts -> AllAttempts], NEW a \in Attempts, NEW stage \in Stages,
         NEW k \in Keys \cup {None}, NEW d \in Decisions \cup {None}, Goes(a, stage, k, d)
  PROVE  /\ attempts' \in [Attempts -> AllAttempts]
         /\ attempts'[a] = Attempt(stage, attempts[a].request, k, attempts[a].reply, d)
         /\ \A b \in Attempts \ {a} : attempts'[b] = attempts[b]
  <1>1. Attempt(stage, attempts[a].request, k, attempts[a].reply, d) \in AllAttempts
    BY AttemptTyped, AttemptFields
  <1> QED
    BY <1>1 DEF Goes

LEMMA ReplyTyped ==
  ASSUME attempts \in [Attempts -> AllAttempts], NEW a \in Attempts, NEW d \in Decisions,
         Reply(a, d)
  PROVE  /\ attempts' \in [Attempts -> AllAttempts]
         /\ attempts'[a] = IF attempts[a].stage = "asking"
                           THEN Attempt("asking", attempts[a].request, attempts[a].key, d,
                                        attempts[a].decision)
                           ELSE attempts[a]
         /\ \A b \in Attempts \ {a} : attempts'[b] = attempts[b]
  <1>1. CASE attempts[a].stage = "asking"
    <2>1. Attempt("asking", attempts[a].request, attempts[a].key, d, attempts[a].decision) \in AllAttempts
      BY AttemptTyped, AttemptFields DEF Stages
    <2> QED
      BY <1>1, <2>1 DEF Reply
  <1>2. CASE attempts[a].stage # "asking"
    BY <1>2 DEF Reply
  <1> QED
    BY <1>1, <1>2

LEMMA StartsTyped ==
  ASSUME attempts \in [Attempts -> AllAttempts], NEW a \in Attempts, NEW host \in Hosts,
         NEW files \in BOOLEAN, NEW file \in Seq(Lines), NEW pin \in Keys \cup {None},
         Starts(a, host, files, file, pin)
  PROVE  /\ attempts' \in [Attempts -> AllAttempts]
         /\ attempts[a].stage = "none"
         /\ attempts'[a] = Attempt("dialling", Request(host, files, file, pin), None, None, None)
         /\ \A b \in Attempts \ {a} : attempts'[b] = attempts[b]
  <1>1. Request(host, files, file, pin) \in Requests
    BY DEF Request, Requests
  <1>2. Attempt("dialling", Request(host, files, file, pin), None, None, None) \in AllAttempts
    BY <1>1, AttemptTyped DEF Stages
  <1> QED
    BY <1>2 DEF Starts

\* Connecting to a saved session starts an attempt with the lines of the
\* moment and no pin, or nothing.
LEMMA Connects ==
  ASSUME TypeOK, NEW c \in Saved, NEW open, Connect(c, open)
  PROVE  \/ UNCHANGED attempts
         \/ \E a \in Attempts : /\ Starts(a, c.host, c.files, known, None)
                                /\ c.host \in Hosts /\ c.files \in BOOLEAN
  BY SavedAssumption DEF Connect

------------------------------------------------------------------------------
(* One attempt: every step of a task is one of these                       *)

Next1(a, stage, k, d) == Attempt(stage, attempts[a].request, k, attempts[a].reply, d)

Moves(a, stage, k, d) ==
  /\ Goes(a, stage, k, d)
  /\ stage \in Stages \ {"none", "dialling"}
  /\ k \in Keys \cup {None}
  /\ d \in Decisions \cup {None}
  /\ attempts[a].stage = "dialling" \/ k = attempts[a].key
  /\ attempts[a].stage # "none"
  /\ attempts[a].decision \in Accepts => d \in Accepts
  /\ AttemptIsSound(Next1(a, stage, k, d), said)

Advances(a, stage, k, d) ==
  /\ Moves(a, stage, k, d)
  /\ \/ UNCHANGED events
     \/ Sends("question", a) /\ QuestionIsSound(Next1(a, stage, k, d))
     \/ Sends("opened", a) /\ d \in Accepts
     \/ Sends("failed", a)

LEMMA PresentAdvances ==
  ASSUME IInv, NEW a \in Attempts, Present(a)
  PROVE  \E stage, k, d : Advances(a, stage, k, d)
  <1> DEFINE r == attempts[a]
             k == presents[r.request.host]
  <1>1. r \in AllAttempts /\ r.stage = "dialling" /\ AttemptIsSound(r, said)
    BY DEF Present, IInv, TypeOK, AttemptsAreSound
  <1>2. /\ RequestIsSound(r.request, said) /\ r.request.host \in Hosts
        /\ r.reply \notin Accepts /\ r.decision \notin Accepts
    BY <1>1 DEF AttemptIsSound, RequestIsSound
  <1>3. k \in Keys
    BY <1>2 DEF IInv, TypeOK
  <1>4. ASSUME Welcome(r.request.host, k, said), LetsIn(a, k, "Accept")
        PROVE  Advances(a, "allowed", k, "Accept")
    BY <1>1, <1>2, <1>3, <1>4
       DEF LetsIn, Advances, Moves, Next1, Attempt, AttemptIsSound, Stages, Decisions, Accepts
  <1>5. ASSUME Refuses(a, k)
        PROVE  Advances(a, "ended", k, "Reject")
    BY <1>1, <1>2, <1>3, <1>5
       DEF Refuses, Advances, Moves, Next1, Attempt, AttemptIsSound, Stages, Decisions, Accepts
  <1>6. ASSUME r.request.pin # None, CheckPinned(a, k)
        PROVE  \E stage, l, d : Advances(a, stage, l, d)
    <2>1. Welcome(r.request.host, r.request.pin, said)
      BY <1>2, <1>6 DEF RequestIsSound
    <2> QED
      BY <1>4, <1>5, <1>6, <2>1 DEF CheckPinned
  <1>7. ASSUME r.request.pin = None, CheckAndAsk(a, k)
        PROVE  \E stage, l, d : Advances(a, stage, l, d)
    <2> DEFINE file == r.request.file
               host == r.request.host
    <2>1. Grown(file, said) /\ file \in Seq(Lines)
      BY <1>2, <1>7 DEF RequestIsSound, Grown
    <2>2. CASE Verify(file, host, k) = "trusted" /\ LetsIn(a, k, "Accept")
      <3>1. IsTrusted(file, host, k)
        BY <2>2 DEF Verify
      <3> QED
        BY <1>2, <1>3, <1>4, <2>1, <2>2, <3>1, TrustedIsWelcome
    <2>3. CASE Verify(file, host, k) = "revoked" /\ Refuses(a, k)
      BY <1>5, <2>3
    <2>4. CASE /\ Verify(file, host, k) \in {"changed", "unknown"}
               /\ Goes(a, "asking", k, None)
               /\ Sends("question", a)
      <3>1. ~IsRevoked(KnownBefore, host, k)
        <4>1. ~IsRevoked(file, host, k)
          BY <2>1, <2>4, TrustedIsNotRevoked DEF Verify
        <4> QED
          BY <2>1, <4>1, RevokedStays
      <3>2. Advances(a, "asking", k, None)
        BY <1>1, <1>2, <1>3, <2>4, <3>1, NoneIsNoDecision
           DEF Advances, Moves, Next1, Attempt, AttemptIsSound, QuestionIsSound, Stages, Accepts
      <3> QED
        BY <3>2
    <2> QED
      BY <1>7, <2>2, <2>3, <2>4 DEF CheckAndAsk
  <1> QED
    BY <1>6, <1>7 DEF Present

LEMMA OthersAdvance ==
  ASSUME IInv, NEW a \in Attempts, Hear(a) \/ TimeOut(a) \/ Fail(a) \/ Succeed(a)
  PROVE  \E stage, k, d : Advances(a, stage, k, d)
  <1> DEFINE r == attempts[a]
  <1>1. r \in AllAttempts /\ AttemptIsSound(r, said)
    BY DEF IInv, TypeOK, AttemptsAreSound
  <1>2. ASSUME r.stage = "asking", Refuses(a, r.key)
        PROVE  Advances(a, "ended", r.key, "Reject")
    <2>1. r.decision \notin Accepts
      BY <1>1, <1>2 DEF AttemptIsSound
    <2> QED
      BY <1>1, <1>2, <2>1, AttemptFields
         DEF Refuses, Advances, Moves, Next1, Attempt, AttemptIsSound, Stages, Decisions, Accepts
  <1>3. CASE TimeOut(a)
    BY <1>2, <1>3 DEF TimeOut
  <1>4. CASE Hear(a)
    <2>1. CASE r.reply = "Reject"
      BY <1>2, <1>4, <2>1 DEF Hear
    <2>2. CASE r.reply \in Accepts
      <3>1. Welcome(r.request.host, r.key, said)
        BY <1>1, <1>4, <2>2 DEF Hear, AttemptIsSound, Welcome
      <3>2. Advances(a, "allowed", r.key, r.reply)
        BY <1>1, <1>4, <2>2, <3>1, AttemptFields
           DEF Hear, LetsIn, Advances, Moves, Next1, Attempt, AttemptIsSound, Stages, Decisions, Accepts
      <3> QED
        BY <3>2
    <2> QED
      BY <1>4, <2>1, <2>2 DEF Hear, Accepts
  <1>5. CASE Fail(a)
    <2>1. Advances(a, "ended", r.key, r.decision)
      BY <1>1, <1>5, AttemptFields
         DEF Fail, Advances, Moves, Next1, Attempt, AttemptIsSound, Stages
    <2> QED
      BY <2>1
  <1>6. CASE Succeed(a)
    <2>1. Advances(a, "open", r.key, r.decision)
      BY <1>1, <1>6, AttemptFields
         DEF Succeed, Advances, Moves, Next1, Attempt, AttemptIsSound, Stages
    <2> QED
      BY <2>1
  <1> QED
    BY <1>3, <1>4, <1>5, <1>6

------------------------------------------------------------------------------
(* Every step keeps the invariant                                          *)

\* An attempt that moves stays sound, and so does what was asked about it.
LEMMA MovesKeep ==
  ASSUME IInv, NEW a \in Attempts, NEW stage, NEW k, NEW d, Moves(a, stage, k, d), said' = said
  PROVE  /\ attempts' \in [Attempts -> AllAttempts]
         /\ attempts'[a] = Next1(a, stage, k, d)
         /\ \A b \in Attempts \ {a} : attempts'[b] = attempts[b]
         /\ AttemptsAreSound'
         /\ \A b \in Attempts :
              /\ QuestionIsSound(attempts[b]) => QuestionIsSound(attempts'[b])
              /\ attempts[b].decision \in Accepts => attempts'[b].decision \in Accepts
              /\ attempts'[b].stage # "none" \/ attempts[b].stage = "none"
  <1>1. /\ attempts' \in [Attempts -> AllAttempts]
        /\ attempts'[a] = Next1(a, stage, k, d)
        /\ \A b \in Attempts \ {a} : attempts'[b] = attempts[b]
    BY GoesTyped DEF IInv, TypeOK, Moves, Next1
  <1>2. AttemptsAreSound'
    BY <1>1 DEF IInv, AttemptsAreSound, Moves
  <1>3. /\ QuestionIsSound(attempts[a]) => QuestionIsSound(attempts'[a])
        /\ attempts[a].decision \in Accepts => attempts'[a].decision \in Accepts
        /\ attempts'[a].stage # "none"
    BY <1>1 DEF Moves, Next1, Attempt, QuestionIsSound
  <1> QED
    BY <1>1, <1>2, <1>3

LEMMA AdvanceStep ==
  ASSUME IInv, NEW a \in Attempts, NEW stage, NEW k, NEW d, Advances(a, stage, k, d),
         UNCHANGED <<vaultVars, deskVars, serverVars>>
  PROVE  IInv'
  <1> USE DEF vaultVars, deskVars, serverVars
  <1>1. Moves(a, stage, k, d) /\ said' = said
    BY DEF Advances
  <1>2. /\ attempts' \in [Attempts -> AllAttempts]
        /\ attempts'[a] = Next1(a, stage, k, d)
        /\ \A b \in Attempts \ {a} : attempts'[b] = attempts[b]
        /\ AttemptsAreSound'
        /\ \A b \in Attempts :
             /\ QuestionIsSound(attempts[b]) => QuestionIsSound(attempts'[b])
             /\ attempts[b].decision \in Accepts => attempts'[b].decision \in Accepts
             /\ attempts'[b].stage # "none" \/ attempts[b].stage = "none"
    BY <1>1, MovesKeep
  <1>3. events \in Seq(AllEvents)
    BY DEF IInv, TypeOK
  <1>4. \A kind \in {"question", "opened", "failed"} : Event(kind, a) \in AllEvents
    BY DEF Event, AllEvents
  <1>5. ASSUME NEW kind \in {"question", "opened", "failed"}, Sends(kind, a)
        PROVE  /\ events' \in Seq(AllEvents)
               /\ \A x : Queued(events', x) => x = Event(kind, a) \/ Queued(events, x)
    BY <1>3, <1>4, <1>5, QueueAfter DEF Sends
  <1>6. events' \in Seq(AllEvents)
    BY <1>3, <1>5 DEF Advances
  <1>7. attempts'[a].decision = d /\ attempts'[a].stage = stage /\ stage # "none"
    BY <1>1, <1>2 DEF Next1, Attempt, Moves
  <1>8. \A b \in Attempts :
          /\ Queued(events', Event("question", b)) =>
               Queued(events, Event("question", b)) \/ (b = a /\ QuestionIsSound(attempts'[a]))
          /\ Queued(events', Event("opened", b)) =>
               Queued(events, Event("opened", b)) \/ (b = a /\ d \in Accepts)
          /\ Queued(events', Event("failed", b)) => Queued(events, Event("failed", b)) \/ b = a
    <2>1. CASE UNCHANGED events
      BY <2>1
    <2>2. CASE Sends("question", a) /\ QuestionIsSound(Next1(a, stage, k, d))
      BY <1>2, <1>5, <2>2 DEF Event
    <2>3. CASE Sends("opened", a) /\ d \in Accepts
      BY <1>5, <2>3 DEF Event
    <2>4. CASE Sends("failed", a)
      BY <1>5, <2>4 DEF Event
    <2> QED
      BY <2>1, <2>2, <2>3, <2>4 DEF Advances
  <1>9. TypeOK'
    BY <1>2, <1>6 DEF IInv, TypeOK
  <1>10. QuestionsAreSound'
    BY <1>2, <1>8 DEF IInv, QuestionsAreSound
  <1>11. TabsAreLetIn'
    BY <1>2, <1>7, <1>8 DEF IInv, TabsAreLetIn
  <1> QED
    BY <1>2, <1>9, <1>10, <1>11 DEF IInv, KnownIsSound, SaidIsSound

\* An attempt is started, with the lines of the moment or with a pin.
LEMMA StartStep ==
  ASSUME IInv, NEW a \in Attempts, NEW host \in Hosts, NEW files \in BOOLEAN,
         NEW file \in Seq(Lines), NEW pin \in Keys \cup {None},
         RequestIsSound(Request(host, files, file, pin), said),
         Starts(a, host, files, file, pin), UNCHANGED <<deskVars, events>>
  PROVE  /\ attempts' \in [Attempts -> AllAttempts]
         /\ AttemptsAreSound' /\ QuestionsAreSound' /\ TabsAreLetIn'
         /\ KnownIsSound' /\ SaidIsSound'
  <1> USE DEF deskVars
  <1>1. /\ attempts' \in [Attempts -> AllAttempts]
        /\ attempts[a].stage = "none"
        /\ attempts'[a] = Attempt("dialling", Request(host, files, file, pin), None, None, None)
        /\ \A b \in Attempts \ {a} : attempts'[b] = attempts[b]
    BY StartsTyped DEF IInv, TypeOK
  <1>2. AttemptIsSound(attempts'[a], said)
    BY <1>1, NoneIsNoDecision DEF AttemptIsSound, Attempt, Accepts
  <1>3. attempts[a].decision \notin Accepts
    BY <1>1 DEF IInv, AttemptsAreSound, AttemptIsSound
  <1>4. AttemptsAreSound'
    BY <1>1, <1>2 DEF IInv, AttemptsAreSound
  <1>5. QuestionsAreSound'
    BY <1>1 DEF IInv, QuestionsAreSound, QuestionIsSound
  <1>6. TabsAreLetIn'
    BY <1>1, <1>3 DEF IInv, TabsAreLetIn
  <1> QED
    BY <1>1, <1>4, <1>5, <1>6 DEF IInv, KnownIsSound, SaidIsSound

\* Steps that change nothing the invariant says much about.
LEMMA QuietStep ==
  ASSUME IInv, TypeOK', tabs' \subseteq tabs, UNCHANGED <<attempts, events, question, known, said>>
  PROVE  IInv'
  BY DEF IInv, AttemptsAreSound, QuestionsAreSound, TabsAreLetIn, KnownIsSound, SaidIsSound

\* Asking for a session, now or once the vault is open.
LEMMA ConnectStep ==
  ASSUME IInv, NEW c \in Saved, NEW open, Connect(c, open), UNCHANGED <<deskVars, events>>
  PROVE  /\ attempts' \in [Attempts -> AllAttempts]
         /\ AttemptsAreSound' /\ QuestionsAreSound' /\ TabsAreLetIn'
         /\ KnownIsSound' /\ SaidIsSound'
  <1>1. CASE UNCHANGED attempts
    BY <1>1
       DEF deskVars, IInv, TypeOK, AttemptsAreSound, QuestionsAreSound, TabsAreLetIn,
           KnownIsSound, SaidIsSound
  <1>2. ASSUME NEW a \in Attempts, Starts(a, c.host, c.files, known, None),
               c.host \in Hosts, c.files \in BOOLEAN
        PROVE  /\ attempts' \in [Attempts -> AllAttempts]
               /\ AttemptsAreSound' /\ QuestionsAreSound' /\ TabsAreLetIn'
               /\ KnownIsSound' /\ SaidIsSound'
    <2>1. RequestIsSound(Request(c.host, c.files, known, None), said)
      BY <1>2 DEF RequestIsSound, Request, IInv, KnownIsSound
    <2>2. known \in Seq(Lines)
      BY DEF IInv, TypeOK
    <2> QED
      BY <1>2, <2>1, <2>2, StartStep
  <1>3. TypeOK
    BY DEF IInv
  <1> QED
    BY <1>1, <1>2, <1>3, Connects

LEMMA OpenStep == ASSUME IInv, NEW c \in Saved, Open(c) PROVE IInv'
  <1>1. CASE Connect(c, vault) /\ UNCHANGED vaultVars
    <2>1. UNCHANGED <<deskVars, events, serverVars>>
      BY DEF Open
    <2>2. /\ attempts' \in [Attempts -> AllAttempts]
          /\ AttemptsAreSound' /\ QuestionsAreSound' /\ TabsAreLetIn'
          /\ KnownIsSound' /\ SaidIsSound'
      BY <1>1, <2>1, ConnectStep
    <2>3. TypeOK'
      BY <1>1, <2>1, <2>2 DEF IInv, TypeOK, vaultVars, deskVars, serverVars
    <2> QED
      BY <2>2, <2>3 DEF IInv
  <1>2. CASE Ask(TRUE) /\ waiting' = c /\ UNCHANGED <<vaultFile, vault, attempts>>
    <2>1. TypeOK' /\ tabs' \subseteq tabs
      BY <1>2 DEF Open, Ask, IInv, TypeOK, deskVars, serverVars
    <2> QED
      BY <1>2, <2>1, QuietStep DEF Open, deskVars
  <1> QED
    BY <1>1, <1>2 DEF Open

LEMMA OpensStep == ASSUME IInv, Opens PROVE IInv'
  <1>1. UNCHANGED <<deskVars, events, serverVars>>
    BY DEF Opens
  <1>2. /\ vaultFile' \in {"none", "kept", "unreadable"}
        /\ vault' \in {"closed", "kept", "fresh"}
        /\ prompt' = "none" /\ resumes' = FALSE /\ waiting' = None
    BY DEF Opens, IInv, TypeOK
  <1>3. CASE UNCHANGED attempts
    <2>1. TypeOK' /\ tabs' \subseteq tabs
      BY <1>1, <1>2, <1>3 DEF IInv, TypeOK, deskVars, serverVars
    <2> QED
      BY <1>1, <1>3, <2>1, QuietStep DEF deskVars
  <1>4. CASE waiting # None /\ Connect(waiting, vault')
    <2>1. waiting \in Saved
      BY <1>4 DEF IInv, TypeOK
    <2>2. /\ attempts' \in [Attempts -> AllAttempts]
          /\ AttemptsAreSound' /\ QuestionsAreSound' /\ TabsAreLetIn'
          /\ KnownIsSound' /\ SaidIsSound'
      BY <1>1, <1>4, <2>1, ConnectStep
    <2>3. TypeOK'
      BY <1>1, <1>2, <2>2 DEF IInv, TypeOK, deskVars, serverVars
    <2> QED
      BY <2>2, <2>3 DEF IInv
  <1> QED
    BY <1>3, <1>4 DEF Opens

LEMMA ReconnectStep == ASSUME IInv, NEW t \in Attempts, Reconnect(t) PROVE IInv'
  <1> DEFINE r == attempts[t]
  <1>1. UNCHANGED <<vaultVars, deskVars, events, serverVars>>
    BY DEF Reconnect
  <1>2. r.decision \in Accepts /\ AttemptIsSound(r, said)
    BY DEF Reconnect, IInv, TypeOK, TabsAreLetIn, AttemptsAreSound
  <1>3. Welcome(r.request.host, r.key, said) /\ r.request.host \in Hosts /\ r.key \in Keys
    BY <1>2 DEF AttemptIsSound, RequestIsSound, Welcome
  <1>4. r.key # None
    BY <1>3, NoneAssumption
  <1>5. RequestIsSound(Request(r.request.host, FALSE, <<>>, r.key), said)
    BY <1>3, <1>4 DEF RequestIsSound, Request
  <1>6. PICK a \in Attempts : Starts(a, r.request.host, FALSE, <<>>, r.key)
    BY DEF Reconnect
  <1>7. <<>> \in Seq(Lines) /\ FALSE \in BOOLEAN /\ r.key \in Keys \cup {None}
    BY <1>3
  <1>8. /\ attempts' \in [Attempts -> AllAttempts]
        /\ AttemptsAreSound' /\ QuestionsAreSound' /\ TabsAreLetIn'
        /\ KnownIsSound' /\ SaidIsSound'
    BY <1>1, <1>3, <1>5, <1>6, <1>7, StartStep
  <1>9. TypeOK'
    BY <1>1, <1>8 DEF IInv, TypeOK, vaultVars, deskVars, serverVars
  <1> QED
    BY <1>8, <1>9 DEF IInv

\* The person says yes to what is on the screen, or no.
LEMMA AnswerStep == ASSUME IInv, NEW d \in Decisions, Answer(d) PROVE IInv'
  <1> DEFINE q == question
             r == attempts[q]
  <1>1. /\ q \in Attempts /\ Reply(q, d) /\ question' = 0
        /\ UNCHANGED <<vaultVars, tabs, ended, known, events, serverVars>>
    BY DEF Answer, IInv, TypeOK
  <1>2. QuestionIsSound(r) /\ AttemptIsSound(r, said)
    BY <1>1 DEF IInv, QuestionsAreSound, AttemptsAreSound
  <1>3. r.request.host \in Hosts /\ r.key \in Keys
    BY <1>2 DEF QuestionIsSound, AttemptIsSound, RequestIsSound
  <1>4. /\ said \subseteq said' /\ said' \subseteq said \cup {<<r.request.host, r.key>>}
        /\ d \in Accepts => <<r.request.host, r.key>> \in said'
    BY DEF Answer, Accepts
  <1>5. /\ \A file : Grown(file, said) => Grown(file, said')
        /\ \A x : AttemptIsSound(x, said) => AttemptIsSound(x, said')
    BY <1>4, SoundWithMore
  <1>6. /\ attempts' \in [Attempts -> AllAttempts]
        /\ attempts'[q] = IF r.stage = "asking"
                          THEN Attempt("asking", r.request, r.key, d, r.decision)
                          ELSE r
        /\ \A b \in Attempts \ {q} : attempts'[b] = attempts[b]
    BY <1>1, ReplyTyped DEF IInv, TypeOK
  <1>7. AttemptIsSound(r, said')
    BY <1>2, <1>5
  <1>8. AttemptIsSound(attempts'[q], said')
    <2>1. CASE r.stage # "asking"
      BY <1>6, <1>7, <2>1
    <2>2. CASE r.stage = "asking"
      BY <1>4, <1>6, <1>7, <2>2 DEF AttemptIsSound, Attempt
    <2> QED
      BY <2>1, <2>2
  <1>9. AttemptsAreSound'
    BY <1>5, <1>6, <1>8 DEF IInv, AttemptsAreSound
  <1>10. /\ QuestionIsSound(r) => QuestionIsSound(attempts'[q])
         /\ attempts'[q].decision = r.decision
         /\ r.stage # "none" => attempts'[q].stage # "none"
    BY <1>6 DEF QuestionIsSound, Attempt
  <1>11. QuestionsAreSound'
    BY <1>1, <1>6, <1>10 DEF IInv, QuestionsAreSound, Attempts
  <1>12. TabsAreLetIn'
    BY <1>1, <1>6, <1>10 DEF IInv, TabsAreLetIn
  <1>13. KnownIsSound'
    BY <1>1, <1>5 DEF IInv, KnownIsSound
  <1>14. SaidIsSound'
    BY <1>2, <1>4 DEF IInv, SaidIsSound, QuestionIsSound
  <1>15. TypeOK'
    <2>1. said' \subseteq Hosts \X Keys
      BY <1>3, <1>4 DEF IInv, TypeOK
    <2> QED
      BY <1>1, <1>6, <2>1 DEF IInv, TypeOK, vaultVars, serverVars
  <1> QED
    BY <1>9, <1>11, <1>12, <1>13, <1>14, <1>15 DEF IInv

\* The interface hears of one event.
LEMMA DrainStep == ASSUME IInv, Drain PROVE IInv'
  <1> DEFINE e == Head(events)
             a == e.attempt
             r == attempts[a]
  <1>1. events \in Seq(AllEvents) /\ events # <<>>
    BY DEF Drain, IInv, TypeOK
  <1>2. /\ e \in AllEvents /\ a \in Attempts /\ Queued(events, e)
        /\ events' \in Seq(AllEvents)
        /\ \A x : Queued(events', x) => Queued(events, x)
    <2>1. e \in AllEvents /\ Tail(events) \in Seq(AllEvents)
      BY <1>1
    <2>2. a \in Attempts
      BY <2>1 DEF AllEvents
    <2>3. events' = Tail(events)
      BY DEF Drain
    <2> QED
      BY <1>1, <2>1, <2>2, <2>3, QueueBefore
  <1>3. e = Event(e.kind, a)
    BY <1>2 DEF AllEvents, Event
  <1>4. UNCHANGED <<vaultVars, serverVars>>
    BY DEF Drain
  <1>5. r \in AllAttempts /\ AttemptIsSound(r, said)
    BY <1>2 DEF IInv, TypeOK, AttemptsAreSound
  <1> HIDE DEF e, a, r
  <1>6. CASE e.kind = "question" /\ DrainQuestion(a)
    <2>1. QuestionIsSound(attempts[a])
      BY <1>2, <1>3, <1>6 DEF IInv, QuestionsAreSound
    <2>2. UNCHANGED <<tabs, ended, known, said>>
      BY <1>6 DEF DrainQuestion
    <2>3. CASE question' = a /\ UNCHANGED attempts
      <3>1. TypeOK'
        BY <1>2, <1>4, <2>2, <2>3 DEF IInv, TypeOK, vaultVars, serverVars
      <3>2. QuestionsAreSound'
        BY <1>2, <2>1, <2>3 DEF IInv, QuestionsAreSound
      <3>3. TabsAreLetIn'
        BY <1>2, <2>2, <2>3 DEF IInv, TabsAreLetIn
      <3> QED
        BY <2>2, <2>3, <3>1, <3>2, <3>3 DEF IInv, AttemptsAreSound, KnownIsSound, SaidIsSound
    <2>4. CASE Reply(a, "Reject") /\ UNCHANGED question
      <3>1. /\ attempts' \in [Attempts -> AllAttempts]
            /\ attempts'[a] = IF attempts[a].stage = "asking"
                              THEN Attempt("asking", attempts[a].request, attempts[a].key,
                                           "Reject", attempts[a].decision)
                              ELSE attempts[a]
            /\ \A b \in Attempts \ {a} : attempts'[b] = attempts[b]
        BY <1>2, <2>4, ReplyTyped DEF IInv, TypeOK, Decisions
      <3>2. /\ AttemptIsSound(attempts'[a], said)
            /\ QuestionIsSound(attempts'[a])
            /\ attempts'[a].decision = attempts[a].decision
        BY <1>5, <2>1, <3>1 DEF r, AttemptIsSound, QuestionIsSound, Attempt, Accepts
      <3>3. attempts'[a].stage # "none"
        BY <3>2 DEF QuestionIsSound
      <3>4. TypeOK'
        BY <1>2, <1>4, <2>2, <2>4, <3>1 DEF IInv, TypeOK, vaultVars, serverVars
      <3>5. AttemptsAreSound'
        BY <2>2, <3>1, <3>2 DEF IInv, AttemptsAreSound
      <3>6. QuestionsAreSound'
        BY <1>2, <2>4, <3>1, <3>2 DEF IInv, QuestionsAreSound
      <3>7. TabsAreLetIn'
        BY <1>2, <2>2, <3>1, <3>2, <3>3 DEF IInv, TabsAreLetIn
      <3> QED
        BY <2>2, <3>4, <3>5, <3>6, <3>7 DEF IInv, KnownIsSound, SaidIsSound
    <2> QED
      BY <1>6, <2>3, <2>4 DEF DrainQuestion
  <1>7. ASSUME r.stage # "none", Goes(a, "told", r.key, r.decision), UNCHANGED <<question, ended, said>>,
               tabs' = tabs \/ (tabs' = tabs \cup {a} /\ r.decision \in Accepts), KnownIsSound'
        PROVE  IInv'
    <2>1. Moves(a, "told", r.key, r.decision)
      BY <1>2, <1>5, <1>7, AttemptFields DEF r, Moves, Next1, AttemptIsSound, Attempt, Stages
    <2>2. /\ attempts' \in [Attempts -> AllAttempts]
          /\ attempts'[a] = Next1(a, "told", r.key, r.decision)
          /\ AttemptsAreSound'
          /\ \A b \in Attempts :
               /\ QuestionIsSound(attempts[b]) => QuestionIsSound(attempts'[b])
               /\ attempts[b].decision \in Accepts => attempts'[b].decision \in Accepts
               /\ attempts'[b].stage # "none" \/ attempts[b].stage = "none"
      BY <1>2, <1>7, <2>1, MovesKeep
    <2>3. TypeOK'
      BY <1>2, <1>4, <1>7, <2>2
         DEF IInv, TypeOK, vaultVars, serverVars, KnownIsSound, Grown
    <2>4. QuestionsAreSound'
      BY <1>2, <1>7, <2>2 DEF IInv, QuestionsAreSound
    <2>5. TabsAreLetIn'
      BY <1>2, <1>7, <2>2 DEF r, IInv, TabsAreLetIn
    <2> QED
      BY <1>7, <2>2, <2>3, <2>4, <2>5 DEF IInv, SaidIsSound
  <1>8. CASE e.kind = "opened" /\ DrainOpened(a)
    <2>1. r.decision \in Accepts
      BY <1>2, <1>3, <1>8 DEF r, IInv, TabsAreLetIn
    <2>2. r.stage # "none"
      BY <1>5, <2>1 DEF AttemptIsSound
    <2>3. KnownIsSound'
      <3>1. CASE UNCHANGED known
        BY <1>8, <3>1 DEF DrainOpened, IInv, KnownIsSound
      <3>2. CASE /\ r.decision = "AcceptAndStore"
                 /\ known' = Append(known, Record(r.request.host, r.key))
        <4>1. <<r.request.host, r.key>> \in said /\ r.request.host \in Hosts /\ r.key \in Keys
          BY <1>5, <2>1, <2>2, <3>2 DEF AttemptIsSound, RequestIsSound, Welcome
        <4>2. Grown(known', said)
          BY <3>2, <4>1, GrownByOne DEF IInv, KnownIsSound
        <4> QED
          BY <1>8, <4>2 DEF DrainOpened, KnownIsSound
      <3> QED
        BY <1>8, <3>1, <3>2 DEF r, DrainOpened
    <2> QED
      BY <1>7, <1>8, <2>1, <2>2, <2>3 DEF r, DrainOpened
  <1>9. CASE e.kind = "failed" /\ DrainFailed(a)
    <2>1. r.stage # "none"
      BY <1>2, <1>3, <1>9 DEF r, IInv, TabsAreLetIn
    <2>2. KnownIsSound'
      BY <1>9 DEF DrainFailed, deskVars, IInv, KnownIsSound
    <2> QED
      BY <1>7, <1>9, <2>1, <2>2 DEF r, DrainFailed, deskVars
  <1> QED
    BY <1>6, <1>8, <1>9 DEF Drain, e, a

LEMMA NextKeeps == IInv /\ [Next]_vars => IInv'
  <1> SUFFICES ASSUME IInv, [Next]_vars PROVE IInv'
    OBVIOUS
  <1>1. ASSUME NEW a \in Attempts,
               Present(a) \/ Hear(a) \/ TimeOut(a) \/ Fail(a) \/ Succeed(a)
        PROVE  IInv'
    <2>1. UNCHANGED <<vaultVars, deskVars, serverVars>>
      BY <1>1 DEF Present, Hear, TimeOut, Fail, Succeed
    <2> QED
      BY <1>1, <2>1, PresentAdvances, OthersAdvance, AdvanceStep
  <1>2. ASSUME OpenPasswords \/ CancelPrompt \/ Refused PROVE IInv'
    <2>1. TypeOK' /\ tabs' \subseteq tabs
      BY <1>2 DEF OpenPasswords, Ask, CancelPrompt, Refused, IInv, TypeOK, deskVars, serverVars
    <2> QED
      BY <1>2, <2>1, QuietStep DEF OpenPasswords, CancelPrompt, Refused, deskVars
  <1>3. ASSUME NEW a \in Attempts, CloseTab(a) \/ SessionEnds(a) PROVE IInv'
    <2>1. TypeOK' /\ tabs' \subseteq tabs
      BY <1>3 DEF CloseTab, SessionEnds, IInv, TypeOK, vaultVars, serverVars
    <2> QED
      BY <1>3, <2>1, QuietStep DEF CloseTab, SessionEnds
  <1>4. ASSUME NEW h \in Hosts, NEW k \in Keys, ChangeKey(h, k) PROVE IInv'
    <2>1. TypeOK' /\ tabs' \subseteq tabs
      BY <1>4, BoundsAssumption DEF ChangeKey, IInv, TypeOK, vaultVars, deskVars
    <2> QED
      BY <1>4, <2>1, QuietStep DEF ChangeKey, deskVars
  <1>5. CASE UNCHANGED vars
    <2>1. TypeOK' /\ tabs' \subseteq tabs
      BY <1>5 DEF vars, IInv, TypeOK
    <2> QED
      BY <1>5, <2>1, QuietStep DEF vars
  <1> QED
    BY <1>1, <1>2, <1>3, <1>4, <1>5, OpenStep, OpensStep, DrainStep, AnswerStep, ReconnectStep
       DEF Next

LEMMA InitKeeps == Init => IInv
  <1> SUFFICES ASSUME Init PROVE IInv
    OBVIOUS
  <1>1. \A a \in Attempts : attempts[a] = NoAttempt
    BY DEF Init
  <1>2. NoAttempt \in AllAttempts
    <2>1. Request(None, FALSE, <<>>, None) \in Requests
      BY DEF Request, Requests
    <2> QED
      BY <2>1, AttemptTyped DEF NoAttempt, Stages
  <1>3. TypeOK
    <2>1. /\ vaultFile \in {"none", "kept", "unreadable"}
          /\ known \in Seq(Lines)
      BY KnownBeforeAssumption, VaultsBeforeAssumption DEF Init
    <2>2. attempts \in [Attempts -> AllAttempts]
      BY <1>2 DEF Init
    <2>3. events \in Seq(AllEvents)
      BY DEF Init
    <2> QED
      BY ONLY <2>1, <2>2, <2>3, Init DEF Init, TypeOK
  <1>4. AttemptIsSound(NoAttempt, said)
    BY NoneIsNoDecision DEF NoAttempt, Attempt, AttemptIsSound, Accepts
  <1>5. KnownIsSound
    BY KnownBeforeAssumption DEF Init, KnownIsSound, Grown
  <1>6. QuestionsAreSound /\ TabsAreLetIn
    BY DEF Init, QuestionsAreSound, TabsAreLetIn, Queued, Attempts
  <1>7. AttemptsAreSound
    BY <1>1, <1>4 DEF AttemptsAreSound
  <1>8. SaidIsSound
    BY DEF Init, SaidIsSound
  <1> QED
    BY <1>3, <1>5, <1>6, <1>7, <1>8 DEF IInv

\* The invariant the others follow from: every file an attempt was given is
\* the first one with what was said yes to below it, every pin was welcome,
\* and questions and answers are about the key they were asked about.
THEOREM Invariance == Spec => []IInv
  BY InitKeeps, NextKeeps, PTL DEF Spec

\* Every variable of the interface, the tasks and the servers keeps to its
\* values, the bound on attempts being any number.
THEOREM TypeCorrect == Spec => []TypeOK
  <1>1. IInv => TypeOK
    BY DEF IInv
  <1> QED
    BY <1>1, Invariance, PTL

\* A session goes past a server's key only if known_hosts trusted the key
\* when the application started or a person accepted it for that host.
THEOREM NobodyElseIsTrusted == Spec => []TrustIsFromAPerson
  <1>1. IInv => TrustIsFromAPerson
    BY DEF IInv, TrustIsFromAPerson, LetIn, AttemptsAreSound, AttemptIsSound, Welcome, Accepts
  <1> QED
    BY <1>1, Invariance, PTL

\* A key that known_hosts revokes before it trusts it is never let through
\* and never asked about, whatever is appended to the file or said.
THEOREM RevokedIsRefused == Spec => []RevokedStaysOut
  <1>1. IInv => RevokedStaysOut
    BY DEF IInv, RevokedStaysOut, LetIn, AttemptsAreSound, AttemptIsSound, Welcome, Accepts,
           QuestionsAreSound, QuestionIsSound
  <1> QED
    BY <1>1, Invariance, PTL

==============================================================================
