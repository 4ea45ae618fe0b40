---------------------------- MODULE FilesTab_proofs ----------------------------
(***************************************************************************)
(* For any files, directories, words of failures and number of transfers:  *)
(* whatever a failure was put to on the way, once everything is told each  *)
(* transfer shows what became of it; what is listed is where the panel is; *)
(* and what is finished, of what nobody exchanged, is a copy.              *)
(***************************************************************************)
EXTENDS FilesTab, WellFoundedInduction, TLAPS

Outcomes == {None, "Finished", "Failed"}
Ends == [Ids -> Outcomes]
Current == Jobs \cup {None}

(* The parts of the invariant, as operators of what they are about.        *)

\* Transfers are worked on in the order of the list, and none is passed over:
\* each that has not ended is the current one or waits, those before it ended.
Waits(id, commands) == \E n \in DOMAIN commands : IsTransfer(commands[n]) /\ commands[n].id = id
InOrder(list, ends, commands, current) ==
  /\ \A n \in DOMAIN commands : IsTransfer(commands[n]) =>
       /\ commands[n].id \in DOMAIN list /\ ends[commands[n].id] = None
       /\ list[commands[n].id].file = commands[n].file
       /\ current # None => current.id < commands[n].id
       /\ \A m \in 1 .. n - 1 : IsTransfer(commands[m]) => commands[m].id < commands[n].id
  /\ current # None => /\ current.id \in DOMAIN list /\ ends[current.id] = None
                       /\ list[current.id].file = current.file
  /\ \A i \in DOMAIN list :
       ends[i] = None => (current # None /\ current.id = i) \/ Waits(i, commands)
EndedInOrder(list, ends) ==
  \A i \in Ids : ends[i] # None => /\ i \in DOMAIN list
                                   /\ \A j \in 1 .. i - 1 : ends[j] # None

\* Each transfer that has ended and does not show it is told of yet, in the order
\* of the list, whatever the failures on the way are put to.
Unshown(list, ends) == {i \in DOMAIN list : ends[i] # None /\ list[i].outcome = None}
Tells(event, i, list, ends) ==
  \/ ends[i] = "Finished" /\ event = [is |-> "Finished", id |-> i]
  \/ ends[i] = "Failed" /\ event = [is |-> "Failed", what |-> list[i].file]
WillBeTold(list, ends, told) ==
  \E where \in [Unshown(list, ends) -> DOMAIN told] :
    \A i \in Unshown(list, ends) :
      /\ Tells(told[where[i]], i, list, ends)
      /\ \A j \in Unshown(list, ends) : j < i => where[j] < where[i]

\* What shows as finished is, and what is finished shows so or is told of yet,
\* also where the words of a failure were put to it.
FinishedIsShown(list, ends, told) ==
  /\ \A i \in DOMAIN list : list[i].outcome = "Finished" => ends[i] = "Finished"
  /\ \A i \in DOMAIN list : ends[i] = "Finished" =>
       \/ list[i].outcome = "Finished"
       \/ \E n \in DOMAIN told : told[n] = [is |-> "Finished", id |-> i]

\* What the tab is told of transfers is true of them.
ToldIsTrue(list, ends, told) ==
  \A n \in DOMAIN told : told[n].is = "Finished" =>
    told[n].id \in DOMAIN list /\ ends[told[n].id] = "Finished"

Told(list, ends, told) ==
  WillBeTold(list, ends, told) /\ FinishedIsShown(list, ends, told) /\ ToldIsTrue(list, ends, told)

\* What is copied so far is as long as the task believes, and of what it copies
\* where nobody exchanged that.
Continued(files, current) ==
  current # None =>
    LET sink == files[Sink(current.op)][current.file]
        source == files[Source(current.op)][current.file]
    IN /\ sink # None /\ Len(sink) = current.done
       /\ current.sound => /\ source # None /\ current.done <= Len(source)
                           /\ \A k \in 1 .. current.done : sink[k] = source[k]

\* Where the account starts is told first, and nothing is shown before it.
Heard ==
  /\ phase = "opening" => events = <<>> /\ here = None
  /\ \A n \in DOMAIN events : events[n].is = "Ready" => n = 1 /\ here = None

IInv ==
  /\ TypeOK
  /\ Continued(disk, job)
  /\ ListingIsOfHere /\ (here = None => remote = None)
  /\ open => /\ InOrder(transfers, truth, queue, job) /\ EndedInOrder(transfers, truth)
             /\ Told(transfers, truth, events)
             /\ Heard
  /\ ~open => here = None

------------------------------------------------------------------------------
(* What is told, as the task tells it and the tab hears it                 *)

\* The transfers stay to be told of when more is told.
LEMMA ToldMore ==
  ASSUME NEW list \in Seq(Transfers), NEW ends, NEW told \in Seq(Events), NEW e \in Events,
         Told(list, ends, told), e.is # "Finished"
  PROVE  Told(list, ends, Append(told, e))
<1> DEFINE more == Append(told, e)
<1>1. /\ DOMAIN told \subseteq DOMAIN more
      /\ \A n \in DOMAIN told : more[n] = told[n]
      /\ \A n \in DOMAIN more : more[n] = e \/ n \in DOMAIN told
  OBVIOUS
<1> HIDE DEF more
<1>2. WillBeTold(list, ends, more)
  BY <1>1 DEF Told, WillBeTold
<1>3. FinishedIsShown(list, ends, more)
  BY <1>1 DEF Told, FinishedIsShown
<1>4. ToldIsTrue(list, ends, more)
  BY <1>1 DEF Told, ToldIsTrue
<1> QED
  BY <1>2, <1>3, <1>4 DEF Told, more

\* Or when more transfers are begun.
LEMMA ToldOfMore ==
  ASSUME NEW list \in Seq(Transfers), NEW ends, NEW told \in Seq(Events), NEW file \in Files,
         Told(list, ends, told), Len(list) + 1 \in Ids, ends[Len(list) + 1] = None
  PROVE  Told(Append(list, Transfer(Len(list) + 1, file, None)), ends, told)
<1> DEFINE more == Append(list, Transfer(Len(list) + 1, file, None))
<1>1. /\ DOMAIN more = DOMAIN list \cup {Len(list) + 1}
      /\ \A n \in DOMAIN list : more[n] = list[n]
      /\ more[Len(list) + 1].outcome = None
  BY DEF Transfers, Transfer
<1> HIDE DEF more
<1>2. Unshown(more, ends) = Unshown(list, ends)
  BY <1>1 DEF Unshown
<1>3. ASSUME NEW i \in Unshown(list, ends), NEW event, Tells(event, i, list, ends)
      PROVE  Tells(event, i, more, ends)
  BY <1>1, <1>3 DEF Unshown, Tells
<1>4. WillBeTold(more, ends, told)
  BY <1>2, <1>3 DEF Told, WillBeTold
<1>5. FinishedIsShown(more, ends, told)
  BY <1>1, NoneAssumption DEF Told, FinishedIsShown
<1>6. ToldIsTrue(more, ends, told)
  BY <1>1 DEF Told, ToldIsTrue
<1> QED
  BY <1>4, <1>5, <1>6 DEF Told, more

\* The end of a transfer, of which those before it have ended, is told at once.
LEMMA ToldTheEnd ==
  ASSUME NEW list \in Seq(Transfers), NEW ends \in Ends, NEW told \in Seq(Events),
         Len(list) <= MaxTransfers, EndedInOrder(list, ends), Told(list, ends, told),
         NEW i \in DOMAIN list, ends[i] = None,
         NEW outcome \in {"Finished", "Failed"}, NEW e \in Events,
         e = IF outcome = "Finished" THEN [is |-> "Finished", id |-> i]
                                     ELSE [is |-> "Failed", what |-> list[i].file]
  PROVE  Told(list, [ends EXCEPT ![i] = outcome], Append(told, e))
<1> DEFINE more == Append(told, e)
           after == [ends EXCEPT ![i] = outcome]
<1>1. /\ DOMAIN more = DOMAIN told \cup {Len(told) + 1}
      /\ \A n \in DOMAIN told : more[n] = told[n] /\ n < Len(told) + 1
      /\ more[Len(told) + 1] = e
  OBVIOUS
<1>2. i \in Ids /\ DOMAIN list \subseteq Ids
  BY BoundsAssumption DEF Ids
<1>3. after[i] = outcome /\ \A j \in Ids : j # i => after[j] = ends[j]
  BY <1>2 DEF Ends
<1>4. \A j \in Ids : ends[j] # None => j < i
  BY <1>2, BoundsAssumption DEF EndedInOrder, Ids
<1>5. e.is = outcome
  OBVIOUS
<1>n. None \notin {"Finished", "Failed"}
  BY NoneAssumption
<1> HIDE DEF more, after
<1>6. WillBeTold(list, after, more)
  <2>1. PICK where \in [Unshown(list, ends) -> DOMAIN told] :
          \A j \in Unshown(list, ends) :
            /\ Tells(told[where[j]], j, list, ends)
            /\ \A k \in Unshown(list, ends) : k < j => where[k] < where[j]
    BY DEF Told, WillBeTold
  <2>2. Unshown(list, after) \subseteq Unshown(list, ends) \cup {i}
    BY <1>2, <1>3 DEF Unshown
  <2>3. \A j \in Unshown(list, ends) : j < i /\ j \in Ids
    BY <1>2, <1>4 DEF Unshown
  <2>4. i \notin Unshown(list, ends)
    BY DEF Unshown
  <2> DEFINE at == [j \in Unshown(list, after) |-> IF j = i THEN Len(told) + 1 ELSE where[j]]
  <2>5. at \in [Unshown(list, after) -> DOMAIN more]
    BY <1>1, <2>2
  <2>6. ASSUME NEW j \in Unshown(list, after)
        PROVE  Tells(more[at[j]], j, list, after)
    <3>1. CASE j = i
      BY <1>1, <1>3, <3>1 DEF Tells
    <3>2. CASE j # i
      <4>1. j \in Unshown(list, ends) /\ at[j] = where[j] /\ after[j] = ends[j]
        BY <2>2, <2>3, <1>3, <3>2
      <4>2. more[at[j]] = told[where[j]]
        BY <4>1, <1>1
      <4> QED
        BY <4>1, <4>2, <2>1 DEF Tells
    <3> QED
      BY <3>1, <3>2
  <2>7. ASSUME NEW j \in Unshown(list, after), NEW k \in Unshown(list, after), k < j
        PROVE  at[k] < at[j]
    <3>1. k # i
      BY <2>7, <2>2, <2>3, <1>2, SMTT(30) DEF Ids
    <3>2. k \in Unshown(list, ends) /\ at[k] = where[k] /\ where[k] \in DOMAIN told
      BY <3>1, <2>2
    <3>3. CASE j = i
      BY <3>2, <3>3, <1>1
    <3>4. CASE j # i
      BY <3>2, <3>4, <2>1, <2>2, <2>7
    <3> QED
      BY <3>3, <3>4
  <2> HIDE DEF at
  <2> QED
    BY <2>5, <2>6, <2>7 DEF WillBeTold
<1>7. FinishedIsShown(list, after, more)
  BY <1>1, <1>2, <1>3, <1>n DEF Told, FinishedIsShown
<1>8. ToldIsTrue(list, after, more)
  BY <1>1, <1>2, <1>3, <1>5, <1>n, SMTT(30) DEF Told, ToldIsTrue
<1> QED
  BY <1>6, <1>7, <1>8 DEF Told, more, after

\* What is heard is taken to the transfer it is about, or a failure to one before
\* it: the first transfer to be told of, if this tells of it, shows as ended.
LEMMA ToldHeard ==
  ASSUME NEW list \in Seq(Transfers), NEW next \in Seq(Transfers), NEW ends \in Ends,
         NEW told \in Seq(Events), told # <<>>, Told(list, ends, told),
         DOMAIN next = DOMAIN list,
         \A i \in DOMAIN list :
           /\ next[i].file = list[i].file
           /\ next[i].outcome = None => list[i].outcome = None
           /\ next[i].outcome = "Finished" => ends[i] = "Finished"
           /\ ends[i] = "Finished" /\ list[i].outcome = "Finished" => next[i].outcome = "Finished"
           /\ Head(told) = [is |-> "Finished", id |-> i] => next[i].outcome = "Finished",
         \A i \in Unshown(list, ends) :
           Tells(Head(told), i, list, ends) /\ (\A j \in Unshown(list, ends) : i <= j)
             => next[i].outcome # None
  PROVE  Told(next, ends, Tail(told))
<1> DEFINE less == Tail(told)
<1>1. /\ \A n \in DOMAIN told : n = 1 \/ (n - 1 \in DOMAIN less /\ less[n - 1] = told[n])
      /\ \A n \in DOMAIN less : n + 1 \in DOMAIN told /\ less[n] = told[n + 1]
      /\ told[1] = Head(told) /\ DOMAIN told \subseteq Nat /\ DOMAIN list \subseteq Nat
  OBVIOUS
<1> HIDE DEF less
<1>2. WillBeTold(next, ends, less)
  <2>1. PICK where \in [Unshown(list, ends) -> DOMAIN told] :
          \A j \in Unshown(list, ends) :
            /\ Tells(told[where[j]], j, list, ends)
            /\ \A k \in Unshown(list, ends) : k < j => where[k] < where[j]
    BY DEF Told, WillBeTold
  <2>2. Unshown(next, ends) \subseteq Unshown(list, ends) /\ Unshown(list, ends) \subseteq Nat
    BY <1>1 DEF Unshown
  <2>3. ASSUME NEW i \in Unshown(next, ends), where[i] = 1 PROVE FALSE
    <3>1. Tells(Head(told), i, list, ends)
      BY <1>1, <2>1, <2>2, <2>3
    <3>2. \A j \in Unshown(list, ends) : i <= j
      <4> SUFFICES ASSUME NEW j \in Unshown(list, ends), j < i PROVE FALSE
        BY <2>2
      <4>1. where[j] < 1 /\ where[j] \in DOMAIN told
        BY <2>1, <2>2, <2>3
      <4> QED
        BY <4>1
    <3> QED
      BY <3>1, <3>2, <2>2 DEF Unshown
  <2> DEFINE at == [i \in Unshown(next, ends) |-> where[i] - 1]
  <2>4. at \in [Unshown(next, ends) -> DOMAIN less]
    BY <1>1, <2>2, <2>3
  <2>5. ASSUME NEW i \in Unshown(next, ends)
        PROVE  /\ Tells(less[at[i]], i, next, ends)
               /\ \A j \in Unshown(next, ends) : j < i => at[j] < at[i]
    <3>1. less[at[i]] = told[where[i]]
      BY <1>1, <2>2, <2>3
    <3>2. Tells(less[at[i]], i, next, ends)
      BY <3>1, <2>1, <2>2 DEF Tells, Unshown
    <3>3. \A j \in Unshown(next, ends) : j < i => at[j] < at[i]
      BY <1>1, <2>1, <2>2
    <3> QED
      BY <3>2, <3>3
  <2> HIDE DEF at
  <2> QED
    BY <2>4, <2>5 DEF WillBeTold
<1>3. FinishedIsShown(next, ends, less)
  <2>1. ASSUME NEW i \in DOMAIN list, ends[i] = "Finished", next[i].outcome # "Finished"
        PROVE  \E n \in DOMAIN less : less[n] = [is |-> "Finished", id |-> i]
    <3>1. list[i].outcome # "Finished" /\ Head(told) # [is |-> "Finished", id |-> i]
      BY <2>1
    <3>2. PICK n \in DOMAIN told : told[n] = [is |-> "Finished", id |-> i]
      BY <2>1, <3>1 DEF Told, FinishedIsShown
    <3>3. n - 1 \in DOMAIN less /\ less[n - 1] = told[n]
      BY <1>1, <3>1, <3>2
    <3> QED
      BY <3>2, <3>3
  <2> QED
    BY <2>1 DEF FinishedIsShown
<1>4. ToldIsTrue(next, ends, less)
  BY <1>1 DEF Told, ToldIsTrue
<1> QED
  BY <1>2, <1>3, <1>4 DEF Told, less

\* When everything was told, every transfer shows what became of it.
LEMMA ToldAll ==
  ASSUME NEW list \in Seq(Transfers), NEW ends \in Ends, DOMAIN list \subseteq Ids,
         Told(list, ends, <<>>)
  PROVE  \A i \in DOMAIN list : /\ ends[i] = "Finished" <=> list[i].outcome = "Finished"
                                /\ ends[i] = "Failed" => list[i].outcome = "Failed"
<1>1. Unshown(list, ends) = {}
  BY DEF Told, WillBeTold
<1>2. \A i \in DOMAIN list : list[i].outcome \in Outcomes
  <2> SUFFICES ASSUME NEW i \in DOMAIN list PROVE list[i].outcome \in Outcomes
    OBVIOUS
  <2>1. list[i] \in Transfers
    OBVIOUS
  <2> QED
    BY <2>1 DEF Transfers, Outcomes
<1>3. \A i \in DOMAIN list : ends[i] = "Finished" <=> list[i].outcome = "Finished"
  BY DEF Told, FinishedIsShown
<1> QED
  BY <1>1, <1>2, <1>3, NoneAssumption DEF Unshown, Outcomes

------------------------------------------------------------------------------
(* The order of the work                                                   *)

\* Asking for something else, and having done something else, keeps it.
LEMMA OrderAsked ==
  ASSUME NEW list, NEW ends, NEW commands \in Seq(Commands), NEW current,
         NEW c \in Commands, ~IsTransfer(c), InOrder(list, ends, commands, current)
  PROVE  InOrder(list, ends, Append(commands, c), current)
<1> DEFINE more == Append(commands, c)
<1>1. /\ DOMAIN commands \subseteq DOMAIN more /\ DOMAIN more \subseteq Nat
      /\ \A n \in DOMAIN commands : more[n] = commands[n]
      /\ \A n \in DOMAIN more : IsTransfer(more[n]) => n \in DOMAIN commands
      /\ \A n \in DOMAIN more : \A m \in 1 .. n - 1 : n \in DOMAIN commands => m \in DOMAIN commands
  OBVIOUS
<1> HIDE DEF more
<1>2. \A i : Waits(i, commands) => Waits(i, more)
  BY <1>1 DEF Waits
<1> QED
  BY <1>1, <1>2 DEF InOrder, more

LEMMA OrderDone ==
  ASSUME NEW list, NEW ends, NEW commands \in Seq(Commands), NEW current,
         commands # <<>>, ~IsTransfer(Head(commands)), InOrder(list, ends, commands, current)
  PROVE  InOrder(list, ends, Tail(commands), current)
<1> DEFINE less == Tail(commands)
<1>1. /\ \A n \in DOMAIN commands : n = 1 \/ (n - 1 \in DOMAIN less /\ less[n - 1] = commands[n])
      /\ \A n \in DOMAIN less : n + 1 \in DOMAIN commands /\ less[n] = commands[n + 1]
      /\ \A n \in DOMAIN less : \A m \in 1 .. n - 1 : m \in DOMAIN less /\ m + 1 \in 1 .. (n + 1) - 1
      /\ ~IsTransfer(commands[1])
  OBVIOUS
<1> HIDE DEF less
<1>2. \A i : Waits(i, commands) => Waits(i, less)
  BY <1>1 DEF Waits
<1> QED
  BY <1>1, <1>2 DEF InOrder, less

\* A transfer that is begun is the last to be worked on.
LEMMA OrderPushed ==
  ASSUME NEW list \in Seq(Transfers), NEW ends, NEW commands \in Seq(Commands),
         NEW current \in Current, NEW c \in Commands, IsTransfer(c), c.id = Len(list) + 1,
         ends[Len(list) + 1] = None, InOrder(list, ends, commands, current)
  PROVE  InOrder(Append(list, Transfer(c.id, c.file, None)), ends, Append(commands, c), current)
<1> DEFINE more == Append(commands, c)
           longer == Append(list, Transfer(c.id, c.file, None))
<1>1. /\ DOMAIN more = DOMAIN commands \cup {Len(commands) + 1}
      /\ \A n \in DOMAIN commands : more[n] = commands[n]
      /\ more[Len(commands) + 1] = c
      /\ \A n \in DOMAIN more : \A m \in 1 .. n - 1 : m \in DOMAIN commands
      /\ Len(commands) + 1 \notin DOMAIN commands
  OBVIOUS
<1>2. c.id \in Ids /\ c.file \in Files
  BY DEF IsTransfer, Commands
<1>3. /\ DOMAIN longer = DOMAIN list \cup {Len(list) + 1}
      /\ \A i \in DOMAIN list : longer[i] = list[i] /\ i < Len(list) + 1
      /\ longer[Len(list) + 1].file = c.file
  BY <1>2 DEF Transfer, Transfers
<1> HIDE DEF more, longer
<1>4. \A i : Waits(i, commands) => Waits(i, more)
  BY <1>1 DEF Waits
<1>5. Waits(Len(list) + 1, more)
  BY <1>1 DEF Waits
<1>6. \A n \in DOMAIN commands : IsTransfer(commands[n]) => commands[n].id < c.id
  BY <1>3 DEF InOrder
<1>7. current # None => current.id < c.id
  BY <1>3 DEF InOrder
<1>8. ASSUME NEW n \in DOMAIN more, IsTransfer(more[n])
      PROVE  /\ more[n].id \in DOMAIN longer /\ ends[more[n].id] = None
             /\ longer[more[n].id].file = more[n].file
             /\ current # None => current.id < more[n].id
             /\ \A m \in 1 .. n - 1 : IsTransfer(more[m]) => more[m].id < more[n].id
  <2>1. CASE n \in DOMAIN commands
    <3>1. more[n] = commands[n] /\ \A m \in 1 .. n - 1 : more[m] = commands[m]
      BY <1>1, <2>1
    <3>2. /\ commands[n].id \in DOMAIN list /\ ends[commands[n].id] = None
          /\ list[commands[n].id].file = commands[n].file
          /\ current # None => current.id < commands[n].id
          /\ \A m \in 1 .. n - 1 : IsTransfer(commands[m]) => commands[m].id < commands[n].id
      BY <1>8, <2>1, <3>1 DEF InOrder
    <3> QED
      BY <1>3, <3>1, <3>2
  <2>2. CASE n = Len(commands) + 1
    BY <1>1, <1>3, <1>6, <1>7, <2>2
  <2> QED
    BY <1>1, <2>1, <2>2
<1>9. current # None => /\ current.id \in DOMAIN longer /\ ends[current.id] = None
                        /\ longer[current.id].file = current.file
  BY <1>3 DEF InOrder
<1>10. \A i \in DOMAIN longer :
         ends[i] = None => (current # None /\ current.id = i) \/ Waits(i, more)
  BY <1>3, <1>4, <1>5 DEF InOrder
<1> QED
  BY <1>8, <1>9, <1>10 DEF InOrder, more, longer

\* A transfer that is taken from the queue is the current one.
LEMMA OrderTaken ==
  ASSUME NEW list, NEW ends, NEW commands \in Seq(Commands), NEW current,
         commands # <<>>, IsTransfer(Head(commands)), InOrder(list, ends, commands, None),
         current # None, current.id = Head(commands).id, current.file = Head(commands).file
  PROVE  InOrder(list, ends, Tail(commands), current)
<1> DEFINE less == Tail(commands)
<1>1. /\ \A n \in DOMAIN commands : n = 1 \/ (n - 1 \in DOMAIN less /\ less[n - 1] = commands[n])
      /\ \A n \in DOMAIN less : n + 1 \in DOMAIN commands /\ less[n] = commands[n + 1]
                                /\ 1 \in 1 .. (n + 1) - 1
      /\ \A n \in DOMAIN less : \A m \in 1 .. n - 1 : m \in DOMAIN less /\ m + 1 \in 1 .. (n + 1) - 1
      /\ 1 \in DOMAIN commands /\ commands[1] = Head(commands)
  OBVIOUS
<1> HIDE DEF less
<1>2. \A i : Waits(i, commands) => i = current.id \/ Waits(i, less)
  BY <1>1 DEF Waits
<1>3. \A n \in DOMAIN less : IsTransfer(less[n]) => current.id < less[n].id
  BY <1>1 DEF InOrder
<1>4. ASSUME NEW n \in DOMAIN less, IsTransfer(less[n])
      PROVE  /\ less[n].id \in DOMAIN list /\ ends[less[n].id] = None
             /\ list[less[n].id].file = less[n].file
             /\ \A m \in 1 .. n - 1 : IsTransfer(less[m]) => less[m].id < less[n].id
  <2>1. n + 1 \in DOMAIN commands /\ less[n] = commands[n + 1]
    BY <1>1
  <2>2. ASSUME NEW m \in 1 .. n - 1, IsTransfer(less[m]) PROVE less[m].id < less[n].id
    <3>1. less[m] = commands[m + 1] /\ m + 1 \in 1 .. (n + 1) - 1
      BY <1>1
    <3> QED
      BY <1>4, <2>1, <2>2, <3>1 DEF InOrder
  <2>3. /\ less[n].id \in DOMAIN list /\ ends[less[n].id] = None
        /\ list[less[n].id].file = less[n].file
    BY <1>4, <2>1 DEF InOrder
  <2> QED
    BY <2>2, <2>3
<1>5. /\ current.id \in DOMAIN list /\ ends[current.id] = None
      /\ list[current.id].file = current.file
  BY <1>1 DEF InOrder
<1>6. \A i \in DOMAIN list : ends[i] = None => current.id = i \/ Waits(i, less)
  BY <1>2 DEF InOrder
<1> QED
  BY <1>3, <1>4, <1>5, <1>6 DEF InOrder, less

\* The one that ends is the first that has not, and the next is the first then.
LEMMA OrderEnded ==
  ASSUME NEW list \in Seq(Transfers), Len(list) <= MaxTransfers, NEW ends \in Ends,
         NEW commands \in Seq(Commands), NEW current, current # None,
         NEW outcome \in {"Finished", "Failed"},
         InOrder(list, ends, commands, current), EndedInOrder(list, ends)
  PROVE  /\ InOrder(list, [ends EXCEPT ![current.id] = outcome], commands, None)
         /\ EndedInOrder(list, [ends EXCEPT ![current.id] = outcome])
<1> DEFINE id == current.id
           after == [ends EXCEPT ![id] = outcome]
<1>1. id \in DOMAIN list /\ DOMAIN list \subseteq Ids /\ ends[id] = None /\ Ids \subseteq Nat
  BY BoundsAssumption DEF InOrder, Ids
<1>2. after[id] # None /\ \A j \in Ids : j # id => after[j] = ends[j]
  BY <1>1, NoneAssumption DEF Ends
<1> HIDE DEF after
<1>3. \A i : Waits(i, commands) => id < i
  BY DEF InOrder, Waits
<1>4. \A i \in DOMAIN list : i < id => ends[i] # None
  BY <1>1, <1>3 DEF InOrder
<1>5. InOrder(list, after, commands, None)
  <2>1. \A n \in DOMAIN commands : IsTransfer(commands[n]) => commands[n].id # id
    BY <1>1 DEF InOrder
  <2>2. \A i \in DOMAIN list : after[i] = None => Waits(i, commands)
    BY <1>1, <1>2 DEF InOrder
  <2> QED
    BY <1>1, <1>2, <2>1, <2>2 DEF InOrder
<1>6. EndedInOrder(list, after)
  <2> SUFFICES ASSUME NEW i \in Ids, after[i] # None
               PROVE  i \in DOMAIN list /\ \A j \in 1 .. i - 1 : after[j] # None
    BY DEF EndedInOrder
  <2>1. CASE i = id
    <3>1. \A j \in 1 .. id - 1 : j \in DOMAIN list /\ j < id
      BY <1>1
    <3> QED
      BY <1>1, <1>2, <1>4, <2>1, <3>1
  <2>2. CASE i # id
    <3>1. \A j \in 1 .. i - 1 : j \in Ids
      BY BoundsAssumption DEF Ids
    <3> QED
      BY <1>2, <2>2, <3>1 DEF EndedInOrder
  <2> QED
    BY <2>1, <2>2
<1> QED
  BY <1>5, <1>6 DEF after

\* What the list shows of outcomes is nothing to it.
LEMMA OrderShown ==
  ASSUME NEW list, NEW next, NEW ends, NEW commands, NEW current,
         DOMAIN next = DOMAIN list, \A i \in DOMAIN list : next[i].file = list[i].file,
         InOrder(list, ends, commands, current), EndedInOrder(list, ends)
  PROVE  InOrder(next, ends, commands, current) /\ EndedInOrder(next, ends)
BY DEF InOrder, EndedInOrder

------------------------------------------------------------------------------
(* Types                                                                   *)

LEMMA Least ==
  ASSUME NEW S, S \subseteq Nat, S # {}
  PROVE  \E i \in S : \A j \in S : i <= j
<1>1. PICK i \in S : \A j \in S : <<j, i>> \notin OpToRel(<, Nat)
  BY NatLessThanWellFounded, WFMin
<1>2. \A j \in S : ~ (j < i)
  BY <1>1 DEF OpToRel
<1> QED
  BY <1>2

\* What a file may hold is a sequence of chunks that is not too long.
LEMMA WrittenAre ==
  /\ \A w \in Written : w \in Seq(Versions) /\ Len(w) <= MaxChunks
  /\ \A w \in Seq(Versions) : Len(w) <= MaxChunks => w \in Written
  /\ <<>> \in Written
<1>1. ASSUME NEW w \in Written PROVE w \in Seq(Versions) /\ Len(w) <= MaxChunks
  <2>1. PICK n \in 0 .. MaxChunks : w \in [1 .. n -> Versions]
    BY DEF Written
  <2>2. w \in Seq(Versions) /\ Len(w) = n
    BY <2>1, BoundsAssumption
  <2> QED
    BY <2>2, BoundsAssumption
<1>2. ASSUME NEW w \in Seq(Versions), Len(w) <= MaxChunks PROVE w \in Written
  <2>1. w \in [1 .. Len(w) -> Versions] /\ Len(w) \in 0 .. MaxChunks
    BY <1>2, BoundsAssumption
  <2> QED
    BY <2>1 DEF Written
<1>3. <<>> \in Written
  <2>1. <<>> \in Seq(Versions) /\ Len(<<>>) <= MaxChunks
    BY BoundsAssumption
  <2> QED
    BY <1>2, <2>1
<1> QED
  BY <1>1, <1>2, <1>3

\* Sequences are the same if they are so place by place.
LEMMA SameSequence ==
  ASSUME NEW S, NEW s \in Seq(S), NEW t \in Seq(S), Len(s) = Len(t),
         \A k \in 1 .. Len(s) : s[k] = t[k]
  PROVE  s = t
<1>1. s \in [1 .. Len(s) -> S] /\ t \in [1 .. Len(s) -> S]
  BY ONLY Len(s) = Len(t), s \in Seq(S), t \in Seq(S)
<1> QED
  BY <1>1

\* The sizes of either side.
LEMMA SizesAre ==
  ASSUME disk \in [Sides -> [Files -> Contents]], NEW side \in Sides
  PROVE  /\ [f \in Files |-> IF disk[side][f] = None THEN -1 ELSE Len(disk[side][f])] \in Sizes
         /\ \A dir : [f \in Files |-> IF dir = Home /\ disk[side][f] # None
                                      THEN Len(disk[side][f]) ELSE -1] \in Sizes
<1>1. \A f \in Files : disk[side][f] # None => Len(disk[side][f]) \in -1 .. MaxChunks
  BY WrittenAre, BoundsAssumption DEF Contents
<1>2. -1 \in -1 .. MaxChunks
  BY BoundsAssumption
<1> QED
  BY <1>1, <1>2 DEF Sizes

\* A file that is given other contents leaves the other files alone.
With(files, side, file, content) == [files EXCEPT ![side][file] = content]
LEMMA DiskWith ==
  ASSUME NEW files \in [Sides -> [Files -> Contents]],
         NEW side \in Sides, NEW file \in Files, NEW content \in Contents
  PROVE  LET after == With(files, side, file, content)
         IN /\ after \in [Sides -> [Files -> Contents]]
            /\ after[side][file] = content
            /\ \A s \in Sides, f \in Files :
                 s # side \/ f # file => after[s][f] = files[s][f]
<1> DEFINE row == [files[side] EXCEPT ![file] = content]
           after == [files EXCEPT ![side] = row]
<1>1. row \in [Files -> Contents] /\ row[file] = content
      /\ \A f \in Files : f # file => row[f] = files[side][f]
  OBVIOUS
<1> HIDE DEF row
<1>2. after \in [Sides -> [Files -> Contents]] /\ after[side] = row
      /\ \A s \in Sides : s # side => after[s] = files[s]
  BY <1>1
<1> QED
  BY <1>1, <1>2 DEF row, With

LEMMA Typed ==
  ASSUME IInv
  PROVE  /\ disk \in [Sides -> [Files -> Contents]]
         /\ queue \in Seq(Commands) /\ events \in Seq(Events)
         /\ open \in BOOLEAN /\ receiver = open
         /\ job \in Current /\ (job # None <=> phase = "copying")
         /\ truth \in Ends
         /\ transfers \in Seq(Transfers) /\ Len(transfers) <= MaxTransfers
         /\ DOMAIN transfers \subseteq Ids /\ Ids \subseteq Nat
         /\ \A i \in DOMAIN transfers : transfers[i].id = i
         /\ None \notin {"Finished", "Failed"}
BY NoneAssumption, JobAssumption, BoundsAssumption
   DEF IInv, TypeOK, Current, Ends, Outcomes, Ids

LEMMA CommandsAre ==
  /\ \A c \in Commands : IsTransfer(c) => /\ c.op \in {"download", "upload"} /\ c.file \in Files
                                          /\ c.id \in Ids /\ c.resume \in BOOLEAN
  /\ \A c \in Commands : c.op = "list" => c.dir \in Dirs
  /\ \A c \in Commands : c.op = "remove" => c.file \in Files
BY DEF Commands, IsTransfer

LEMMA JobIs ==
  ASSUME NEW c, c.op \in {"download", "upload"}, c.file \in Files, c.id \in Ids,
         NEW done \in Nat, NEW sound \in BOOLEAN
  PROVE  LET current == Job(c, done, sound)
         IN /\ current \in Jobs /\ current # None
            /\ current.op = c.op /\ current.file = c.file /\ current.id = c.id
            /\ current.done = done /\ current.sound = sound
<1>1. Job(c, done, sound) \in Jobs
  BY DEF Job, Jobs
<1> QED
  BY <1>1, JobAssumption DEF Job

------------------------------------------------------------------------------
(* The parts, step by step                                                 *)

\* What keeps the tab keeps what it shows.
LEMMA TabStays ==
  ASSUME IInv, UNCHANGED tabVars
  PROVE  ListingIsOfHere' /\ (here' = None => remote' = None) /\ (~open' => here' = None)
BY DEF IInv, ListingIsOfHere, tabVars

\* A report of something other than the end of a transfer.
LEMMA Reported ==
  ASSUME IInv, NEW e \in Events, e.is # "Finished", Report(e),
         phase # "opening", phase' # "opening", e.is # "Ready",
         UNCHANGED <<transfers, truth, open, here>>
  PROVE  /\ events' \in Seq(Events)
         /\ open => Told(transfers, truth, events)' /\ Heard'
<1> USE Typed
<1>1. CASE ~open
  BY <1>1 DEF Report
<1>2. CASE open
  <2>1. events' = Append(events, e)
    BY <1>2 DEF Report
  <2>2. Told(transfers, truth, events)'
    BY <1>2, <2>1, ToldMore DEF IInv
  <2>3. Heard'
    BY <1>2, <2>1 DEF IInv, Heard
  <2> QED
    BY <2>1, <2>2, <2>3
<1> QED
  BY <1>1, <1>2

\* What takes something other than a transfer from the queue.
LEMMA OtherTaken ==
  ASSUME IInv, queue # <<>>, ~IsTransfer(Head(queue)), queue' = Tail(queue), job' = job,
         UNCHANGED <<transfers, truth>>
  PROVE  /\ queue' \in Seq(Commands)
         /\ open => InOrder(transfers, truth, queue, job)' /\ EndedInOrder(transfers, truth)'
<1> USE Typed
<1>1. queue' \in Seq(Commands)
  OBVIOUS
<1>2. open => InOrder(transfers, truth, queue, job)' /\ EndedInOrder(transfers, truth)'
  BY OrderDone DEF IInv
<1> QED
  BY <1>1, <1>2

LEMMA StartsStep == ASSUME IInv, Starts, UNCHANGED tabVars PROVE IInv'
<1> USE Typed
<1>1. job = None /\ job' = None
  BY DEF Starts
<1>2. events' = IF open THEN Append(events, [is |-> "Ready"]) ELSE events
  BY DEF Starts, Report
<1>3. [is |-> "Ready"] \in Events
  BY DEF Events
<1>4. TypeOK'
  BY <1>1, <1>2, <1>3 DEF Starts, tabVars, IInv, TypeOK
<1>5. Continued(disk, job)'
  BY <1>1 DEF Continued
<1>6. ASSUME open
      PROVE  /\ InOrder(transfers, truth, queue, job)' /\ EndedInOrder(transfers, truth)'
             /\ Told(transfers, truth, events)' /\ Heard'
  <2>1. Told(transfers, truth, events)'
    BY <1>2, <1>3, <1>6, ToldMore DEF IInv, Starts, tabVars
  <2>2. Heard'
    BY <1>2, <1>6 DEF IInv, Heard, Starts, tabVars
  <2> QED
    BY <1>6, <2>1, <2>2 DEF IInv, Starts, tabVars
<1> QED
  BY <1>4, <1>5, <1>6, TabStays DEF IInv, tabVars

LEMMA CannotStartStep == ASSUME IInv, CannotStart, UNCHANGED tabVars PROVE IInv'
<1> USE Typed
<1> DEFINE failed == [is |-> "Failed", what |-> None]
           gone == [is |-> "Closed"]
<1>1. job = None /\ job' = None
  BY DEF CannotStart
<1>2. open => events = <<>> /\ here = None
  BY DEF CannotStart, IInv, Heard
<1>3. events' = IF open THEN Append(Append(events, failed), gone) ELSE events
  BY <1>2 DEF CannotStart
<1>4. failed \in Events /\ gone \in Events
  BY DEF Events
<1>5. TypeOK'
  BY <1>1, <1>3, <1>4 DEF CannotStart, tabVars, IInv, TypeOK
<1>6. Continued(disk, job)'
  BY <1>1 DEF Continued
<1>7. ASSUME open
      PROVE  /\ InOrder(transfers, truth, queue, job)' /\ EndedInOrder(transfers, truth)'
             /\ Told(transfers, truth, events)' /\ Heard'
  <2>1. Told(transfers, truth, Append(events, failed))
    BY <1>4, <1>7, ToldMore DEF IInv
  <2>2. Told(transfers, truth, Append(Append(events, failed), gone))
    <3>1. Append(events, failed) \in Seq(Events) /\ gone.is # "Finished"
      BY <1>4
    <3> HIDE DEF failed, gone
    <3> QED
      BY <1>4, <2>1, <3>1, ToldMore
  <2>3. Heard'
    BY <1>2, <1>3, <1>7 DEF IInv, Heard, CannotStart, tabVars
  <2> QED
    BY <1>3, <1>7, <2>2, <2>3 DEF IInv, CannotStart, tabVars
<1> QED
  BY <1>5, <1>6, <1>7, TabStays DEF IInv, tabVars

LEMMA ListsStep == ASSUME IInv, Lists, UNCHANGED tabVars PROVE IInv'
<1> USE Typed
<1>1. /\ job = None /\ job' = None /\ phase = "idle" /\ phase' \in {"idle", "leaving"}
      /\ queue # <<>> /\ ~IsTransfer(Head(queue)) /\ queue' = Tail(queue)
      /\ Head(queue).dir \in Dirs
  BY CommandsAre DEF Lists, Head1, NextPhase, IsTransfer
<1>2. PICK e \in Events : e.is \in {"Listing", "Failed"} /\ Report(e)
  <2>1. Listing(Head(queue).dir) \in Events
    <3>1. "remote" \in Sides
      BY DEF Sides
    <3>2. Listing(Head(queue).dir).sizes \in Sizes
      BY <3>1, SizesAre DEF Listing
    <3> QED
      BY <1>1, <3>2 DEF Events, Listing
  <2>2. [is |-> "Failed", what |-> Head(queue).dir] \in Events
    BY <1>1 DEF Events
  <2> QED
    BY <2>1, <2>2 DEF Lists, Listing
<1>3. UNCHANGED <<transfers, truth, open, here>>
  BY DEF Lists, tabVars
<1>4. /\ events' \in Seq(Events)
      /\ open => Told(transfers, truth, events)' /\ Heard'
  BY <1>1, <1>2, <1>3, Reported
<1>5. /\ queue' \in Seq(Commands)
      /\ open => InOrder(transfers, truth, queue, job)' /\ EndedInOrder(transfers, truth)'
  BY <1>1, <1>3, OtherTaken
<1>6. TypeOK'
  BY <1>1, <1>4, <1>5 DEF Lists, tabVars, IInv, TypeOK
<1>7. Continued(disk, job)'
  BY <1>1 DEF Continued
<1> QED
  BY <1>3, <1>4, <1>5, <1>6, <1>7, TabStays DEF IInv

LEMMA RemovesStep == ASSUME IInv, Removes, UNCHANGED tabVars PROVE IInv'
<1> USE Typed
<1>1. /\ job = None /\ job' = None /\ phase = "idle" /\ phase' \in {"idle", "leaving"}
      /\ queue # <<>> /\ ~IsTransfer(Head(queue)) /\ queue' = Tail(queue)
      /\ Head(queue).file \in Files
  BY CommandsAre DEF Removes, Head1, NextPhase, IsTransfer
<1>2. PICK e \in Events : e.is \in {"Done", "Failed"} /\ Report(e)
  <2>1. [is |-> "Done"] \in Events /\ [is |-> "Failed", what |-> Head(queue).file] \in Events
    BY <1>1 DEF Events
  <2> QED
    BY <2>1 DEF Removes
<1>3. UNCHANGED <<transfers, truth, open, here>>
  BY DEF Removes, tabVars
<1>4. /\ events' \in Seq(Events)
      /\ open => Told(transfers, truth, events)' /\ Heard'
  BY <1>1, <1>2, <1>3, Reported
<1>5. /\ queue' \in Seq(Commands)
      /\ open => InOrder(transfers, truth, queue, job)' /\ EndedInOrder(transfers, truth)'
  BY <1>1, <1>3, OtherTaken
<1>6. disk' \in [Sides -> [Files -> Contents]]
  <2>1. "remote" \in Sides /\ None \in Contents
    BY DEF Sides, Contents
  <2> DEFINE file == Head(queue).file
  <2>2. disk' = With(disk, "remote", file, None) \/ disk' = disk
    BY DEF Removes, With
  <2> HIDE DEF file
  <2>3. file \in Files
    BY <1>1 DEF file
  <2> QED
    BY <2>1, <2>2, <2>3, DiskWith, SMTT(30)
<1>7. TypeOK'
  BY <1>1, <1>4, <1>5, <1>6 DEF Removes, tabVars, IInv, TypeOK
<1>8. Continued(disk, job)'
  BY <1>1 DEF Continued
<1> QED
  BY <1>3, <1>4, <1>5, <1>7, <1>8, TabStays DEF IInv

\* Where a transfer reads and writes, on two sides.
LEMMA SidesAre ==
  \A op \in {"download", "upload"} :
    Source(op) \in Sides /\ Sink(op) \in Sides /\ Source(op) # Sink(op)
BY DEF Source, Sink, Sides

LEMMA BeginsStep ==
  ASSUME IInv, NEW op \in {"download", "upload"}, Begins(op), UNCHANGED tabVars
  PROVE  IInv'
<1> USE Typed
<1> DEFINE command == Head(queue)
           already == Already(command)
           sink == disk[Sink(op)][command.file]
           source == disk[Source(op)][command.file]
<1>1. /\ command \in Commands /\ IsTransfer(command) /\ command.op = op
      /\ command.file \in Files /\ command.id \in Ids
      /\ queue # <<>> /\ queue' = Tail(queue) /\ phase = "idle" /\ phase' = "copying"
      /\ UNCHANGED <<transfers, truth, events, open, here>>
  BY CommandsAre DEF Begins, Head1, IsTransfer, tabVars
<1>2. sink \in Contents /\ source \in Contents /\ source # None
  BY <1>1, SidesAre DEF Begins
<1>3. /\ already \in Nat /\ Opened(command) \in Written /\ Len(Opened(command)) = already
      /\ already # 0 => sink # None /\ Opened(command) = sink
  <2>1. sink # None => Len(sink) \in Nat
    BY <1>2, WrittenAre DEF Contents
  <2>2. Len(<<>>) = 0
    OBVIOUS
  <2>3. already = 0 \/ (sink # None /\ already = Len(sink))
    BY <1>1 DEF Already, Length
  <2>4. Opened(command) = IF already > 0 THEN sink ELSE <<>>
    BY <1>1 DEF Opened
  <2>5. sink # None => sink \in Written
    BY <1>2 DEF Contents
  <2>6. <<>> \in Written
    BY WrittenAre
  <2> HIDE DEF already, sink, source, command
  <2> QED
    BY ONLY <2>1, <2>2, <2>3, <2>4, <2>5, <2>6
<1>4. disk' = With(disk, Sink(op), command.file, Opened(command))
  BY DEF Begins, With
<1>5. /\ disk' \in [Sides -> [Files -> Contents]]
      /\ disk'[Sink(op)][command.file] = Opened(command)
      /\ disk'[Source(op)][command.file] = source
  BY <1>1, <1>3, <1>4, SidesAre, DiskWith DEF Contents
<1>6. job' = Job(command, already, already = 0 \/ IsPrefix(sink, source))
  BY <1>1 DEF Begins
<1>7. /\ job' \in Jobs /\ job' # None /\ job'.op = op /\ job'.file = command.file
      /\ job'.id = command.id /\ job'.done = already
      /\ job'.sound <=> already = 0 \/ IsPrefix(sink, source)
  <2> DEFINE sound == already = 0 \/ IsPrefix(sink, source)
  <2>1. sound \in BOOLEAN
    OBVIOUS
  <2> HIDE DEF sound
  <2>2. job' = Job(command, already, sound)
    BY <1>6 DEF sound
  <2>3. /\ job' \in Jobs /\ job' # None /\ job'.op = op /\ job'.file = command.file
        /\ job'.id = command.id /\ job'.done = already /\ job'.sound = sound
    BY <1>1, <1>3, <2>1, <2>2, JobIs, CommandsAre
  <2> QED
    BY <2>3 DEF sound
<1>8. Continued(disk, job)'
  <2>1. ASSUME already = 0 \/ IsPrefix(sink, source)
        PROVE  already <= Len(source) /\ \A k \in 1 .. already : Opened(command)[k] = source[k]
    <3>1. Len(source) \in Nat /\ source \in Seq(Versions)
      BY <1>2, WrittenAre DEF Contents
    <3>2. CASE already = 0
      BY <3>1, <3>2
    <3>3. CASE already # 0
      <4>1. sink \in Seq(Versions) /\ already = Len(sink) /\ Opened(command) = sink
        BY <1>2, <1>3, <3>3, WrittenAre, SMTT(30) DEF Contents
      <4>2. /\ Len(sink) <= Len(source)
            /\ SubSeq(sink, 1, Len(sink)) = SubSeq(source, 1, Len(sink))
        BY <2>1, <3>3 DEF IsPrefix
      <4>3. \A k \in 1 .. Len(sink) :
              SubSeq(sink, 1, Len(sink))[k] = sink[k] /\ SubSeq(source, 1, Len(sink))[k] = source[k]
        BY <3>1, <4>1, <4>2
      <4> QED
        BY <4>1, <4>2, <4>3, SMTT(30)
    <3> QED
      BY <3>2, <3>3
  <2> HIDE DEF already, sink, source, command
  <2>2. Opened(command) # None
    BY <1>3, NoneAssumption
  <2> QED
    BY <1>2, <1>3, <1>5, <1>7, <2>1, <2>2 DEF Continued
<1>9. queue' \in Seq(Commands)
  BY <1>1
<1>10. ASSUME open
       PROVE  InOrder(transfers, truth, queue, job)' /\ EndedInOrder(transfers, truth)'
  <2>1. InOrder(transfers, truth, queue, None) /\ EndedInOrder(transfers, truth)
    BY <1>1, <1>10 DEF IInv
  <2> QED
    BY <1>1, <1>7, <2>1, OrderTaken, SMTT(30)
<1>11. open => Told(transfers, truth, events)' /\ Heard'
  BY <1>1, SMTT(30) DEF IInv, Heard
<1>12. TypeOK'
  BY <1>1, <1>5, <1>7, <1>9 DEF Begins, tabVars, IInv, TypeOK
<1> QED
  BY <1>1, <1>8, <1>10, <1>11, <1>12, TabStays DEF IInv

\* The task tells how a transfer ended, its own or the one it has just taken.
LEMMA EndTold ==
  ASSUME IInv, NEW current \in Jobs, phase # "opening", phase' # "opening",
         NEW e \in Events, NEW outcome \in {"Finished", "Failed"}, Report(e),
         open => /\ InOrder(transfers, truth, queue', current)
                 /\ queue' \in Seq(Commands)
                 /\ e = IF outcome = "Finished" THEN [is |-> "Finished", id |-> current.id]
                                                ELSE [is |-> "Failed", what |-> current.file],
         truth' = [truth EXCEPT ![current.id] = outcome], job' = None,
         UNCHANGED <<transfers, open, here>>
  PROVE  /\ events' \in Seq(Events) /\ truth' \in Ends
         /\ open => /\ InOrder(transfers, truth, queue, job)' /\ EndedInOrder(transfers, truth)'
                    /\ Told(transfers, truth, events)' /\ Heard'
<1> USE Typed
<1>1. current.id \in Ids /\ current # None
  BY JobAssumption DEF Jobs
<1>2. truth' \in Ends
  BY <1>1 DEF Ends, Outcomes
<1>3. CASE ~open
  BY <1>2, <1>3 DEF Report
<1>4. CASE open
  <2>1. events' = Append(events, e)
    BY <1>4 DEF Report
  <2>2. EndedInOrder(transfers, truth) /\ Told(transfers, truth, events)
    BY <1>4 DEF IInv
  <2>3. InOrder(transfers, truth, queue, job)' /\ EndedInOrder(transfers, truth)'
    BY <1>1, <1>4, <2>2, OrderEnded
  <2>4. current.id \in DOMAIN transfers /\ truth[current.id] = None
        /\ transfers[current.id].file = current.file
    BY <1>1, <1>4 DEF InOrder
  <2>5. Told(transfers, truth, events)'
    BY <1>4, <2>1, <2>2, <2>4, ToldTheEnd
  <2>6. Heard'
    BY <1>4, <2>1 DEF IInv, Heard
  <2> QED
    BY <1>2, <2>1, <2>3, <2>5, <2>6
<1> QED
  BY <1>3, <1>4

LEMMA CannotBeginStep ==
  ASSUME IInv, NEW op \in {"download", "upload"}, CannotBegin(op), UNCHANGED tabVars
  PROVE  IInv'
<1> USE Typed
<1> DEFINE command == Head(queue)
<1>1. /\ command \in Commands /\ IsTransfer(command) /\ command.op = op
      /\ command.file \in Files /\ command.id \in Ids /\ job = None /\ job' = None
      /\ queue # <<>> /\ queue' = Tail(queue) /\ phase = "idle" /\ phase' \in {"idle", "leaving"}
      /\ UNCHANGED <<transfers, open, here, disk, receiver, edits>>
      /\ truth' = [truth EXCEPT ![command.id] = "Failed"]
      /\ Report([is |-> "Failed", what |-> command.file])
  BY CommandsAre DEF CannotBegin, Fails, NextPhase, Head1, IsTransfer, tabVars
<1>2. PICK current \in Jobs : current.id = command.id /\ current.file = command.file
  <2> HIDE DEF command
  <2>1. \A sound \in BOOLEAN : /\ Job(command, 0, sound) \in Jobs
                               /\ Job(command, 0, sound).id = command.id
                               /\ Job(command, 0, sound).file = command.file
    BY <1>1, JobIs, CommandsAre
  <2> QED
    BY <2>1
<1>c. current # None
  BY JobAssumption
<1>3. queue' \in Seq(Commands)
  BY <1>1
<1>4. open => InOrder(transfers, truth, queue', current)
  BY <1>1, <1>2, <1>c, OrderTaken DEF IInv
<1>5. [is |-> "Failed", what |-> command.file] \in Events
  BY <1>1 DEF Events
<1> HIDE DEF command
<1>6. /\ events' \in Seq(Events) /\ truth' \in Ends
      /\ open => /\ InOrder(transfers, truth, queue, job)' /\ EndedInOrder(transfers, truth)'
                 /\ Told(transfers, truth, events)' /\ Heard'
  <2>1. "Failed" \in {"Finished", "Failed"} /\ phase # "opening" /\ phase' # "opening"
    BY <1>1
  <2>2. [is |-> "Failed", what |-> command.file] =
          IF "Failed" = "Finished" THEN [is |-> "Finished", id |-> current.id]
                                   ELSE [is |-> "Failed", what |-> current.file]
    BY <1>2
  <2> QED
    BY <1>1, <1>2, <1>3, <1>4, <1>5, <2>1, <2>2, EndTold
<1>7. TypeOK'
  BY <1>1, <1>3, <1>6 DEF tabVars, IInv, TypeOK, Ends, Outcomes
<1>8. Continued(disk, job)'
  BY <1>1 DEF Continued
<1> QED
  BY <1>1, <1>6, <1>7, <1>8, TabStays DEF IInv

LEMMA CopiesStep == ASSUME IInv, Copies, UNCHANGED tabVars PROVE IInv'
<1> USE Typed
<1> DEFINE sink == disk[Sink(job.op)][job.file]
           chunk == From[job.done + 1]
<1>1. /\ phase = "copying" /\ phase' = "copying" /\ job \in Jobs
      /\ job.op \in {"download", "upload"} /\ job.file \in Files /\ job.id \in Ids
      /\ job.done \in Nat /\ job.sound \in BOOLEAN
      /\ UNCHANGED <<transfers, truth, events, queue, open, here>>
  BY DEF Copies, tabVars, Current, Jobs
<1>2. /\ sink \in Seq(Versions) /\ Len(sink) = job.done /\ Len(sink) <= MaxChunks
  <2>1. sink # None /\ Len(sink) = job.done
    BY <1>1 DEF IInv, Continued
  <2>2. sink \in Contents
    BY <1>1, SidesAre
  <2> HIDE DEF sink
  <2> QED
    BY ONLY <2>1, <2>2, WrittenAre DEF Contents
<1>3. /\ From \in Seq(Versions) /\ Len(From) <= MaxChunks /\ job.done < Len(From)
  <2>1. From \in Contents
    BY <1>1, SidesAre DEF From
  <2>2. From # None /\ ~(job.done >= Len(From))
    BY DEF Copies, AtEnd
  <2>3. From \in Seq(Versions) /\ Len(From) <= MaxChunks
    BY ONLY <2>1, <2>2, WrittenAre DEF Contents
  <2> QED
    BY ONLY <1>1, <2>2, <2>3
<1>4. chunk \in Versions /\ From # None /\ chunk = From[job.done + 1]
  BY <1>1, <1>3, NoneAssumption DEF Copies, AtEnd
<1>5. disk' = With(disk, Sink(job.op), job.file, Append(sink, chunk))
  BY DEF Copies, With
<1>6. /\ job' \in Jobs /\ job' # None /\ job'.op = job.op /\ job'.file = job.file
      /\ job'.id = job.id /\ job'.done = job.done + 1 /\ job'.sound = job.sound
  <2>1. job' = Job(job, job.done + 1, job.sound) /\ job.done + 1 \in Nat
    BY <1>1 DEF Copies
  <2> QED
    BY <1>1, <2>1, JobIs
<1> HIDE DEF chunk
<1>7. Append(sink, chunk) \in Contents /\ Append(sink, chunk) # None
  <2>1. Append(sink, chunk) \in Seq(Versions) /\ Len(Append(sink, chunk)) <= MaxChunks
    BY <1>1, <1>2, <1>3, <1>4, BoundsAssumption, SMTT(30)
  <2> QED
    BY <2>1, WrittenAre, NoneAssumption DEF Contents
<1>8. /\ disk' \in [Sides -> [Files -> Contents]]
      /\ disk'[Sink(job.op)][job.file] = Append(sink, chunk)
      /\ disk'[Source(job.op)][job.file] = From
  <2>1. Source(job.op) \in Sides /\ Sink(job.op) \in Sides /\ Source(job.op) # Sink(job.op)
    BY <1>1, SidesAre
  <2> DEFINE more == Append(sink, chunk)
  <2> HIDE DEF more
  <2>2. disk' = With(disk, Sink(job.op), job.file, more) /\ more \in Contents
    BY <1>5, <1>7 DEF more
  <2>3. /\ disk' \in [Sides -> [Files -> Contents]]
        /\ disk'[Sink(job.op)][job.file] = more
        /\ disk'[Source(job.op)][job.file] = From
    BY <1>1, <2>1, <2>2, DiskWith, SMTT(30) DEF From
  <2> QED
    BY <2>3 DEF more
<1>9. Continued(disk, job)'
  <2>1. /\ Len(Append(sink, chunk)) = job.done + 1
        /\ \A k \in 1 .. job.done : Append(sink, chunk)[k] = sink[k]
        /\ Append(sink, chunk)[job.done + 1] = chunk
    BY <1>2, <1>4, SMTT(30)
  <2>2. job.sound => \A k \in 1 .. job.done : sink[k] = From[k]
    BY <1>1 DEF IInv, Continued, From
  <2>3. job.sound => \A k \in 1 .. job.done + 1 : Append(sink, chunk)[k] = From[k]
    <3>1. \A k \in 1 .. job.done + 1 : k \in 1 .. job.done \/ k = job.done + 1
      BY <1>1
    <3> QED
      BY <1>4, <2>1, <2>2, <3>1
  <2>4. job.done + 1 <= Len(From)
    BY <1>1, <1>3
  <2> HIDE DEF sink
  <2> QED
    BY <1>4, <1>6, <1>7, <1>8, <2>1, <2>3, <2>4 DEF Continued
<1>10. open => InOrder(transfers, truth, queue, job)' /\ EndedInOrder(transfers, truth)'
  BY <1>1, <1>6 DEF IInv, InOrder
<1>11. open => Told(transfers, truth, events)' /\ Heard'
  BY <1>1 DEF IInv, Heard
<1>12. TypeOK'
  BY <1>1, <1>6, <1>8 DEF Copies, tabVars, IInv, TypeOK
<1> QED
  BY <1>1, <1>9, <1>10, <1>11, <1>12, TabStays DEF IInv

LEMMA FinishesStep == ASSUME IInv, Finishes, UNCHANGED tabVars PROVE IInv'
<1> USE Typed
<1> DEFINE e == [is |-> "Finished", id |-> job.id]
<1>1. /\ phase = "copying" /\ phase' \in {"idle", "leaving"} /\ job \in Jobs /\ job' = None
      /\ job.id \in Ids /\ UNCHANGED <<transfers, queue, disk, open, here>>
      /\ truth' = [truth EXCEPT ![job.id] = "Finished"] /\ Report(e)
  BY DEF Finishes, NextPhase, tabVars, Current, Jobs
<1>2. e \in Events
  BY <1>1 DEF Events
<1>3. /\ events' \in Seq(Events) /\ truth' \in Ends
      /\ open => /\ InOrder(transfers, truth, queue, job)' /\ EndedInOrder(transfers, truth)'
                 /\ Told(transfers, truth, events)' /\ Heard'
  <2>1. "Finished" \in {"Finished", "Failed"} /\ phase # "opening" /\ phase' # "opening"
    BY <1>1
  <2>2. open => InOrder(transfers, truth, queue', job) /\ queue' \in Seq(Commands)
    BY <1>1 DEF IInv
  <2> QED
    BY <1>1, <1>2, <2>1, <2>2, EndTold
<1>4. TypeOK'
  BY <1>1, <1>3 DEF Finishes, tabVars, IInv, TypeOK, Ends, Outcomes
<1>5. Continued(disk, job)'
  BY <1>1 DEF Continued
<1> QED
  BY <1>1, <1>3, <1>4, <1>5, TabStays DEF IInv

LEMMA BreaksStep == ASSUME IInv, Breaks, UNCHANGED tabVars PROVE IInv'
<1> USE Typed
<1> DEFINE e == [is |-> "Failed", what |-> job.file]
<1>1. /\ phase = "copying" /\ phase' \in {"idle", "leaving"} /\ job \in Jobs /\ job' = None
      /\ job.file \in Files /\ UNCHANGED <<transfers, queue, disk, open, here>>
      /\ truth' = [truth EXCEPT ![job.id] = "Failed"] /\ Report(e)
  BY DEF Breaks, Fails, NextPhase, tabVars, Current, Jobs
<1>2. e \in Events
  BY <1>1 DEF Events
<1>3. /\ events' \in Seq(Events) /\ truth' \in Ends
      /\ open => /\ InOrder(transfers, truth, queue, job)' /\ EndedInOrder(transfers, truth)'
                 /\ Told(transfers, truth, events)' /\ Heard'
  <2>1. "Failed" \in {"Finished", "Failed"} /\ phase # "opening" /\ phase' # "opening"
    BY <1>1
  <2>2. open => InOrder(transfers, truth, queue', job) /\ queue' \in Seq(Commands)
    BY <1>1 DEF IInv
  <2>3. e = IF "Failed" = "Finished" THEN [is |-> "Finished", id |-> job.id] ELSE e
    OBVIOUS
  <2> QED
    BY <1>1, <1>2, <2>1, <2>2, <2>3, EndTold
<1>4. TypeOK'
  BY <1>1, <1>3 DEF Breaks, Fails, tabVars, IInv, TypeOK, Ends, Outcomes
<1>5. Continued(disk, job)'
  BY <1>1 DEF Continued
<1> QED
  BY <1>1, <1>3, <1>4, <1>5, TabStays DEF IInv

LEMMA StopsStep == ASSUME IInv, Stops, UNCHANGED tabVars PROVE IInv'
<1> USE Typed
<1>1. /\ phase = "idle" /\ phase' = "leaving" /\ job = None /\ job' = None
      /\ UNCHANGED <<transfers, truth, events, disk, open, here>>
  BY DEF Stops, Head1, tabVars
<1>2. /\ queue' \in Seq(Commands)
      /\ open => InOrder(transfers, truth, queue, job)' /\ EndedInOrder(transfers, truth)'
  <2>1. CASE Head1("shutdown") /\ queue' = Tail(queue)
    BY <1>1, <2>1, OtherTaken DEF Head1, IsTransfer
  <2>2. CASE UNCHANGED queue
    BY <1>1, <2>2 DEF IInv
  <2> QED
    BY <2>1, <2>2 DEF Stops
<1>3. TypeOK'
  BY <1>1, <1>2 DEF Stops, tabVars, IInv, TypeOK
<1>4. Continued(disk, job)' /\ (open => Told(transfers, truth, events)' /\ Heard')
  BY <1>1 DEF Continued, IInv, Heard
<1> QED
  BY <1>1, <1>2, <1>3, <1>4, TabStays DEF IInv

LEMMA LeavesStep == ASSUME IInv, Leaves, UNCHANGED tabVars PROVE IInv'
<1> USE Typed
<1>1. /\ phase = "leaving" /\ phase' = "ended" /\ job = None /\ job' = None
      /\ UNCHANGED <<transfers, truth, queue, disk, open, here>>
      /\ Report([is |-> "Closed"])
  BY DEF Leaves, tabVars
<1>2. [is |-> "Closed"] \in Events
  BY DEF Events
<1>3. /\ events' \in Seq(Events)
      /\ open => Told(transfers, truth, events)' /\ Heard'
  BY <1>1, <1>2, Reported
<1>4. TypeOK'
  BY <1>1, <1>3 DEF Leaves, tabVars, IInv, TypeOK
<1>5. Continued(disk, job)'
  BY <1>1 DEF Continued
<1>6. open => InOrder(transfers, truth, queue, job)' /\ EndedInOrder(transfers, truth)'
  BY <1>1 DEF IInv
<1> QED
  BY <1>1, <1>3, <1>4, <1>5, <1>6, TabStays DEF IInv

\* Asking for something other than a transfer, of a task that may be gone.
LEMMA OtherSent ==
  ASSUME IInv, NEW c \in Commands, ~IsTransfer(c), Send(c) \/ UNCHANGED queue
  PROVE  /\ queue' \in Seq(Commands)
         /\ open => InOrder(transfers, truth, queue', job)
<1> USE Typed
<1>1. CASE queue' = Append(queue, c)
  BY <1>1, OrderAsked DEF IInv
<1>2. CASE UNCHANGED queue
  BY <1>2 DEF IInv
<1> QED
  BY <1>1, <1>2 DEF Send

LEMMA Refreshed ==
  ASSUME IInv, Refreshes
  PROVE  /\ queue' \in Seq(Commands) /\ local' \in Sizes
         /\ open => InOrder(transfers, truth, queue', job)
<1> USE Typed
<1>1. local' \in Sizes
  <2>1. "local" \in Sides
    BY DEF Sides
  <2> QED
    BY <2>1, SizesAre DEF Refreshes, LocalSizes
<1>2. CASE here = None
  BY <1>1, <1>2 DEF Refreshes, IInv
<1>3. CASE here # None
  <2>1. here \in Dirs
    BY <1>3 DEF IInv, TypeOK
  <2>2. [op |-> "list", dir |-> here] \in Commands /\ ~IsTransfer([op |-> "list", dir |-> here])
    BY <2>1 DEF Commands, IsTransfer
  <2>3. Send([op |-> "list", dir |-> here])
    BY <1>3 DEF Refreshes, Asks
  <2> QED
    BY <1>1, <2>2, <2>3, OtherSent
<1> QED
  BY <1>2, <1>3

\* After the first event there is no news of where the account starts.
LEMMA HeardNext ==
  ASSUME IInv, open, events # <<>>, events' = Tail(events), phase' = phase
  PROVE  /\ events' \in Seq(Events) /\ Heard' /\ Head(events) \in Events
         /\ Head(events).is = "Ready" => here = None
<1> USE Typed
<1>1. phase # "opening"
  BY DEF IInv, Heard
<1>2. /\ \A n \in DOMAIN events' : n + 1 \in DOMAIN events /\ events'[n] = events[n + 1] /\ n + 1 # 1
      /\ 1 \in DOMAIN events /\ events[1] = Head(events)
  OBVIOUS
<1>3. \A n \in DOMAIN events' : events'[n].is # "Ready"
  BY <1>2 DEF IInv, Heard
<1>4. Heard'
  BY <1>1, <1>3 DEF Heard
<1>5. events' \in Seq(Events) /\ Head(events) \in Events
  OBVIOUS
<1>6. Head(events).is = "Ready" => here = None
  BY <1>2 DEF IInv, Heard
<1> QED
  BY <1>4, <1>5, <1>6

\* What is not about a transfer leaves what is to be told of them.
LEMMA OtherHeard ==
  ASSUME IInv, open, events # <<>>, events' = Tail(events), UNCHANGED <<transfers, truth>>,
         Head(events).is \notin {"Finished", "Failed"}
  PROVE  Told(transfers, truth, events)'
<1> USE Typed
<1>1. Told(transfers, truth, events)
  BY DEF IInv
<1>2. \A i : Head(events) # [is |-> "Finished", id |-> i]
             /\ ~Tells(Head(events), i, transfers, truth)
  BY DEF Tells
<1>3. \A i \in DOMAIN transfers : transfers[i].outcome = "Finished" => truth[i] = "Finished"
  BY <1>1 DEF Told, FinishedIsShown
<1> QED
  BY <1>1, <1>2, <1>3, ToldHeard

LEMMA ReadyStep == ASSUME IInv, AppliesReady PROVE IInv'
<1> USE Typed
<1>1. /\ open /\ events # <<>> /\ events' = Tail(events) /\ Head(events).is = "Ready"
      /\ here' = Home /\ Send([op |-> "list", dir |-> Home])
      /\ UNCHANGED <<disk, receiver, phase, job, truth, open, remote, local, transfers>>
  BY DEF AppliesReady, Event, Asks
<1>2. [op |-> "list", dir |-> Home] \in Commands /\ ~IsTransfer([op |-> "list", dir |-> Home])
  BY HomeAssumption DEF Commands, IsTransfer
<1>3. queue' \in Seq(Commands) /\ InOrder(transfers, truth, queue', job)
  BY <1>1, <1>2, OtherSent
<1>4. events' \in Seq(Events) /\ Heard' /\ here = None
  BY <1>1, HeardNext
<1>5. Told(transfers, truth, events)'
  BY <1>1, OtherHeard
<1>6. remote' = None
  BY <1>1, <1>4 DEF IInv
<1>7. TypeOK'
  BY <1>1, <1>3, <1>4, HomeAssumption DEF IInv, TypeOK
<1>8. Continued(disk, job)' /\ EndedInOrder(transfers, truth)'
  BY <1>1 DEF IInv
<1> QED
  BY <1>1, <1>3, <1>4, <1>5, <1>6, <1>7, <1>8 DEF IInv, ListingIsOfHere

LEMMA ListingStep == ASSUME IInv, AppliesListing PROVE IInv'
<1> USE Typed
<1>1. /\ open /\ events # <<>> /\ events' = Tail(events) /\ Head(events).is = "Listing"
      /\ UNCHANGED <<disk, queue, receiver, phase, job, truth, open, here, local, transfers>>
  BY DEF AppliesListing, Event
<1>2. events' \in Seq(Events) /\ Heard' /\ Head(events) \in Events
  BY <1>1, HeardNext
<1>3. Told(transfers, truth, events)'
  BY <1>1, OtherHeard
<1>4. /\ Head(events).dir \in Dirs /\ Head(events).sizes \in Sizes
  BY <1>1, <1>2 DEF Events
<1>5. /\ remote' # None => remote'.sizes \in Sizes /\ remote'.dir = here'
      /\ here' = None => remote' = None
  <2>1. CASE Head(events).dir = here
    <3>1. remote' = [dir |-> Head(events).dir, sizes |-> Head(events).sizes] /\ here' = here
      BY <2>1, <1>1 DEF AppliesListing
    <3>2. here # None
      BY <1>4, <2>1, NoneAssumption
    <3> QED
      BY <1>4, <2>1, <3>1, <3>2
  <2>2. CASE Head(events).dir # here
    BY <2>2, <1>1 DEF AppliesListing, IInv, TypeOK, ListingIsOfHere
  <2> QED
    BY <2>1, <2>2
<1>6. TypeOK'
  BY <1>1, <1>2, <1>5 DEF IInv, TypeOK
<1>7. Continued(disk, job)' /\ InOrder(transfers, truth, queue, job)' /\ EndedInOrder(transfers, truth)'
  BY <1>1 DEF IInv
<1> QED
  BY <1>1, <1>2, <1>3, <1>5, <1>6, <1>7 DEF IInv, ListingIsOfHere

LEMMA DoneStep == ASSUME IInv, AppliesDone PROVE IInv'
<1> USE Typed
<1>1. /\ open /\ events # <<>> /\ events' = Tail(events) /\ Head(events).is = "Done"
      /\ UNCHANGED <<disk, receiver, phase, job, truth, open, here, remote, transfers>>
  BY DEF AppliesDone, Event
<1>2. events' \in Seq(Events) /\ Heard'
  BY <1>1, HeardNext
<1>3. Told(transfers, truth, events)'
  BY <1>1, OtherHeard
<1>4. queue' \in Seq(Commands) /\ local' \in Sizes /\ InOrder(transfers, truth, queue', job)
  BY <1>1, Refreshed DEF AppliesDone
<1>5. TypeOK'
  BY <1>1, <1>2, <1>4 DEF IInv, TypeOK
<1>6. Continued(disk, job)' /\ EndedInOrder(transfers, truth)'
  BY <1>1 DEF IInv
<1> QED
  BY <1>1, <1>2, <1>3, <1>4, <1>5, <1>6 DEF IInv, ListingIsOfHere

\* A list that differs in outcomes only is a list of the same transfers.
LEMMA ShownAnew ==
  ASSUME IInv, NEW next, next = [i \in DOMAIN transfers |-> next[i]],
         \A i \in DOMAIN transfers :
           next[i] = transfers[i] \/ \E outcome \in {"Finished", "Failed"} :
                                       next[i] = Outcome(transfers[i], outcome)
  PROVE  /\ next \in Seq(Transfers) /\ Len(next) <= MaxTransfers
         /\ \A i \in DOMAIN next : next[i].id = i /\ next[i].file = transfers[i].file
<1> USE Typed
<1>1. ASSUME NEW i \in DOMAIN transfers
      PROVE  next[i] \in Transfers /\ next[i].id = i /\ next[i].file = transfers[i].file
  <2>1. transfers[i] \in Transfers /\ transfers[i].id = i
    OBVIOUS
  <2> QED
    BY <2>1 DEF Transfers, Outcome, Transfer
<1>2. next \in [1 .. Len(transfers) -> Transfers] /\ Len(transfers) \in Nat
  BY <1>1
<1>3. next \in Seq(Transfers) /\ Len(next) = Len(transfers) /\ DOMAIN next = DOMAIN transfers
  BY <1>2
<1> QED
  BY <1>1, <1>3

LEMMA FinishedStep == ASSUME IInv, AppliesFinished PROVE IInv'
<1> USE Typed
<1> DEFINE id == Head(events).id
<1>1. /\ open /\ events # <<>> /\ events' = Tail(events) /\ Head(events).is = "Finished"
      /\ UNCHANGED <<disk, receiver, phase, job, truth, open, here, remote>>
  BY DEF AppliesFinished, Event
<1>2. events' \in Seq(Events) /\ Heard' /\ Head(events) \in Events
  BY <1>1, HeardNext
<1>3. Told(transfers, truth, events) /\ EndedInOrder(transfers, truth)
  BY <1>1 DEF IInv
<1>4. id \in DOMAIN transfers /\ truth[id] = "Finished"
  <2>1. 1 \in DOMAIN events /\ events[1] = Head(events)
    BY <1>1
  <2> QED
    BY <1>1, <1>3, <2>1 DEF Told, ToldIsTrue
<1>5. transfers' = [transfers EXCEPT ![id] = Outcome(@, "Finished")]
  <2>1. Has(id) /\ IndexOf(id) = id
    BY <1>4 DEF Has, IndexOf
  <2> QED
    BY <2>1 DEF AppliesFinished
<1>6. /\ DOMAIN transfers' = DOMAIN transfers
      /\ transfers'[id] = Outcome(transfers[id], "Finished")
      /\ \A i \in DOMAIN transfers : i # id => transfers'[i] = transfers[i]
  BY <1>4, <1>5
<1>7. /\ transfers' \in Seq(Transfers) /\ Len(transfers') <= MaxTransfers
      /\ \A i \in DOMAIN transfers' : transfers'[i].id = i /\ transfers'[i].file = transfers[i].file
  <2>1. "Finished" \in {"Finished", "Failed"}
    OBVIOUS
  <2>2. transfers' = [i \in DOMAIN transfers |-> transfers'[i]]
    BY <1>5
  <2> QED
    BY <1>6, <2>1, <2>2, ShownAnew
<1>8. transfers'[id].outcome = "Finished"
  BY <1>6 DEF Outcome, Transfer
<1>9. Told(transfers, truth, events)'
  <2>1. \A i \in DOMAIN transfers :
          /\ transfers'[i].file = transfers[i].file
          /\ transfers'[i].outcome = None => transfers[i].outcome = None
          /\ transfers'[i].outcome = "Finished" => truth[i] = "Finished"
          /\ truth[i] = "Finished" /\ transfers[i].outcome = "Finished"
               => transfers'[i].outcome = "Finished"
          /\ Head(events) = [is |-> "Finished", id |-> i] => transfers'[i].outcome = "Finished"
    <3> SUFFICES ASSUME NEW i \in DOMAIN transfers
                 PROVE  /\ transfers'[i].file = transfers[i].file
                        /\ transfers'[i].outcome = None => transfers[i].outcome = None
                        /\ transfers'[i].outcome = "Finished" => truth[i] = "Finished"
                        /\ truth[i] = "Finished" /\ transfers[i].outcome = "Finished"
                             => transfers'[i].outcome = "Finished"
                        /\ Head(events) = [is |-> "Finished", id |-> i]
                             => transfers'[i].outcome = "Finished"
      OBVIOUS
    <3>1. Head(events) = [is |-> "Finished", id |-> i] => i = id
      OBVIOUS
    <3>2. CASE i = id
      BY <1>4, <1>6, <1>7, <1>8, <3>2
    <3>3. CASE i # id
      BY <1>3, <1>6, <1>7, <3>1, <3>3 DEF Told, FinishedIsShown
    <3> QED
      BY <3>2, <3>3
  <2>2. \A i \in Unshown(transfers, truth) :
          Tells(Head(events), i, transfers, truth) => transfers'[i].outcome # None
    <3>1. \A i : Tells(Head(events), i, transfers, truth) => i = id
      BY <1>1 DEF Tells
    <3> QED
      BY <1>8, <3>1
  <2> QED
    BY <1>1, <1>3, <1>6, <1>7, <2>1, <2>2, ToldHeard
<1>10. /\ queue' \in Seq(Commands) /\ local' \in Sizes
       /\ InOrder(transfers, truth, queue', job)
  BY <1>1, Refreshed DEF AppliesFinished
<1>11. InOrder(transfers, truth, queue, job)' /\ EndedInOrder(transfers, truth)'
  BY <1>1, <1>3, <1>6, <1>7, <1>10, OrderShown
<1>12. TypeOK'
  BY <1>1, <1>2, <1>7, <1>10 DEF IInv, TypeOK
<1>13. Continued(disk, job)'
  BY <1>1 DEF IInv
<1> QED
  BY <1>1, <1>2, <1>9, <1>11, <1>12, <1>13 DEF IInv, ListingIsOfHere

\* Whatever the failure is put to is the transfer it is about, or comes before the
\* first that is to be told of: a transfer before one that has ended has ended too.
LEMMA FailedStep == ASSUME IInv, AppliesFailed PROVE IInv'
<1> USE Typed
<1> DEFINE what == Head(events).what
           named == Named(what)
<1>1. /\ open /\ events # <<>> /\ events' = Tail(events) /\ Head(events).is = "Failed"
      /\ UNCHANGED <<disk, queue, receiver, phase, job, truth, open, here, remote, local>>
  BY DEF AppliesFailed, Event
<1>2. events' \in Seq(Events) /\ Heard' /\ Head(events) \in Events
  BY <1>1, HeardNext
<1>3. /\ Told(transfers, truth, events) /\ EndedInOrder(transfers, truth)
      /\ InOrder(transfers, truth, queue, job)
  BY <1>1 DEF IInv
<1>4. ASSUME NEW i \in Unshown(transfers, truth), Tells(Head(events), i, transfers, truth)
      PROVE  i \in named
  <2>1. what = transfers[i].file
    BY <1>1, <1>4 DEF Tells
  <2>2. transfers[i] \in Transfers
    BY DEF Unshown
  <2>3. <<what, transfers[i].file>> \in Mentions
    BY <2>1, <2>2, MentionsAssumption DEF Transfers
  <2> QED
    BY <2>3 DEF Named, Unshown
<1>5. CASE named = {}
  <2>1. transfers' = transfers
    BY <1>5 DEF AppliesFailed
  <2>2. \A i \in DOMAIN transfers : transfers[i].outcome = "Finished" => truth[i] = "Finished"
    BY <1>3 DEF Told, FinishedIsShown
  <2>3. \A i : Head(events) # [is |-> "Finished", id |-> i]
    BY <1>1
  <2>4. \A i \in Unshown(transfers, truth) : ~Tells(Head(events), i, transfers, truth)
    BY <1>4, <1>5
  <2>5. Told(transfers, truth, events)'
    BY <1>1, <1>3, <2>1, <2>2, <2>3, <2>4, ToldHeard
  <2>6. TypeOK'
    BY <1>1, <1>2, <2>1 DEF IInv, TypeOK
  <2> QED
    BY <1>1, <1>2, <1>3, <2>1, <2>5, <2>6 DEF IInv, ListingIsOfHere
<1>6. CASE named # {}
  <2> DEFINE first == CHOOSE i \in named : \A j \in named : i <= j
  <2>1. first \in named /\ \A j \in named : first <= j
    <3>1. named \subseteq Nat
      BY DEF Named
    <3> HIDE DEF named
    <3> QED
      BY <1>6, <3>1, Least
  <2>2. first \in DOMAIN transfers /\ transfers[first].outcome = None
    BY <2>1 DEF Named
  <2>3. transfers' = [transfers EXCEPT ![first] = Outcome(@, "Failed")]
    BY <1>6 DEF AppliesFailed
  <2> HIDE DEF first, named, what
  <2>4. /\ DOMAIN transfers' = DOMAIN transfers
        /\ transfers'[first] = Outcome(transfers[first], "Failed")
        /\ \A i \in DOMAIN transfers : i # first => transfers'[i] = transfers[i]
        /\ transfers' = [i \in DOMAIN transfers |-> transfers'[i]]
    BY <2>2, <2>3
  <2>5. /\ transfers' \in Seq(Transfers) /\ Len(transfers') <= MaxTransfers
        /\ \A i \in DOMAIN transfers' : transfers'[i].id = i
                                         /\ transfers'[i].file = transfers[i].file
    <3>1. "Failed" \in {"Finished", "Failed"}
      OBVIOUS
    <3> QED
      BY <2>4, <3>1, ShownAnew
  <2>6. transfers'[first].outcome = "Failed"
    BY <2>4 DEF Outcome, Transfer
  <2>7. ASSUME NEW i \in DOMAIN transfers
        PROVE  /\ transfers'[i].file = transfers[i].file
               /\ transfers'[i].outcome = None => transfers[i].outcome = None
               /\ transfers'[i].outcome = "Finished" => truth[i] = "Finished"
               /\ truth[i] = "Finished" /\ transfers[i].outcome = "Finished"
                    => transfers'[i].outcome = "Finished"
               /\ Head(events) = [is |-> "Finished", id |-> i] => transfers'[i].outcome = "Finished"
    <3>1. Head(events) # [is |-> "Finished", id |-> i]
      BY <1>1
    <3>2. CASE i = first
      BY <2>2, <2>4, <2>5, <2>6, <3>1, <3>2
    <3>3. CASE i # first
      BY <1>3, <2>4, <2>5, <3>1, <3>3 DEF Told, FinishedIsShown
    <3> QED
      BY <3>2, <3>3
  <2>8. ASSUME NEW i \in Unshown(transfers, truth), Tells(Head(events), i, transfers, truth),
               \A j \in Unshown(transfers, truth) : i <= j
        PROVE  transfers'[i].outcome # None
    <3>1. first <= i /\ i \in Ids /\ first \in Ids /\ truth[i] # None
      BY <1>4, <2>1, <2>2, <2>8 DEF Unshown
    <3>2. CASE first = i
      BY <2>6, <3>2
    <3>3. CASE first # i
      <4>1. first \in 1 .. i - 1
        BY <3>1, <3>3, BoundsAssumption DEF Ids
      <4>2. truth[first] # None
        BY <1>3, <3>1, <4>1 DEF EndedInOrder
      <4>3. first \in Unshown(transfers, truth)
        BY <2>2, <4>2 DEF Unshown
      <4> QED
        BY <2>8, <3>1, <4>1, <4>3
    <3> QED
      BY <3>2, <3>3
  <2>9. Told(transfers, truth, events)'
    BY <1>1, <1>3, <2>4, <2>5, <2>7, <2>8, ToldHeard
  <2>10. InOrder(transfers, truth, queue, job)' /\ EndedInOrder(transfers, truth)'
    BY <1>1, <1>3, <2>4, <2>5, OrderShown
  <2>11. TypeOK'
    BY <1>1, <1>2, <2>5 DEF IInv, TypeOK
  <2>12. Continued(disk, job)'
    BY <1>1 DEF IInv
  <2> QED
    BY <1>1, <1>2, <2>9, <2>10, <2>11, <2>12 DEF IInv, ListingIsOfHere
<1> QED
  BY <1>5, <1>6

LEMMA ClosedStep == ASSUME IInv, AppliesClosed PROVE IInv'
<1> USE Typed
<1>1. /\ open /\ events # <<>> /\ events' = Tail(events) /\ Head(events).is = "Closed"
      /\ UNCHANGED <<disk, queue, receiver, phase, job, truth, open, here, remote, local>>
      /\ transfers' = [i \in DOMAIN transfers |->
                         IF transfers[i].outcome = None
                         THEN Outcome(transfers[i], "Failed") ELSE transfers[i]]
  BY DEF AppliesClosed, Event
<1>2. events' \in Seq(Events) /\ Heard' /\ Head(events) \in Events
  BY <1>1, HeardNext
<1>3. /\ Told(transfers, truth, events) /\ EndedInOrder(transfers, truth)
      /\ InOrder(transfers, truth, queue, job)
  BY <1>1 DEF IInv
<1>4. /\ DOMAIN transfers' = DOMAIN transfers
      /\ \A i \in DOMAIN transfers :
           transfers'[i] = IF transfers[i].outcome = None
                           THEN Outcome(transfers[i], "Failed") ELSE transfers[i]
      /\ transfers' = [i \in DOMAIN transfers |-> transfers'[i]]
  BY <1>1
<1>5. /\ transfers' \in Seq(Transfers) /\ Len(transfers') <= MaxTransfers
      /\ \A i \in DOMAIN transfers' : transfers'[i].id = i /\ transfers'[i].file = transfers[i].file
  <2>1. "Failed" \in {"Finished", "Failed"}
    OBVIOUS
  <2> QED
    BY <1>4, <2>1, ShownAnew
<1>6. ASSUME NEW i \in DOMAIN transfers
      PROVE  /\ transfers'[i].outcome # None
             /\ transfers'[i].outcome = "Finished" <=> transfers[i].outcome = "Finished"
  BY <1>4 DEF Outcome, Transfer
<1>7. \A i : Head(events) # [is |-> "Finished", id |-> i]
  BY <1>1
<1>8. Told(transfers, truth, events)'
  <2>1. \A i \in DOMAIN transfers : transfers[i].outcome = "Finished" => truth[i] = "Finished"
    BY <1>3 DEF Told, FinishedIsShown
  <2>2. \A i \in Unshown(transfers, truth) : transfers'[i].outcome # None
    BY <1>6 DEF Unshown
  <2> QED
    <3>1. \A i \in DOMAIN transfers :
            /\ transfers'[i].file = transfers[i].file
            /\ transfers'[i].outcome = None => transfers[i].outcome = None
            /\ transfers'[i].outcome = "Finished" => truth[i] = "Finished"
            /\ truth[i] = "Finished" /\ transfers[i].outcome = "Finished"
                 => transfers'[i].outcome = "Finished"
            /\ Head(events) = [is |-> "Finished", id |-> i] => transfers'[i].outcome = "Finished"
      BY <1>4, <1>5, <1>6, <1>7, <2>1
    <3> QED
      <4> DEFINE next == transfers'
      <4>1. /\ next \in Seq(Transfers) /\ DOMAIN next = DOMAIN transfers
            /\ events' = Tail(events) /\ truth' = truth
        BY <1>1, <1>4, <1>5
      <4> HIDE DEF next
      <4>2. Told(next, truth, Tail(events))
        BY <1>1, <1>3, <2>2, <3>1, <4>1, ToldHeard DEF next
      <4> QED
        BY <4>1, <4>2 DEF next
<1>9. InOrder(transfers, truth, queue, job)' /\ EndedInOrder(transfers, truth)'
  BY <1>1, <1>3, <1>4, <1>5, OrderShown
<1>10. TypeOK'
  BY <1>1, <1>2, <1>5 DEF IInv, TypeOK
<1>11. Continued(disk, job)'
  BY <1>1 DEF IInv
<1> QED
  BY <1>1, <1>2, <1>8, <1>9, <1>10, <1>11 DEF IInv, ListingIsOfHere

LEMMA RefreshStep == ASSUME IInv, Refresh PROVE IInv'
<1> USE Typed
<1>1. /\ open
      /\ UNCHANGED <<disk, events, receiver, phase, job, truth, open, here, remote, transfers>>
  BY DEF Refresh
<1>2. queue' \in Seq(Commands) /\ local' \in Sizes /\ InOrder(transfers, truth, queue', job)
  BY <1>1, Refreshed DEF Refresh
<1>3. TypeOK'
  BY <1>1, <1>2 DEF IInv, TypeOK
<1> QED
  BY <1>1, <1>2, <1>3 DEF IInv, ListingIsOfHere, Heard

LEMMA GoRemoteStep == ASSUME IInv, NEW dir \in Dirs, GoRemote(dir) PROVE IInv'
<1> USE Typed
<1> DEFINE c == [op |-> "list", dir |-> dir]
<1>1. /\ open /\ here # None /\ here' = dir /\ remote' = None /\ Send(c)
      /\ UNCHANGED <<disk, events, receiver, phase, job, truth, open, local, transfers>>
  BY DEF GoRemote, Asks
<1>2. c \in Commands /\ ~IsTransfer(c)
  BY DEF Commands, IsTransfer
<1> HIDE DEF c
<1>3. queue' \in Seq(Commands) /\ InOrder(transfers, truth, queue', job)
  BY <1>1, <1>2, OtherSent
<1>4. Heard'
  BY <1>1 DEF IInv, Heard
<1>5. TypeOK'
  BY <1>1, <1>3 DEF IInv, TypeOK
<1> QED
  BY <1>1, <1>3, <1>4, <1>5 DEF IInv, ListingIsOfHere

LEMMA BeginStep ==
  ASSUME IInv, open, NEW op \in {"download", "upload"}, NEW file \in Files,
         NEW resume \in BOOLEAN, Begin(op, file, resume)
  PROVE  IInv'
<1> USE Typed
<1> DEFINE id == Len(transfers) + 1
           c == [op |-> op, file |-> file, id |-> id, resume |-> resume]
<1>1. /\ UNCHANGED <<disk, events, receiver, phase, job, truth, open, here, remote, local>>
      /\ Send(c) /\ id \in Ids
      /\ transfers' = IF CanSend THEN Append(transfers, Transfer(id, file, None)) ELSE transfers
  BY BoundsAssumption DEF Begin, Ids
<1>2. c \in Commands /\ IsTransfer(c) /\ c.id = id /\ c.file = file
  BY <1>1 DEF Commands, IsTransfer
<1> HIDE DEF c
<1>3. /\ Told(transfers, truth, events) /\ EndedInOrder(transfers, truth)
      /\ InOrder(transfers, truth, queue, job) /\ Heard'
  BY <1>1 DEF IInv, Heard
<1>4. CASE ~CanSend
  <2>1. transfers' = transfers /\ queue' = queue
    BY <1>1, <1>4 DEF Send
  <2>2. TypeOK'
    BY <1>1, <2>1 DEF IInv, TypeOK
  <2> QED
    BY <1>1, <1>3, <2>1, <2>2 DEF IInv, ListingIsOfHere
<1>5. CASE CanSend
  <2>1. transfers' = Append(transfers, Transfer(id, file, None)) /\ queue' = Append(queue, c)
    BY <1>1, <1>5 DEF Send
  <2>2. truth[id] = None
    <3>1. id \notin DOMAIN transfers
      OBVIOUS
    <3> QED
      BY <1>1, <1>3, <3>1 DEF EndedInOrder
  <2>3. Told(transfers, truth, events)'
    BY <1>1, <1>3, <2>1, <2>2, ToldOfMore
  <2>4. InOrder(transfers, truth, queue, job)'
    <3>1. /\ transfers' = Append(transfers, Transfer(c.id, c.file, None))
          /\ c.id = Len(transfers) + 1 /\ truth[Len(transfers) + 1] = None
      BY <1>2, <2>1, <2>2
    <3>2. InOrder(Append(transfers, Transfer(c.id, c.file, None)), truth, Append(queue, c), job)
      BY <1>2, <1>3, <3>1, OrderPushed
    <3> QED
      BY <1>1, <2>1, <3>1, <3>2
  <2>5. /\ queue' \in Seq(Commands) /\ transfers' \in Seq(Transfers)
        /\ DOMAIN transfers' = DOMAIN transfers \cup {id} /\ Len(transfers') = id
        /\ \A i \in DOMAIN transfers' : transfers'[i].id = i
    <3>1. Transfer(id, file, None) \in Transfers /\ Transfer(id, file, None).id = id
      BY <1>1 DEF Transfer, Transfers
    <3> QED
      BY <1>2, <2>1, <3>1
  <2>6. EndedInOrder(transfers, truth)'
    BY <1>1, <1>3, <2>5 DEF EndedInOrder
  <2>7. TypeOK'
    BY <1>1, <2>5, BoundsAssumption DEF IInv, TypeOK, Ids
  <2> QED
    BY <1>1, <1>3, <2>3, <2>4, <2>6, <2>7 DEF IInv, ListingIsOfHere
<1> QED
  BY <1>4, <1>5

LEMMA DeleteStep == ASSUME IInv, NEW file \in Files, DeleteSelected(file) PROVE IInv'
<1> USE Typed
<1> DEFINE c == [op |-> "remove", file |-> file]
<1>1. /\ open /\ Send(c)
      /\ UNCHANGED <<disk, events, receiver, phase, job, truth,
                     open, here, remote, local, transfers>>
  BY DEF DeleteSelected
<1>2. c \in Commands /\ ~IsTransfer(c)
  BY DEF Commands, IsTransfer
<1> HIDE DEF c
<1>3. queue' \in Seq(Commands) /\ InOrder(transfers, truth, queue', job)
  BY <1>1, <1>2, OtherSent
<1>4. TypeOK'
  BY <1>1, <1>3 DEF IInv, TypeOK
<1> QED
  BY <1>1, <1>3, <1>4 DEF IInv, ListingIsOfHere, Heard

LEMMA EditStep ==
  ASSUME IInv, NEW side \in Sides, NEW file \in Files, NEW other \in Others,
         Edit(side, file, other), UNCHANGED tabVars
  PROVE  IInv'
<1> USE Typed
<1>1. /\ job # None => side # Sink(job.op) \/ file # job.file
      /\ disk' = With(disk, side, file, other)
      /\ job' = IF job # None /\ file = job.file THEN Job(job, job.done, FALSE) ELSE job
      /\ UNCHANGED <<queue, events, receiver, phase, truth, transfers, open, here>>
  BY DEF Edit, With, tabVars
<1>2. other \in Contents
  BY OthersAssumption DEF Contents
<1>3. /\ disk' \in [Sides -> [Files -> Contents]]
      /\ \A s \in Sides, f \in Files : s # side \/ f # file => disk'[s][f] = disk[s][f]
  BY <1>1, <1>2, DiskWith, SMTT(30)
<1>4. job = None => job' = None
  BY <1>1
<1>5. job # None =>
        /\ job' \in Jobs /\ job' # None /\ job'.op = job.op /\ job'.file = job.file
        /\ job'.id = job.id /\ job'.done = job.done
        /\ job'.sound => job.sound /\ file # job.file
  <2> SUFFICES ASSUME job # None
               PROVE  /\ job' \in Jobs /\ job' # None /\ job'.op = job.op /\ job'.file = job.file
                      /\ job'.id = job.id /\ job'.done = job.done
                      /\ job'.sound => job.sound /\ file # job.file
    OBVIOUS
  <2>1. /\ job.op \in {"download", "upload"} /\ job.file \in Files /\ job.id \in Ids
        /\ job.done \in Nat
    BY DEF Current, Jobs
  <2>2. CASE file = job.file
    <3>1. PICK sound \in BOOLEAN : sound = FALSE
      OBVIOUS
    <3>2. job' = Job(job, job.done, sound)
      BY <1>1, <2>2, <3>1
    <3>3. job' \in Jobs /\ job' # None /\ job'.op = job.op /\ job'.file = job.file
          /\ job'.id = job.id /\ job'.done = job.done /\ job'.sound = sound
      BY <2>1, <3>2, JobIs
    <3> QED
      BY <3>1, <3>3
  <2>3. CASE file # job.file
    BY <1>1, <2>3 DEF Current
  <2> QED
    BY <2>2, <2>3
<1>6. Continued(disk, job)'
  <2> SUFFICES ASSUME job' # None PROVE Continued(disk, job)'
    BY DEF Continued
  <2>1. job # None /\ job.op \in {"download", "upload"} /\ job.file \in Files
    BY <1>4 DEF Current, Jobs
  <2>2. Sink(job.op) \in Sides /\ Source(job.op) \in Sides
    BY <2>1, SidesAre
  <2>3. disk'[Sink(job.op)][job.file] = disk[Sink(job.op)][job.file]
    BY <1>1, <1>3, <2>1, <2>2
  <2>4. file # job.file => disk'[Source(job.op)][job.file] = disk[Source(job.op)][job.file]
    BY <1>3, <2>1, <2>2
  <2> QED
    <3>1. Continued(disk, job)
      BY DEF IInv
    <3>2. /\ disk'[Sink(job'.op)][job'.file] = disk[Sink(job.op)][job.file]
          /\ job'.done = job.done
          /\ job'.sound => /\ job.sound
                           /\ disk'[Source(job'.op)][job'.file] = disk[Source(job.op)][job.file]
      BY <1>5, <2>1, <2>3, <2>4
    <3> QED
      BY <2>1, <3>1, <3>2 DEF Continued
<1>7. open => /\ InOrder(transfers, truth, queue, job)' /\ EndedInOrder(transfers, truth)'
              /\ Told(transfers, truth, events)' /\ Heard'
  BY <1>1, <1>4, <1>5 DEF IInv, InOrder, Heard
<1>8. TypeOK'
  BY <1>1, <1>3, <1>4, <1>5 DEF IInv, TypeOK, tabVars
<1> QED
  BY <1>1, <1>6, <1>7, <1>8, TabStays DEF IInv

LEMMA CloseStep == ASSUME IInv, Close PROVE IInv'
<1> USE Typed
<1> DEFINE c == [op |-> "shutdown"]
<1>1. /\ open' = FALSE /\ receiver' = FALSE /\ Send(c) /\ events' = <<>> /\ here' = None
      /\ remote' = None /\ local' = [f \in Files |-> -1] /\ transfers' = <<>>
      /\ UNCHANGED <<disk, phase, job, truth>>
  BY DEF Close
<1>2. c \in Commands /\ ~IsTransfer(c)
  BY DEF Commands, IsTransfer
<1> HIDE DEF c
<1>3. queue' \in Seq(Commands)
  BY <1>1, <1>2, OtherSent
<1>4. local' \in Sizes
  BY <1>1, BoundsAssumption DEF Sizes
<1>5. TypeOK'
  <2>1. /\ <<>> \in Seq(Transfers) /\ <<>> \in Seq(Events) /\ Len(<<>>) <= MaxTransfers
        /\ DOMAIN <<>> = {}
    BY BoundsAssumption
  <2> QED
    BY <1>1, <1>3, <1>4, <2>1 DEF IInv, TypeOK
<1> QED
  BY <1>1, <1>5 DEF IInv, ListingIsOfHere

------------------------------------------------------------------------------
(* The theorems                                                            *)

LEMMA InitKeeps == Init => IInv
<1> SUFFICES ASSUME Init PROVE IInv
  OBVIOUS
<1> USE DEF Init, SessionInit
<1>1. disk \in [Sides -> [Files -> Contents]]
  BY BeforeAssumption
<1>2. local \in Sizes
  <2>1. "local" \in Sides
    BY DEF Sides
  <2> QED
    BY <1>1, <2>1, SizesAre DEF LocalSizes
<1>3. /\ <<>> \in Seq(Transfers) /\ <<>> \in Seq(Events) /\ <<>> \in Seq(Commands)
      /\ Len(<<>>) <= MaxTransfers /\ DOMAIN <<>> = {}
  BY BoundsAssumption
<1>4. TypeOK
  BY <1>1, <1>2, <1>3 DEF TypeOK
<1>5. InOrder(<<>>, truth, <<>>, None) /\ EndedInOrder(<<>>, truth)
  BY <1>3 DEF InOrder, EndedInOrder
<1>6. Told(<<>>, truth, <<>>)
  <2>1. Unshown(<<>>, truth) = {}
    BY <1>3 DEF Unshown
  <2>2. [i \in {} |-> i] \in [{} -> DOMAIN <<>>]
    OBVIOUS
  <2>3. WillBeTold(<<>>, truth, <<>>)
    BY <2>1, <2>2 DEF WillBeTold
  <2> QED
    BY <1>3, <2>3 DEF Told, FinishedIsShown, ToldIsTrue
<1>7. Heard
  BY <1>3 DEF Heard
<1> QED
  BY <1>4, <1>5, <1>6, <1>7 DEF IInv, Continued, ListingIsOfHere

LEMMA NextKeeps == IInv /\ [Next]_vars => IInv'
<1> SUFFICES ASSUME IInv, [Next]_vars PROVE IInv'
  OBVIOUS
<1>1. CASE SessionSteps /\ UNCHANGED tabVars
  <2>1. ASSUME NEW op \in {"download", "upload"}, Begins(op) \/ CannotBegin(op) PROVE IInv'
    BY <1>1, <2>1, BeginsStep, CannotBeginStep
  <2> QED
    BY <1>1, <2>1, StartsStep, CannotStartStep, ListsStep, RemovesStep, CopiesStep,
       FinishesStep, BreaksStep, StopsStep, LeavesStep DEF SessionSteps
<1>2. CASE Applies
  BY <1>2, ReadyStep, ListingStep, FinishedStep, DoneStep, FailedStep, ClosedStep DEF Applies
<1>3. CASE Refresh
  BY <1>3, RefreshStep
<1>4. ASSUME NEW dir \in Dirs, GoRemote(dir) PROVE IInv'
  BY <1>4, GoRemoteStep
<1>5. ASSUME NEW file \in Files,
             DownloadSelected(file) \/ UploadSelected(file) \/ DeleteSelected(file)
      PROVE  IInv'
  <2>1. CASE DownloadSelected(file)
    <3>1. PICK resume \in BOOLEAN : Begin("download", file, resume) /\ open
      BY <2>1 DEF DownloadSelected
    <3>2. "download" \in {"download", "upload"}
      OBVIOUS
    <3> QED
      BY <3>1, <3>2, BeginStep
  <2>2. CASE UploadSelected(file)
    <3>1. PICK resume \in BOOLEAN : Begin("upload", file, resume) /\ open
      BY <2>2 DEF UploadSelected
    <3>2. "upload" \in {"download", "upload"}
      OBVIOUS
    <3> QED
      BY <3>1, <3>2, BeginStep
  <2>3. CASE DeleteSelected(file)
    BY <2>3, DeleteStep
  <2> QED
    BY <1>5, <2>1, <2>2, <2>3
<1>6. ASSUME NEW side \in Sides, NEW file \in Files, NEW other \in Others,
             Edit(side, file, other) /\ UNCHANGED tabVars
      PROVE  IInv'
  BY <1>6, EditStep
<1>7. CASE Close
  BY <1>7, CloseStep
<1>8. CASE UNCHANGED vars
  <2>1. UNCHANGED <<disk, queue, events, receiver, phase, job, edits, truth,
                    open, here, remote, local, waiting, transfers, asked, closed>>
    BY <1>8 DEF vars
  <2> QED
    BY <2>1 DEF IInv, TypeOK, ListingIsOfHere, Heard
<1> QED
  BY <1>1, <1>2, <1>3, <1>4, <1>5, <1>6, <1>7, <1>8 DEF Next

\* Every reachable state satisfies the invariant.
THEOREM Invariance == Spec => []IInv
BY InitKeeps, NextKeeps, PTL DEF Spec

\* The panel is typed as its fields are.
THEOREM TypeCorrect == Spec => []TypeOK
<1>1. IInv => TypeOK
  BY DEF IInv
<1> QED
  BY <1>1, Invariance, PTL

\* A listing is shown only where the panel is, however many are in flight.
THEOREM ShownIsOfHere == Spec => []ListingIsOfHere
<1>1. IInv => ListingIsOfHere
  BY DEF IInv
<1> QED
  BY <1>1, Invariance, PTL

\* Once everything is told each transfer shows what became of it, although
\* failures are put to transfers by the names their words hold.
THEOREM OutcomesBecomeTrue == Spec => []OutcomesAreTrue
<1>1. IInv => OutcomesAreTrue
  <2> SUFFICES ASSUME IInv, AllTold
               PROVE  \A i \in DOMAIN transfers :
                        /\ truth[i] = "Finished" <=> transfers[i].outcome = "Finished"
                        /\ truth[i] = "Failed" => transfers[i].outcome = "Failed"
    BY DEF OutcomesAreTrue
  <2>1. Told(transfers, truth, <<>>)
    BY DEF IInv, AllTold
  <2> QED
    BY <2>1, Typed, ToldAll
<1> QED
  BY <1>1, Invariance, PTL

\* A transfer that finishes reports the bytes that are there, and leaves a copy of
\* what nobody exchanged, resumed from a beginning of it or not resumed.
THEOREM FinishedLeavesACopy == Spec => FinishedIsACopy
<1>1. IInv /\ Finishes =>
        /\ job.done = Length(disk[Sink(job.op)][job.file])
        /\ job.sound => disk[Sink(job.op)][job.file] = disk[Source(job.op)][job.file]
  <2> SUFFICES ASSUME IInv, Finishes
               PROVE  /\ job.done = Length(disk[Sink(job.op)][job.file])
                      /\ job.sound => disk[Sink(job.op)][job.file] = disk[Source(job.op)][job.file]
    OBVIOUS
  <2> USE Typed
  <2> DEFINE sink == disk[Sink(job.op)][job.file]
             source == disk[Source(job.op)][job.file]
  <2>1. /\ job # None /\ job.op \in {"download", "upload"} /\ job.file \in Files
        /\ source = None \/ job.done >= Len(source)
    BY DEF Finishes, Current, Jobs, AtEnd, From
  <2>2. sink \in Contents /\ source \in Contents
    BY <2>1, SidesAre
  <2>3. /\ sink # None /\ Len(sink) = job.done
        /\ job.sound => /\ source # None /\ job.done <= Len(source)
                        /\ \A k \in 1 .. job.done : sink[k] = source[k]
    BY <2>1 DEF IInv, Continued
  <2>4. sink \in Seq(Versions) /\ (source # None => source \in Seq(Versions))
    BY <2>2, <2>3, WrittenAre DEF Contents
  <2> HIDE DEF sink, source
  <2>5. ASSUME job.sound PROVE sink = source
    <3>1. Len(sink) = Len(source) /\ \A k \in 1 .. Len(sink) : sink[k] = source[k]
      BY <2>1, <2>3, <2>4, <2>5
    <3> QED
      BY ONLY <2>3, <2>4, <2>5, <3>1, SameSequence
  <2>6. job.done = Length(sink)
    BY <2>3 DEF Length
  <2> QED
    BY <2>5, <2>6 DEF sink, source
<1> QED
  BY <1>1, Invariance, PTL DEF FinishedIsACopy
================================================================================
