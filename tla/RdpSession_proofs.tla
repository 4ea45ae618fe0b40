--------------------------- MODULE RdpSession_proofs ---------------------------
(***************************************************************************)
(* Credentials go only to a key with a source, what was written down is    *)
(* found again, what is shown is whole and no PDU is lost, for every       *)
(* number of desktops, hosts and keys.  The invariant is one of each       *)
(* attempt and one of the lines of the file; a step of one attempt leaves  *)
(* the others as they are, and only a painted frame writes lines.          *)
(***************************************************************************)
EXTENDS RdpSession, FiniteSetTheorems, WellFoundedInduction, TLAPS

------------------------------------------------------------------------------
(* Sets of numbers, sequences and messages                                 *)

LEMMA Least ==
  ASSUME NEW S \in SUBSET Nat, S # {}
  PROVE  \E n \in S : \A k \in S : n <= k
<1>1. PICK n \in S : \A k \in S : ~(<<k, n>> \in OpToRel(<, Nat))
  BY NatLessThanWellFounded, WFMin
<1>2. \A k \in S : ~(k < n)
  BY <1>1 DEF OpToRel
<1> QED
  BY <1>2

LEMMA Greatest ==
  ASSUME NEW m \in Nat, NEW S \in SUBSET (1 .. m), S # {}
  PROVE  \E n \in S : \A k \in S : k <= n
<1> DEFINE R == {m - n : n \in S}
<1>1. R \in SUBSET Nat /\ R # {}
  <2>1. \A n \in 1 .. m : m - n \in Nat
    OBVIOUS
  <2> QED
    BY <2>1
<1>2. PICK r \in R : \A k \in R : r <= k
  BY <1>1, Least
<1>3. PICK n \in S : r = m - n
  OBVIOUS
<1>4. \A k \in S : m - n <= m - k
  BY <1>2, <1>3
<1> QED
  BY <1>3, <1>4

LEMMA AppendElements ==
  ASSUME NEW S, NEW s \in Seq(S), NEW e \in S
  PROVE  /\ Append(s, e) \in Seq(S)
         /\ \A n \in DOMAIN Append(s, e) :
              (n \in DOMAIN s /\ Append(s, e)[n] = s[n]) \/ Append(s, e)[n] = e
OBVIOUS

LEMMA TailElements ==
  ASSUME NEW S, NEW s \in Seq(S), s # <<>>
  PROVE  /\ Tail(s) \in Seq(S)
         /\ \A n \in DOMAIN Tail(s) : n + 1 \in DOMAIN s /\ Tail(s)[n] = s[n + 1]
OBVIOUS

LEMMA HeadElement ==
  ASSUME NEW S, NEW s \in Seq(S), s # <<>>
  PROVE  1 \in DOMAIN s /\ Head(s) = s[1]
OBVIOUS

LEMMA ConcatElements ==
  ASSUME NEW S, NEW s \in Seq(S), NEW t \in Seq(S)
  PROVE  /\ s \o t \in Seq(S) /\ Len(s \o t) = Len(s) + Len(t)
         /\ \A n \in 1 .. Len(s) : (s \o t)[n] = s[n]
         /\ \A n \in 1 .. Len(s \o t) :
              n \in 1 .. Len(s) \/ (n - Len(s) \in 1 .. Len(t) /\ (s \o t)[n] = t[n - Len(s)])
OBVIOUS

LEMMA SamePrefix ==
  ASSUME NEW S, NEW s \in Seq(S), NEW t \in Seq(S), NEW m \in 0 .. Len(s),
         Len(s) <= Len(t), \A n \in 1 .. Len(s) : t[n] = s[n]
  PROVE  SubSeq(t, 1, m) = SubSeq(s, 1, m)
<1>1. SubSeq(t, 1, m) = [n \in 1 .. m |-> t[n]] /\ SubSeq(s, 1, m) = [n \in 1 .. m |-> s[n]]
  OBVIOUS
<1>2. \A n \in 1 .. m : t[n] = s[n]
  OBVIOUS
<1> QED
  BY <1>1, <1>2

LEMMA WholeSequence ==
  ASSUME NEW S, NEW s \in Seq(S)
  PROVE  SubSeq(s, 1, Len(s)) = s
OBVIOUS

LEMMA MessageFields ==
  ASSUME NEW m \in Messages
  PROVE  /\ m.type = "ServerKey" => m.key \in Keys /\ m.store \in BOOLEAN
         /\ m.type = "Ask" => m.key \in Keys
         /\ m.type = "Frame" => m.size \in Nat /\ m.generation \in Nat /\ m.whole \in BOOLEAN
         /\ m.type = "Resized" => m.size \in Nat
BY DEF Messages, ClosedMessage

LEMMA MessagesMade ==
  /\ ClosedMessage \in Messages /\ ClosedMessage.type = "Closed"
  /\ \A key \in Keys, store \in BOOLEAN :
       ServerKeyMessage(key, store) \in Messages /\ ServerKeyMessage(key, store).type = "ServerKey"
       /\ ServerKeyMessage(key, store).key = key /\ ServerKeyMessage(key, store).store = store
  /\ \A key \in Keys, expected \in Keys \cup {NoKey} :
       QuestionMessage(key, expected) \in Messages /\ QuestionMessage(key, expected).type = "Ask"
       /\ QuestionMessage(key, expected).key = key
  /\ \A d \in [size : Nat, slot : Nat, generation : Nat] :
       FrameMessage(d) \in Messages /\ FrameMessage(d).type = "Frame"
  /\ \A n \in Nat : ResizedMessage(n) \in Messages /\ ResizedMessage(n).type = "Resized"
BY DEF Messages, ClosedMessage, ServerKeyMessage, QuestionMessage, FrameMessage, ResizedMessage

------------------------------------------------------------------------------
(* What the operators of the model give                                    *)

LEMMA FirstIsAmong ==
  ASSUME NEW S \in SUBSET Attempts, S # {}
  PROVE  First(S) \in S /\ \A k \in S : First(S) <= k
<1>1. \E n \in S : \A k \in S : n <= k
  BY Least DEF Attempts
<1> QED
  BY <1>1 DEF First

LEMMA NewestArrived ==
  ASSUME TypeOK, NEW i \in Attempts, NEW type, Has(i, type)
  PROVE  \E n \in Arrived(i, type) : Newest(i, type) = messages[i][n]
<1>1. Len(messages[i]) \in Nat /\ Arrived(i, type) \in SUBSET (1 .. Len(messages[i]))
  BY SMTT(30) DEF TypeOK, Arrived
<1>2. \E n \in Arrived(i, type) : \A k \in Arrived(i, type) : k <= n
  BY <1>1, Greatest DEF Has
<1> QED
  BY <1>2 DEF Newest

LEMMA NewestIs ==
  ASSUME TypeOK, NEW i \in Attempts, NEW type, Has(i, type)
  PROVE  Newest(i, type) \in Messages /\ Newest(i, type).type = type
<1>1. PICK n \in Arrived(i, type) : Newest(i, type) = messages[i][n]
  BY NewestArrived
<1> QED
  BY <1>1 DEF TypeOK, Arrived

\* What known_server_key finds: the key of the first line of the address, if
\* there is one.
LEMMA KnownKeyIs ==
  ASSUME NEW B, NEW lines \in Seq(Lines(B)), NEW at
  PROVE  \/ /\ KnownKey(lines, at) = NoKey
            /\ \A n \in 1 .. Len(lines) : lines[n].revokes \/ lines[n].address # at
         \/ \E n \in 1 .. Len(lines) :
              /\ ~lines[n].revokes /\ lines[n].address = at
              /\ \A k \in 1 .. n - 1 : lines[k].revokes \/ lines[k].address # at
              /\ KnownKey(lines, at) = lines[n].key /\ lines[n].key \in Keys
<1> DEFINE found == {n \in 1 .. Len(lines) : ~lines[n].revokes /\ lines[n].address = at}
<1>1. CASE found = {}
  BY <1>1 DEF KnownKey
<1>2. CASE found # {}
  <2>1. found \in SUBSET Nat
    OBVIOUS
  <2>2. \E n \in found : \A k \in found : n <= k
    BY <1>2, <2>1, Least
  <2> DEFINE first == CHOOSE n \in found : \A k \in found : n <= k
  <2>3. first \in found /\ \A k \in found : first <= k
    BY <2>2
  <2>4. KnownKey(lines, at) = lines[first].key
    BY <1>2 DEF KnownKey
  <2> HIDE DEF first
  <2>5. \A k \in 1 .. first - 1 : k \in 1 .. Len(lines) /\ k \notin found
    BY <2>3
  <2>6. lines[first].key \in Keys
    <3>1. lines[first] \in Lines(B)
      BY <2>3
    <3> QED
      BY <3>1 DEF Lines
  <2> QED
    BY <2>3, <2>4, <2>5, <2>6
<1> QED
  BY <1>1, <1>2

LEMMA KnownKeyType ==
  ASSUME NEW B, NEW lines \in Seq(Lines(B)), NEW at
  PROVE  KnownKey(lines, at) \in Keys \cup {NoKey}
BY KnownKeyIs

Desktops == [size : Nat, slot : Nat, generation : Nat]

LEMMA DesktopsMade ==
  /\ FreshDesktop \in Desktops
  /\ \A d \in Desktops : Framed(d) \in Desktops /\ Fitted(d) \in Desktops
  /\ \A d \in Desktops, out \in Outputs : Applied(d, out) \in Desktops
BY SizesAssumption DEF Desktops, FreshDesktop, Desktop, Framed, Fitted, Applied, Outputs, NoSize

\* What acting on a PDU gives: another desktop or the end, and messages that
\* are not about keys.
LEMMA BatchIs ==
  ASSUME NEW d \in Desktops, NEW out \in Outputs
  PROVE  /\ Batch(d, out).over \in BOOLEAN
         /\ Batch(d, out).desktop \in Desktops
         /\ Batch(d, out).messages \in Seq(Messages)
         /\ \A n \in DOMAIN Batch(d, out).messages :
              Batch(d, out).messages[n].type \in {"Frame", "Resized", "Closed"}
<1> DEFINE framed == IF out.damage THEN Framed(d) ELSE d
           frame == IF out.damage THEN <<FrameMessage(framed)>> ELSE <<>>
           About(list) == /\ list \in Seq(Messages)
                          /\ \A n \in DOMAIN list : list[n].type \in {"Frame", "Resized", "Closed"}
<1>1. framed \in Desktops /\ d.size \in Nat
  BY DesktopsMade DEF Desktops
<1>2. About(frame)
  BY <1>1, MessagesMade DEF Desktops
<1>3. \A m \in Messages : m.type \in {"Frame", "Resized", "Closed"} => About(<<m>>) /\ About(Append(frame, m))
  BY <1>2, AppendElements
<1>4. ClosedMessage \in Messages /\ ClosedMessage.type = "Closed"
      /\ ResizedMessage(d.size) \in Messages /\ ResizedMessage(d.size).type = "Resized"
  BY <1>1, MessagesMade
<1>5. Fitted(framed) \in Desktops
  BY <1>1, DesktopsMade
<1> HIDE DEF framed, frame
<1>6. CASE out.over
  BY <1>3, <1>4, <1>6 DEF Batch
<1>7. CASE ~out.over /\ out.resize = NoSize
  BY <1>1, <1>2, <1>7 DEF Batch, framed, frame
<1>8. CASE ~out.over /\ out.resize # NoSize /\ CanFit(framed)
  BY <1>3, <1>4, <1>5, <1>8 DEF Batch, framed, frame
<1>9. CASE ~out.over /\ out.resize # NoSize /\ ~CanFit(framed)
  BY <1>1, <1>3, <1>4, <1>9 DEF Batch, framed, frame
<1> QED
  BY <1>6, <1>7, <1>8, <1>9 DEF Outputs

------------------------------------------------------------------------------
(* What a step leaves alone                                                *)

Same(k) ==
  /\ tab'[k] = tab[k] /\ address'[k] = address[k] /\ question'[k] = question[k]
  /\ texture'[k] = texture[k] /\ size'[k] = size[k]
  /\ helper'[k] = helper[k] /\ given'[k] = given[k] /\ presented'[k] = presented[k]
  /\ began'[k] = began[k]
  /\ pdu'[k] = pdu[k] /\ taken'[k] = taken[k] /\ acted'[k] = acted[k]
  /\ messages'[k] = messages[k] /\ answers'[k] = answers[k] /\ commands'[k] = commands[k]

LEMMA LineFields ==
  ASSUME TypeOK, NEW n \in 1 .. Len(file)
  PROVE  /\ file[n].by \in 0 .. MaxAttempts /\ file[n].key \in Keys
         /\ file[n].by # 0 => file[n].by \in Attempts
<1>1. file[n] \in Lines(0 .. MaxAttempts)
  BY DEF TypeOK
<1>2. MaxAttempts \in Nat
  BY BoundsAssumption
<1> QED
  BY <1>1, <1>2 DEF Lines, Attempts

LEMMA OthersStay ==
  ASSUME NEW k \in Attempts, TypeOK, IsSound(k), Same(k),
         file' = file, agreed \subseteq agreed', asked' \in Nat, asked <= asked'
  PROVE  IsSound(k)'
<1>1. IsOpened(k)' /\ ShowsWhole(k)' /\ ActsOnAll(k)'
  BY DEF IsSound, IsOpened, ShowsWhole, ActsOnAll, Same
<1>2. KeepsToItsStage(k)'
  <2>1. commands[k] \in Nat /\ asked \in Nat
    BY BoundsAssumption DEF TypeOK
  <2> QED
    BY <2>1 DEF IsSound, KeepsToItsStage, Settling, Same
<1>3. HoldsKnownKey(k)'
  BY DEF IsSound, HoldsKnownKey, Settling, Same
<1>4. \A key : AgreedTo(k, key) => AgreedTo(k, key)'
  BY DEF AgreedTo, Same
<1>5. \A type : Arrived(k, type)' = Arrived(k, type)
  BY DEF Arrived, Same
<1>6. AsksAboutItsKey(k)'
  BY <1>4, <1>5 DEF IsSound, AsksAboutItsKey, Same
<1>7. KeepsWhatWasAgreed(k)'
  BY <1>4, <1>5 DEF IsSound, KeepsWhatWasAgreed, Same
<1> QED
  BY <1>1, <1>2, <1>3, <1>6, <1>7 DEF IsSound

LEMMA LinesStay ==
  ASSUME IInv, file' = file, agreed \subseteq agreed',
         \A k \in Attempts : tab[k] # "none" => tab'[k] # "none" /\ address'[k] = address[k]
  PROVE  LinesWereAgreed'
<1> SUFFICES ASSUME NEW n \in 1 .. Len(file), file[n].by # 0
             PROVE  /\ tab'[file[n].by] # "none" /\ ~file[n].revokes
                    /\ file[n].address = SplitTitle(address'[file[n].by].host)
                    /\ AgreedTo(file[n].by, file[n].key)'
  BY DEF LinesWereAgreed, AgreedTo
<1> DEFINE b == file[n].by
<1>1. b \in Attempts
  BY LineFields DEF IInv
<1>2. /\ tab[b] # "none" /\ ~file[n].revokes /\ file[n].address = SplitTitle(address[b].host)
      /\ [address |-> address[b], key |-> file[n].key] \in agreed
  BY DEF IInv, LinesWereAgreed, AgreedTo
<1>3. tab'[b] # "none" /\ address'[b] = address[b]
  BY <1>1, <1>2
<1> HIDE DEF b
<1>4. [address |-> address'[b], key |-> file[n].key] \in agreed'
  BY <1>2, <1>3
<1> QED
  BY <1>2, <1>3, <1>4 DEF b, AgreedTo

\* A step of one attempt that writes no lines.
LEMMA OneAttempt ==
  ASSUME IInv, TypeOK', NEW i \in Attempts, IsSound(i)',
         file' = file, agreed \subseteq agreed', asked <= asked',
         \A k \in Attempts : tab[k] # "none" => tab'[k] # "none" /\ address'[k] = address[k],
         \A k \in Attempts : k # i => Same(k)
  PROVE  IInv'
<1>1. LinesWereAgreed'
  BY LinesStay
<1>2. asked' \in Nat
  BY BoundsAssumption DEF TypeOK
<1>3. ASSUME NEW k \in Attempts PROVE IsSound(k)'
  <2>1. CASE k = i
    BY <2>1
  <2>2. CASE k # i
    BY <1>2, <2>2, OthersStay DEF IInv
  <2> QED
    BY <2>1, <2>2
<1> QED
  BY <1>1, <1>3 DEF IInv

------------------------------------------------------------------------------
(* The world and the helper                                                *)

\* A step of no attempt.
LEMMA NoAttempt ==
  ASSUME IInv, TypeOK', UNCHANGED vars \/ \E at \in Addresses, key \in Keys : Rebuild(at, key)
  PROVE  IInv'
<1>1. /\ file' = file /\ agreed' = agreed /\ asked' = asked
      /\ \A k \in Attempts : Same(k) /\ tab'[k] = tab[k] /\ address'[k] = address[k]
  BY DEF Rebuild, Same, vars, hostVars, tabVars, pictureVars, keyVars, serveVars
<1>2. LinesWereAgreed'
  BY <1>1, LinesStay
<1>3. asked' \in Nat /\ asked <= asked'
  BY <1>1, BoundsAssumption DEF TypeOK
<1>4. ASSUME NEW k \in Attempts PROVE IsSound(k)'
  BY <1>1, <1>3, OthersStay DEF IInv
<1> QED
  BY <1>2, <1>4 DEF IInv

LEMMA AskedIsNat == IInv => asked \in Nat /\ asked <= asked
BY BoundsAssumption DEF IInv, TypeOK

LEMMA RebuildStep ==
  ASSUME IInv, NEW at \in Addresses, NEW key \in Keys, Rebuild(at, key)
  PROVE  IInv'
<1>1. TypeOK'
  BY DEF IInv, TypeOK, Rebuild, hostVars, tabVars, pictureVars, keyVars, serveVars, Messages
<1> QED
  BY <1>1, NoAttempt

LEMMA PresentStep ==
  ASSUME IInv, NEW i \in Attempts, Present(i)
  PROVE  IInv'
<1> DEFINE key == server[address[i]]
           question0 == QuestionMessage(key, given[i])
<1>1. /\ helper[i] = "dialling" /\ tab[i] # "none" /\ address[i] \in Addresses
      /\ messages[i] = <<>> /\ answers[i] = <<>> /\ question[i] = Nothing
      /\ given[i] \in Keys \cup {NoKey} /\ key \in Keys
  BY DEF IInv, TypeOK, IsSound, IsOpened, KeepsToItsStage, Present
<1>2. question0 \in Messages /\ question0.type = "Ask" /\ question0.key = key
  BY <1>1, MessagesMade
<1>3. /\ presented' = [presented EXCEPT ![i] = key]
      /\ \/ /\ given[i] # key /\ helper' = [helper EXCEPT ![i] = "asking"]
            /\ messages' = [messages EXCEPT ![i] = Append(messages[i], question0)]
         \/ /\ given[i] = key /\ helper' = [helper EXCEPT ![i] = "signing"] /\ messages' = messages
      /\ UNCHANGED <<server, file, tab, address, question, closed, asked, texture, size, uploaded,
                     agreed, given, began, desktop, pdu, taken, acted, answers, commands>>
  BY <1>1, KeysAssumption DEF Present, Asks, Verdict, worldVars, hostVars, tabVars, pictureVars, serveVars
<1> HIDE DEF key, question0
<1>4. messages' \in [Attempts -> Seq(Messages)]
  <2>1. Append(messages[i], question0) \in Seq(Messages)
    BY <1>2, AppendElements DEF IInv, TypeOK
  <2> QED
    BY <1>3, <2>1, ZenonT(40) DEF IInv, TypeOK
<1>5. TypeOK'
  BY <1>1, <1>3, <1>4 DEF IInv, TypeOK, Messages
<1>6. IsSound(i)'
  <2>1. helper'[i] \in {"asking", "signing"} /\ presented'[i] = key
        /\ (helper'[i] = "asking" => given[i] # key) /\ (helper'[i] = "signing" => given[i] = key)
    BY <1>3 DEF IInv, TypeOK
  <2>2. IsOpened(i)' /\ ShowsWhole(i)' /\ ActsOnAll(i)' /\ KeepsToItsStage(i)' /\ HoldsKnownKey(i)'
    BY <1>1, <1>3, <2>1 DEF IInv, IsSound, IsOpened, ShowsWhole, ActsOnAll, KeepsToItsStage,
                            HoldsKnownKey, Settling
  <2>3. \A n \in DOMAIN messages'[i] : messages'[i][n] = question0
    BY <1>1, <1>2, <1>3 DEF IInv, TypeOK
  <2>4. AsksAboutItsKey(i)'
    BY <1>1, <1>2, <1>3, <2>1, <2>3 DEF AsksAboutItsKey, Arrived
  <2>5. KeepsWhatWasAgreed(i)'
    BY <1>2, <1>3, <2>1, <2>3 DEF KeepsWhatWasAgreed, Arrived
  <2> QED
    BY <2>2, <2>4, <2>5 DEF IsSound
<1>7. \A k \in Attempts : k # i => Same(k)
  BY <1>3, ZenonT(40) DEF IInv, TypeOK, Same
<1> QED
  BY <1>3, <1>5, <1>6, <1>7, OneAttempt, AskedIsNat

LEMMA HearStep ==
  ASSUME IInv, NEW i \in Attempts, Hear(i)
  PROVE  IInv'
<1>1. /\ helper[i] = "asking" /\ answers[i] \in Seq(BOOLEAN) /\ answers[i] # <<>> /\ Head(answers[i])
      /\ answers' = [answers EXCEPT ![i] = Tail(answers[i])]
      /\ helper' = [helper EXCEPT ![i] = "signing"]
      /\ UNCHANGED <<server, file, tab, address, question, closed, asked, texture, size, uploaded,
                     agreed, given, presented, began, desktop, pdu, taken, acted, messages, commands>>
  BY DEF Hear, IInv, TypeOK, worldVars, hostVars, tabVars, pictureVars, keyVars, serveVars
<1>2. answers' \in [Attempts -> Seq(BOOLEAN)]
  BY <1>1, TailElements DEF IInv, TypeOK
<1>3. TypeOK'
  BY <1>1, <1>2 DEF IInv, TypeOK, Messages
<1>4. IsSound(i)'
  <2>1. helper'[i] = "signing"
    BY <1>1 DEF IInv, TypeOK
  <2>2. IsOpened(i)' /\ ShowsWhole(i)' /\ ActsOnAll(i)' /\ KeepsToItsStage(i)' /\ HoldsKnownKey(i)'
    BY <1>1, <2>1 DEF IInv, IsSound, IsOpened, ShowsWhole, ActsOnAll, KeepsToItsStage,
                      HoldsKnownKey, Settling
  <2>3. AsksAboutItsKey(i)'
    BY <2>1 DEF AsksAboutItsKey
  <2>4. AgreedTo(i, presented[i])
    <3>1. 1 \in DOMAIN answers[i] /\ Head(answers[i]) = answers[i][1]
      BY <1>1, HeadElement
    <3>2. answers[i][1] => AgreedTo(i, presented[i])
      BY <1>1, <3>1 DEF IInv, IsSound, AsksAboutItsKey
    <3> QED
      BY <1>1, <3>1, <3>2
  <2>5. KeepsWhatWasAgreed(i)'
    BY <1>1, <2>4 DEF IInv, IsSound, KeepsWhatWasAgreed, AgreedTo, Arrived
  <2> QED
    BY <2>2, <2>3, <2>5 DEF IsSound
<1>5. \A k \in Attempts : k # i => Same(k)
  BY <1>1 DEF IInv, TypeOK, Same
<1> QED
  BY <1>1, <1>3, <1>4, <1>5, OneAttempt, AskedIsNat

\* No message about a key is added.
NoNewKeys(i) ==
  \A n \in DOMAIN messages'[i] : messages'[i][n].type = "ServerKey" =>
    \E k \in DOMAIN messages[i] : messages'[i][n] = messages[i][k]

LEMMA KeptStaysAgreed ==
  ASSUME NEW i \in Attempts, KeepsWhatWasAgreed(i), NoNewKeys(i),
         address'[i] = address[i], agreed' = agreed
  PROVE  (\A n \in Arrived(i, "ServerKey") :
            messages[i][n].store => AgreedTo(i, messages[i][n].key))'
<1> SUFFICES ASSUME NEW n \in DOMAIN messages'[i], messages'[i][n].type = "ServerKey"
             PROVE  messages'[i][n].store => AgreedTo(i, messages[i][n].key)'
  BY DEF Arrived
<1>1. PICK k \in DOMAIN messages[i] : messages'[i][n] = messages[i][k]
  BY DEF NoNewKeys
<1>2. messages[i][k].store => AgreedTo(i, messages[i][k].key)
  BY <1>1 DEF KeepsWhatWasAgreed, Arrived
<1> QED
  BY <1>1, <1>2 DEF AgreedTo

LEMMA EndedIsSound ==
  ASSUME IInv, NEW i \in Attempts, tab[i] # "none", tab'[i] # "none", NoNewKeys(i),
         helper'[i] = "ended", commands'[i] = 0, pdu'[i] = Nothing, taken'[i] = 0, acted'[i] = 0,
         address'[i] = address[i], agreed' = agreed, asked' = asked,
         question'[i] \in {question[i], Nothing},
         texture'[i] = Nothing \/ (texture'[i] = texture[i] /\ size'[i] = size[i])
  PROVE  IsSound(i)'
<1>1. asked \in Nat
  BY AskedIsNat
<1>2. IsOpened(i)' /\ KeepsToItsStage(i)' /\ HoldsKnownKey(i)' /\ AsksAboutItsKey(i)'
      /\ ShowsWhole(i)' /\ ActsOnAll(i)'
  BY <1>1 DEF IInv, IsSound, IsOpened, KeepsToItsStage, HoldsKnownKey, AsksAboutItsKey, ShowsWhole,
              ActsOnAll, Settling
<1>3. KeepsWhatWasAgreed(i)'
  BY KeptStaysAgreed DEF IInv, IsSound, KeepsWhatWasAgreed
<1> QED
  BY <1>2, <1>3 DEF IsSound

LEMMA GoneType ==
  ASSUME TypeOK, NEW i \in Attempts, Gone(i)
  PROVE  /\ helper' \in [Attempts -> {"unborn", "dialling", "asking", "signing", "serving", "ended"}]
         /\ given' \in [Attempts -> Keys \cup {NoKey}] /\ presented' \in [Attempts -> Keys \cup {NoKey}]
         /\ desktop' \in [Attempts -> Desktops] /\ pdu' \in [Attempts -> Outputs \cup {Nothing}]
         /\ taken' \in [Attempts -> Nat] /\ acted' \in [Attempts -> Nat]
         /\ answers' \in [Attempts -> Seq(BOOLEAN)] /\ commands' \in [Attempts -> 0 .. MaxCommands]
         /\ began' \in [Attempts -> Nat]
<1>1. FreshDesktop \in Desktops /\ 0 \in 0 .. MaxCommands /\ <<>> \in Seq(BOOLEAN)
  BY DesktopsMade, BoundsAssumption
<1> QED
  BY <1>1 DEF TypeOK, Gone, Forgets, Desktops

LEMMA GoneChanges ==
  ASSUME TypeOK, NEW i \in Attempts, Gone(i)
  PROVE  /\ helper'[i] = "ended" /\ commands'[i] = 0
         /\ pdu'[i] = Nothing /\ taken'[i] = 0 /\ acted'[i] = 0
         /\ \A k \in Attempts : k # i =>
              /\ helper'[k] = helper[k] /\ given'[k] = given[k] /\ presented'[k] = presented[k]
              /\ began'[k] = began[k] /\ pdu'[k] = pdu[k] /\ taken'[k] = taken[k]
              /\ acted'[k] = acted[k] /\ answers'[k] = answers[k] /\ commands'[k] = commands[k]
BY DEF TypeOK, Gone, Forgets

\* The end of a helper, however it comes.
LEMMA EndsStep ==
  ASSUME IInv, NEW i \in Attempts, helper[i] # "unborn", Ends(i), UNCHANGED <<worldVars, hostVars>>
  PROVE  IInv'
<1>1. /\ UNCHANGED <<server, file, tab, address, question, closed, asked, texture, size, uploaded, agreed>>
      /\ Gone(i) /\ messages' = [messages EXCEPT ![i] = Append(messages[i], ClosedMessage)]
  BY DEF Ends, worldVars, hostVars, tabVars, pictureVars
<1>2. messages[i] \in Seq(Messages) /\ ClosedMessage \in Messages /\ ClosedMessage.type = "Closed"
  BY MessagesMade DEF IInv, TypeOK
<1>3. Append(messages[i], ClosedMessage) \in Seq(Messages)
  BY <1>2, AppendElements
<1>4. messages' \in [Attempts -> Seq(Messages)] /\ messages'[i] = Append(messages[i], ClosedMessage)
      /\ \A k \in Attempts : k # i => messages'[k] = messages[k]
  BY <1>1, <1>3 DEF IInv, TypeOK
<1>5. TypeOK'
  BY <1>1, <1>4, GoneType DEF IInv, TypeOK, Messages, Desktops
<1>6. NoNewKeys(i)
  BY <1>2, <1>4, AppendElements DEF NoNewKeys
<1>7. tab[i] # "none"
  BY DEF IInv, IsSound, IsOpened
<1>8. IsSound(i)'
  BY <1>1, <1>6, <1>7, GoneChanges, EndedIsSound DEF IInv
<1>9. \A k \in Attempts : k # i => Same(k)
  BY <1>1, <1>4, GoneChanges DEF IInv, Same
<1> QED
  BY <1>1, <1>5, <1>8, <1>9, OneAttempt, AskedIsNat

LEMMA EndingStep ==
  ASSUME IInv, NEW i \in Attempts, Refuse(i) \/ Fail(i) \/ Breaks(i)
  PROVE  IInv'
BY EndsStep DEF Refuse, Fail, Breaks

LEMMA SignInStep ==
  ASSUME IInv, NEW i \in Attempts, SignIn(i)
  PROVE  IInv'
<1> DEFINE m == ServerKeyMessage(presented[i], ShouldStore(Verdict(given[i], presented[i])))
<1>1. /\ helper[i] = "signing" /\ tab[i] # "none" /\ presented[i] \in Keys
      /\ pdu[i] = Nothing /\ taken[i] = 0 /\ acted[i] = 0 /\ messages[i] \in Seq(Messages)
  BY DEF SignIn, IInv, TypeOK, IsSound, IsOpened, KeepsToItsStage, Settling
<1>2. ShouldStore(Verdict(given[i], presented[i])) \in BOOLEAN
      /\ (ShouldStore(Verdict(given[i], presented[i])) => given[i] # presented[i])
  BY <1>1, KeysAssumption DEF ShouldStore, Asks, Verdict
<1>3. m \in Messages /\ m.type = "ServerKey" /\ m.key = presented[i]
      /\ (m.store => AgreedTo(i, presented[i]))
  <2>1. m \in Messages /\ m.type = "ServerKey" /\ m.key = presented[i]
        /\ m.store = ShouldStore(Verdict(given[i], presented[i]))
    BY <1>1, <1>2, MessagesMade
  <2>2. ShouldStore(Verdict(given[i], presented[i])) => AgreedTo(i, presented[i])
    BY <1>1, <1>2 DEF IInv, IsSound, KeepsWhatWasAgreed
  <2> QED
    BY <2>1, <2>2
<1>4. /\ UNCHANGED <<server, file, tab, address, question, closed, asked, texture, size, uploaded,
                     agreed, desktop, pdu, taken, acted, answers, commands>>
      /\ helper' = [helper EXCEPT ![i] = "serving"]
      /\ messages' = [messages EXCEPT ![i] = Append(messages[i], m)] /\ Forgets(i)
  BY DEF SignIn, worldVars, hostVars, tabVars, pictureVars, serveVars
<1> HIDE DEF m
<1>5. /\ Append(messages[i], m) \in Seq(Messages)
      /\ \A n \in DOMAIN Append(messages[i], m) :
           (n \in DOMAIN messages[i] /\ Append(messages[i], m)[n] = messages[i][n])
           \/ Append(messages[i], m)[n] = m
  BY <1>1, <1>3, AppendElements
<1>6. messages' \in [Attempts -> Seq(Messages)] /\ messages'[i] = Append(messages[i], m)
      /\ \A k \in Attempts : k # i => messages'[k] = messages[k]
  BY <1>4, <1>5 DEF IInv, TypeOK
<1>7. TypeOK'
  BY <1>4, <1>6 DEF IInv, TypeOK, Messages, Forgets
<1>8. IsSound(i)'
  <2>1. helper'[i] = "serving"
    BY <1>4 DEF IInv, TypeOK
  <2>2. IsOpened(i)' /\ KeepsToItsStage(i)' /\ HoldsKnownKey(i)' /\ AsksAboutItsKey(i)'
        /\ ShowsWhole(i)' /\ ActsOnAll(i)'
    BY <1>1, <1>4, <2>1 DEF IInv, IsSound, IsOpened, KeepsToItsStage, HoldsKnownKey, AsksAboutItsKey,
                            ShowsWhole, ActsOnAll, Settling
  <2>3. KeepsWhatWasAgreed(i)'
    <3> SUFFICES ASSUME NEW n \in DOMAIN messages'[i], messages'[i][n].type = "ServerKey",
                        messages'[i][n].store
                 PROVE  AgreedTo(i, messages[i][n].key)'
      BY <2>1 DEF KeepsWhatWasAgreed, Arrived
    <3>1. CASE n \in DOMAIN messages[i] /\ messages'[i][n] = messages[i][n]
      <4>1. AgreedTo(i, messages[i][n].key)
        BY <3>1 DEF IInv, IsSound, KeepsWhatWasAgreed, Arrived
      <4> QED
        BY <1>4, <3>1, <4>1 DEF AgreedTo
    <3>2. CASE messages'[i][n] = m
      BY <1>3, <1>4, <3>2 DEF AgreedTo
    <3> QED
      BY <1>5, <1>6, <3>1, <3>2
  <2> QED
    BY <2>2, <2>3 DEF IsSound
<1>9. \A k \in Attempts : k # i => Same(k)
  BY <1>4, <1>6 DEF IInv, TypeOK, Same, Forgets
<1> QED
  BY <1>4, <1>7, <1>8, <1>9, OneAttempt, AskedIsNat

LEMMA OutputIsSomething == \A out \in Outputs : out # Nothing
BY DEF Outputs, Nothing

LEMMA ReadPduStep ==
  ASSUME IInv, NEW i \in Attempts, NEW out \in Pdus, ReadPdu(i, out)
  PROVE  IInv'
<1>1. out \in Outputs /\ out # Nothing
  BY PdusAssumption, OutputIsSomething
<1>2. /\ helper[i] = "serving" /\ pdu[i] = Nothing
      /\ pdu' = [pdu EXCEPT ![i] = out] /\ taken' = [taken EXCEPT ![i] = taken[i] + 1]
      /\ UNCHANGED <<server, file, tab, address, question, closed, asked, texture, size, uploaded,
                     agreed, helper, given, presented, began, desktop, acted, messages, answers, commands>>
  BY DEF ReadPdu, hostVars, tabVars, pictureVars, keyVars
<1>3. TypeOK'
  <2>1. pdu' \in [Attempts -> Outputs \cup {Nothing}] /\ taken' \in [Attempts -> Nat]
    BY <1>1, <1>2, SMTT(30) DEF IInv, TypeOK
  <2> QED
    BY <1>2, <2>1 DEF IInv, TypeOK, Messages
<1>4. IsSound(i)'
  <2>1. pdu'[i] # Nothing /\ taken'[i] = taken[i] + 1 /\ acted[i] \in Nat
    BY <1>1, <1>2 DEF IInv, TypeOK
  <2>2. IsOpened(i)' /\ KeepsToItsStage(i)' /\ HoldsKnownKey(i)' /\ AsksAboutItsKey(i)' /\ ShowsWhole(i)'
    BY <1>2, <2>1 DEF IInv, IsSound, IsOpened, KeepsToItsStage, HoldsKnownKey, AsksAboutItsKey,
                      ShowsWhole, Settling
  <2>3. ActsOnAll(i)'
    BY <1>2, <2>1 DEF IInv, IsSound, ActsOnAll
  <2>4. KeepsWhatWasAgreed(i)'
    BY <1>2 DEF IInv, IsSound, KeepsWhatWasAgreed, Arrived, AgreedTo
  <2> QED
    BY <2>2, <2>3, <2>4 DEF IsSound
<1>5. \A k \in Attempts : k # i => Same(k)
  BY <1>2 DEF IInv, TypeOK, Same
<1> QED
  BY <1>2, <1>3, <1>4, <1>5, OneAttempt, AskedIsNat

\* What a serving helper says is not about keys.
LEMMA ServingSays ==
  ASSUME IInv, NEW i \in Attempts, NEW said \in Seq(Messages),
         \A n \in DOMAIN said : said[n].type # "ServerKey",
         messages' = [messages EXCEPT ![i] = messages[i] \o said]
  PROVE  /\ messages' \in [Attempts -> Seq(Messages)] /\ NoNewKeys(i)
         /\ \A k \in Attempts : k # i => messages'[k] = messages[k]
<1>1. messages[i] \in Seq(Messages)
  BY DEF IInv, TypeOK
<1>2. messages[i] \o said \in Seq(Messages)
  BY <1>1, ConcatElements
<1>3. messages' \in [Attempts -> Seq(Messages)] /\ messages'[i] = messages[i] \o said
      /\ \A k \in Attempts : k # i => messages'[k] = messages[k]
  BY <1>2 DEF IInv, TypeOK
<1>4. \A n \in 1 .. Len(messages[i] \o said) :
        (n \in DOMAIN messages[i] /\ (messages[i] \o said)[n] = messages[i][n])
        \/ (n - Len(messages[i]) \in DOMAIN said /\ (messages[i] \o said)[n] = said[n - Len(messages[i])])
  BY <1>1, ConcatElements
<1>5. NoNewKeys(i)
  BY <1>2, <1>3, <1>4 DEF NoNewKeys
<1> QED
  BY <1>3, <1>5

\* A helper that goes on serving.
LEMMA ServingIsSound ==
  ASSUME IInv, NEW i \in Attempts, helper[i] = "serving", NoNewKeys(i), ActsOnAll(i)',
         UNCHANGED <<file, tab, address, question, asked, texture, size, agreed, helper, given,
                     presented, began, answers>>,
         commands'[i] \in Nat, commands'[i] <= asked
  PROVE  IsSound(i)'
<1>1. IsOpened(i)' /\ KeepsToItsStage(i)' /\ HoldsKnownKey(i)' /\ AsksAboutItsKey(i)' /\ ShowsWhole(i)'
  BY DEF IInv, IsSound, IsOpened, KeepsToItsStage, HoldsKnownKey, AsksAboutItsKey, ShowsWhole, Settling
<1>2. KeepsWhatWasAgreed(i)'
  BY KeptStaysAgreed DEF IInv, IsSound, KeepsWhatWasAgreed
<1> QED
  BY <1>1, <1>2 DEF IsSound

LEMMA ActStep ==
  ASSUME IInv, NEW i \in Attempts, Act(i)
  PROVE  IInv'
<1> DEFINE result == Batch(Applied(desktop[i], pdu[i]), pdu[i])
<1>1. /\ helper[i] = "serving" /\ pdu[i] # Nothing
      /\ messages' = [messages EXCEPT ![i] = messages[i] \o result.messages]
      /\ \/ Gone(i)
         \/ /\ desktop' = [desktop EXCEPT ![i] = result.desktop]
            /\ pdu' = [pdu EXCEPT ![i] = Nothing] /\ acted' = [acted EXCEPT ![i] = acted[i] + 1]
            /\ UNCHANGED <<helper, given, presented, began, taken, answers, commands>>
      /\ UNCHANGED <<server, file, tab, address, question, closed, asked, texture, size, uploaded, agreed>>
  BY DEF Act, worldVars, hostVars, tabVars, pictureVars, keyVars
<1>2. desktop[i] \in Desktops /\ pdu[i] \in Outputs
  BY <1>1 DEF IInv, TypeOK, Desktops
<1>3. Applied(desktop[i], pdu[i]) \in Desktops
  BY <1>2, DesktopsMade
<1>4. result.desktop \in Desktops /\ result.messages \in Seq(Messages)
      /\ \A n \in DOMAIN result.messages : result.messages[n].type # "ServerKey"
  BY <1>2, <1>3, BatchIs
<1> HIDE DEF result
<1>5. messages' \in [Attempts -> Seq(Messages)] /\ NoNewKeys(i)
      /\ \A k \in Attempts : k # i => messages'[k] = messages[k]
  BY <1>1, <1>4, ServingSays
<1>6. tab[i] # "none"
  BY <1>1 DEF IInv, IsSound, IsOpened
<1>7. CASE Gone(i)
  <2>1. TypeOK'
    BY <1>1, <1>5, <1>7, GoneType DEF IInv, TypeOK, Messages, Desktops
  <2>2. IsSound(i)'
    BY <1>1, <1>5, <1>6, <1>7, GoneChanges, EndedIsSound DEF IInv
  <2>3. \A k \in Attempts : k # i => Same(k)
    BY <1>1, <1>5, <1>7, GoneChanges DEF IInv, Same
  <2> QED
    BY <1>1, <2>1, <2>2, <2>3, OneAttempt, AskedIsNat
<1>8. CASE /\ desktop' = [desktop EXCEPT ![i] = result.desktop]
           /\ pdu' = [pdu EXCEPT ![i] = Nothing] /\ acted' = [acted EXCEPT ![i] = acted[i] + 1]
           /\ UNCHANGED <<helper, given, presented, began, taken, answers, commands>>
  <2>0. desktop' \in [Attempts -> Desktops] /\ pdu' \in [Attempts -> Outputs \cup {Nothing}]
        /\ acted' \in [Attempts -> Nat]
    <3>1. desktop \in [Attempts -> Desktops]
      BY DEF IInv, TypeOK, Desktops
    <3>2. desktop' \in [Attempts -> Desktops]
      BY <1>4, <1>8, <3>1
    <3>3. pdu' \in [Attempts -> Outputs \cup {Nothing}] /\ acted' \in [Attempts -> Nat]
      BY <1>8, SMTT(30) DEF IInv, TypeOK
    <3> QED
      BY <3>2, <3>3
  <2>1. TypeOK'
    BY <1>1, <1>5, <1>8, <2>0 DEF IInv, TypeOK, Messages, Desktops
  <2>2. ActsOnAll(i)'
    BY <1>1, <1>8 DEF IInv, TypeOK, IsSound, ActsOnAll
  <2>3. commands[i] \in Nat /\ commands[i] <= asked
    BY BoundsAssumption DEF IInv, TypeOK, IsSound, KeepsToItsStage
  <2>4. IsSound(i)'
    BY <1>1, <1>5, <1>8, <2>2, <2>3, ServingIsSound
  <2>5. \A k \in Attempts : k # i => Same(k)
    BY <1>1, <1>5, <1>8 DEF IInv, TypeOK, Same
  <2> QED
    BY <1>1, <2>1, <2>4, <2>5, OneAttempt, AskedIsNat
<1> QED
  BY <1>1, <1>7, <1>8

LEMMA ObeyStep ==
  ASSUME IInv, NEW i \in Attempts, Obey(i)
  PROVE  IInv'
<1> DEFINE said == <<FrameMessage(Framed(desktop[i]))>>
<1>1. desktop[i] \in Desktops /\ messages[i] \in Seq(Messages) /\ commands[i] \in Nat /\ commands[i] <= asked
      /\ commands \in [Attempts -> 0 .. MaxCommands] /\ MaxCommands \in Nat
  BY BoundsAssumption DEF IInv, TypeOK, Desktops, IsSound, KeepsToItsStage
<1>2. Framed(desktop[i]) \in Desktops /\ FrameMessage(Framed(desktop[i])) \in Messages
      /\ FrameMessage(Framed(desktop[i])).type = "Frame"
  BY <1>1, DesktopsMade, MessagesMade DEF Desktops
<1>3. /\ helper[i] = "serving" /\ pdu[i] = Nothing /\ commands[i] > 0
      /\ commands' = [commands EXCEPT ![i] = commands[i] - 1]
      /\ \/ /\ desktop' = [desktop EXCEPT ![i] = Framed(desktop[i])]
            /\ messages' = [messages EXCEPT ![i] = Append(messages[i], FrameMessage(Framed(desktop[i])))]
         \/ UNCHANGED <<desktop, messages>>
      /\ UNCHANGED <<server, file, tab, address, question, closed, asked, texture, size, uploaded,
                     agreed, helper, given, presented, began, pdu, taken, acted, answers>>
  BY DEF Obey, worldVars, hostVars, tabVars, pictureVars, keyVars
<1>4. messages' \in [Attempts -> Seq(Messages)] /\ NoNewKeys(i)
      /\ \A k \in Attempts : k # i => messages'[k] = messages[k]
  <2>1. CASE messages' = [messages EXCEPT ![i] = Append(messages[i], FrameMessage(Framed(desktop[i])))]
    <3>1. /\ Append(messages[i], FrameMessage(Framed(desktop[i]))) \in Seq(Messages)
          /\ messages'[i] = Append(messages[i], FrameMessage(Framed(desktop[i])))
      BY <1>1, <1>2, <2>1, AppendElements DEF IInv, TypeOK
    <3>2. NoNewKeys(i)
      BY <1>1, <1>2, <3>1, AppendElements DEF NoNewKeys
    <3> QED
      BY <2>1, <3>1, <3>2 DEF IInv, TypeOK
  <2>2. CASE messages' = messages
    BY <2>2 DEF IInv, TypeOK, NoNewKeys
  <2> QED
    BY <1>3, <2>1, <2>2
<1>5. desktop' \in [Attempts -> Desktops]
  BY <1>2, <1>3, ZenonT(40) DEF IInv, TypeOK, Desktops
<1>6. commands' \in [Attempts -> 0 .. MaxCommands] /\ commands'[i] \in Nat /\ commands'[i] <= asked
      /\ \A k \in Attempts : k # i => commands'[k] = commands[k]
  BY <1>1, <1>3, AskedIsNat
<1>7. TypeOK'
  BY <1>3, <1>4, <1>5, <1>6 DEF IInv, TypeOK, Messages, Desktops
<1>8. ActsOnAll(i)'
  BY <1>3 DEF IInv, IsSound, ActsOnAll
<1>9. IsSound(i)'
  BY <1>3, <1>4, <1>6, <1>8, ServingIsSound
<1>10. \A k \in Attempts : k # i => Same(k)
  BY <1>3, <1>4, <1>6 DEF Same
<1> QED
  BY <1>3, <1>7, <1>9, <1>10, OneAttempt, AskedIsNat

------------------------------------------------------------------------------
(* The host                                                                *)

LEMMA OpenStep ==
  ASSUME IInv, NEW i \in Attempts, NEW at \in Addresses, Open(i, at)
  PROVE  IInv'
<1>1. /\ tab[i] = "none"
      /\ tab' = [tab EXCEPT ![i] = "open"] /\ address' = [address EXCEPT ![i] = at]
      /\ given' = [given EXCEPT ![i] = KnownKey(file, at)] /\ began' = [began EXCEPT ![i] = Len(file)]
      /\ helper' = [helper EXCEPT ![i] = "dialling"]
      /\ UNCHANGED <<server, file, question, closed, asked, texture, size, uploaded, agreed,
                     presented, desktop, pdu, taken, acted, messages, answers, commands>>
  BY DEF Open, worldVars, pictureVars, serveVars
<1>2. file \in Seq(Lines(0 .. MaxAttempts)) /\ Len(file) \in Nat
  BY DEF IInv, TypeOK
<1>3. KnownKey(file, at) \in Keys \cup {NoKey}
  BY <1>2, KnownKeyType
<1>4. TypeOK'
  <2>1. given' \in [Attempts -> Keys \cup {NoKey}] /\ began' \in [Attempts -> Nat]
    BY <1>1, <1>2, <1>3 DEF IInv, TypeOK
  <2> QED
    BY <1>1, <2>1 DEF IInv, TypeOK, Messages
<1>5. helper[i] = "unborn" /\ messages[i] = <<>> /\ answers[i] = <<>> /\ question[i] = Nothing
  BY <1>1 DEF IInv, IsSound, IsOpened, KeepsToItsStage
<1>6. IsSound(i)'
  <2>1. helper'[i] = "dialling" /\ tab'[i] = "open" /\ address'[i] = at
        /\ given'[i] = KnownKey(file, at) /\ began'[i] = Len(file)
    BY <1>1 DEF IInv, TypeOK
  <2>2. SubSeq(file, 1, Len(file)) = file
    BY <1>2, WholeSequence
  <2>3. HoldsKnownKey(i)'
    <3>1. SubSeq(file', 1, began'[i]) = file /\ began'[i] <= Len(file')
      BY <1>1, <1>2, <2>1, <2>2
    <3>2. given'[i] = KnownKey(SubSeq(file', 1, began'[i]), address'[i])
      BY <2>1, <3>1
    <3> QED
      BY <3>1, <3>2 DEF HoldsKnownKey
  <2>4. KeepsWhatWasAgreed(i)'
    BY <1>1, <1>5, <2>1 DEF KeepsWhatWasAgreed, Arrived
  <2>5. IsOpened(i)' /\ KeepsToItsStage(i)' /\ AsksAboutItsKey(i)' /\ ShowsWhole(i)' /\ ActsOnAll(i)'
    BY <1>1, <1>5, <2>1 DEF IInv, IsSound, IsOpened, KeepsToItsStage, AsksAboutItsKey, ShowsWhole,
                            ActsOnAll, Settling
  <2> QED
    BY <2>3, <2>4, <2>5 DEF IsSound
<1>7. \A k \in Attempts : k # i => Same(k)
  BY <1>1 DEF IInv, TypeOK, Same
<1>8. \A k \in Attempts : tab[k] # "none" => tab'[k] # "none" /\ address'[k] = address[k]
  BY <1>1, <1>7 DEF Same
<1> QED
  BY <1>1, <1>4, <1>6, <1>7, <1>8, OneAttempt, AskedIsNat

LEMMA CommandStep ==
  ASSUME IInv, NEW i \in Attempts, Command(i)
  PROVE  IInv'
<1>1. /\ asked < MaxCommands /\ asked' = asked + 1
      /\ commands' = commands \/ commands' = [commands EXCEPT ![i] = commands[i] + 1]
      /\ UNCHANGED <<server, file, tab, address, question, closed, texture, size, uploaded,
                     agreed, helper, given, presented, began, desktop, pdu, taken, acted, messages,
                     answers>>
  BY DEF Command, worldVars, pictureVars, keyVars, serveVars
<1>2. /\ MaxCommands \in Nat /\ asked \in Nat /\ commands \in [Attempts -> 0 .. MaxCommands]
      /\ commands[i] <= asked /\ commands[i] \in Nat
  BY BoundsAssumption DEF IInv, TypeOK, IsSound, KeepsToItsStage
<1>3. /\ commands' \in [Attempts -> 0 .. MaxCommands] /\ asked' \in 0 .. MaxCommands
      /\ commands'[i] <= asked' /\ \A k \in Attempts : k # i => commands'[k] = commands[k]
  BY <1>1, <1>2
<1>4. TypeOK'
  BY <1>1, <1>3 DEF IInv, TypeOK, Messages
<1>5. IsSound(i)'
  <2>1. IsOpened(i)' /\ KeepsToItsStage(i)' /\ HoldsKnownKey(i)' /\ ShowsWhole(i)' /\ ActsOnAll(i)'
    BY <1>1, <1>3 DEF IInv, IsSound, IsOpened, KeepsToItsStage, HoldsKnownKey, ShowsWhole, ActsOnAll,
                      Settling
  <2>2. AsksAboutItsKey(i)' /\ KeepsWhatWasAgreed(i)'
    BY <1>1 DEF IInv, IsSound, AsksAboutItsKey, KeepsWhatWasAgreed, Arrived, AgreedTo
  <2> QED
    BY <2>1, <2>2 DEF IsSound
<1>6. \A k \in Attempts : k # i => Same(k)
  BY <1>1, <1>3 DEF Same
<1>7. asked <= asked'
  BY <1>1, <1>2
<1> QED
  BY <1>1, <1>4, <1>5, <1>6, <1>7, OneAttempt

LEMMA CloseTabStep ==
  ASSUME IInv, NEW i \in Attempts, CloseTab(i)
  PROVE  IInv'
<1>1. /\ tab[i] = "open" /\ tab' = [tab EXCEPT ![i] = "gone"] /\ Gone(i)
      /\ messages' = [messages EXCEPT ![i] = <<>>] /\ question' = [question EXCEPT ![i] = Nothing]
      /\ texture' = [texture EXCEPT ![i] = Nothing] /\ size' = [size EXCEPT ![i] = 0]
      /\ uploaded' = [uploaded EXCEPT ![i] = 0]
      /\ UNCHANGED <<server, file, address, asked, agreed>>
  BY DEF CloseTab, worldVars, NoSize
<1>2. <<>> \in Seq(Messages)
  OBVIOUS
<1>3. /\ tab' \in [Attempts -> {"none", "open", "gone"}] /\ messages' \in [Attempts -> Seq(Messages)]
      /\ question' \in [Attempts -> Messages \cup {Nothing}]
      /\ texture' \in [Attempts -> Messages \cup {Nothing}]
      /\ size' \in [Attempts -> Nat] /\ uploaded' \in [Attempts -> Nat]
  BY <1>1, <1>2 DEF IInv, TypeOK
<1>4. TypeOK'
  BY <1>1, <1>3, GoneType DEF IInv, TypeOK, Messages, Desktops
<1>5. tab'[i] = "gone" /\ messages'[i] = <<>> /\ question'[i] = Nothing /\ texture'[i] = Nothing
  BY <1>1 DEF IInv, TypeOK
<1>6. NoNewKeys(i)
  BY <1>5 DEF NoNewKeys
<1>7. IsSound(i)'
  BY <1>1, <1>5, <1>6, GoneChanges, EndedIsSound DEF IInv
<1>8. \A k \in Attempts : k # i => Same(k)
  <2>1. \A k \in Attempts : k # i =>
          /\ tab'[k] = tab[k] /\ messages'[k] = messages[k] /\ question'[k] = question[k]
          /\ texture'[k] = texture[k] /\ size'[k] = size[k]
    BY <1>1 DEF IInv, TypeOK
  <2> QED
    BY <1>1, <2>1, GoneChanges DEF IInv, Same
<1>9. \A k \in Attempts : tab[k] # "none" => tab'[k] # "none" /\ address'[k] = address[k]
  BY <1>1, <1>5, <1>8 DEF Same
<1> QED
  BY <1>1, <1>4, <1>7, <1>8, <1>9, OneAttempt, AskedIsNat

LEMMA RecordersAre ==
  ASSUME IInv, NEW i \in Attempts, Records(i)
  PROVE  /\ tab[i] # "none" /\ address[i].host \in Hosts
         /\ Newest(i, "ServerKey").key \in Keys /\ AgreedTo(i, Newest(i, "ServerKey").key)
<1>1. PICK n \in Arrived(i, "ServerKey") : Newest(i, "ServerKey") = messages[i][n]
  BY NewestArrived DEF IInv, Records
<1>2. messages[i] # <<>>
  BY <1>1 DEF Arrived
<1>3. tab[i] # "none" /\ address[i] \in Addresses
  BY <1>2 DEF IInv, IsSound, IsOpened, KeepsToItsStage
<1>4. Newest(i, "ServerKey").key \in Keys
  BY NewestIs, MessageFields DEF IInv, Records
<1>5. AgreedTo(i, Newest(i, "ServerKey").key)
  BY <1>1 DEF IInv, IsSound, KeepsWhatWasAgreed, Records
<1> QED
  BY <1>3, <1>4, <1>5 DEF Addresses

\* The lines that a painted frame adds.
LEMMA WrittenLines ==
  ASSUME IInv, NEW order \in InTurn
  PROVE  \E written \in Seq(Lines(0 .. MaxAttempts)) :
           /\ Recorded(order) = file \o written
           /\ \A n \in 1 .. Len(written) :
                /\ written[n].by \in Attempts /\ tab[written[n].by] # "none" /\ ~written[n].revokes
                /\ written[n].address = SplitTitle(address[written[n].by].host)
                /\ AgreedTo(written[n].by, written[n].key)
<1> DEFINE line(i) == RecordedLine(i, address[i].host, Newest(i, "ServerKey").key)
           lines == [n \in DOMAIN order |-> line(order[n])]
<1>1. MaxAttempts \in Nat
  BY BoundsAssumption
<1>2. Cardinality(Recorders) \in Nat
  <2>1. Recorders \subseteq 1 .. MaxAttempts
    BY DEF Recorders, Attempts
  <2> QED
    <3>1. IsFiniteSet(1 .. MaxAttempts)
      BY <1>1, FS_Interval
    <3>2. IsFiniteSet(Recorders)
      BY <2>1, <3>1, FS_Subset
    <3> QED
      BY <3>2, FS_CardinalityType
<1>3. DOMAIN order = 1 .. Cardinality(Recorders) /\ \A n \in DOMAIN order : order[n] \in Recorders
  BY DEF InTurn
<1>4. ASSUME NEW i \in Recorders
      PROVE  /\ line(i) \in Lines(0 .. MaxAttempts) /\ line(i).by = i /\ i \in Attempts /\ tab[i] # "none"
             /\ ~line(i).revokes /\ line(i).address = SplitTitle(address[i].host)
             /\ AgreedTo(i, line(i).key)
  <2>1. i \in Attempts /\ Records(i)
    BY DEF Recorders
  <2>2. /\ tab[i] # "none" /\ address[i].host \in Hosts
        /\ Newest(i, "ServerKey").key \in Keys /\ AgreedTo(i, Newest(i, "ServerKey").key)
    BY <2>1, RecordersAre
  <2>3. i \in 0 .. MaxAttempts
    BY <1>1, <2>1 DEF Attempts
  <2> QED
    BY <2>1, <2>2, <2>3 DEF RecordedLine, Line, Lines
<1>5. Recorded(order) = file \o lines
  BY DEF Recorded
<1> HIDE DEF line
<1>6. lines \in Seq(Lines(0 .. MaxAttempts)) /\ Len(lines) = Cardinality(Recorders)
      /\ \A n \in 1 .. Len(lines) : order[n] \in Recorders /\ lines[n] = line(order[n])
  BY <1>2, <1>3, <1>4
<1> HIDE DEF lines
<1>7. \A n \in 1 .. Len(lines) :
        /\ lines[n].by \in Attempts /\ tab[lines[n].by] # "none" /\ ~lines[n].revokes
        /\ lines[n].address = SplitTitle(address[lines[n].by].host)
        /\ AgreedTo(lines[n].by, lines[n].key)
  <2> TAKE n \in 1 .. Len(lines)
  <2>1. lines[n] = line(order[n]) /\ order[n] \in Recorders
    BY <1>6
  <2> QED
    BY <1>4, <2>1
<1> QED
  BY <1>5, <1>6, <1>7

\* What is painted as the question of a tab is one about its own key.
LEMMA AskingIs ==
  ASSUME IInv, NEW i \in Attempts
  PROVE  /\ Asking(i) \in Messages \cup {Nothing}
         /\ Asking(i) # Nothing => Asking(i).type = "Ask"
         /\ helper[i] = "asking" /\ Asking(i) # Nothing => Asking(i).key = presented[i]
         /\ helper[i] \in {"unborn", "dialling"} => Asking(i) = Nothing
<1>1. CASE Told(i)
  BY <1>1 DEF Asking
<1>2. CASE ~Told(i) /\ ~Has(i, "Ask")
  BY <1>2 DEF Asking, IInv, TypeOK, IsSound, KeepsToItsStage, AsksAboutItsKey
<1>3. CASE ~Told(i) /\ Has(i, "Ask")
  <2>1. PICK n \in Arrived(i, "Ask") : Newest(i, "Ask") = messages[i][n]
    BY <1>3, NewestArrived DEF IInv
  <2>2. messages[i] # <<>>
    BY <2>1 DEF Arrived
  <2>3. Newest(i, "Ask") \in Messages /\ Newest(i, "Ask").type = "Ask"
    BY <1>3, NewestIs DEF IInv
  <2>4. helper[i] = "asking" => Newest(i, "Ask").key = presented[i]
    BY <2>1 DEF IInv, IsSound, AsksAboutItsKey
  <2> QED
    BY <1>3, <2>2, <2>3, <2>4 DEF Asking, IInv, IsSound, KeepsToItsStage
<1> QED
  BY <1>1, <1>2, <1>3

\* What is shown after a painted frame.
LEMMA PictureIs ==
  ASSUME IInv, NEW i \in Attempts
  PROVE  /\ TextureAfter(i) \in Messages \cup {Nothing}
         /\ SizeAfter(i) \in Nat /\ UploadedAfter(i) \in Nat
         /\ TextureAfter(i) # Nothing => TextureAfter(i).whole /\ TextureAfter(i).size = SizeAfter(i)
<1>1. Has(i, "Resized") => Newest(i, "Resized").size \in Nat
  BY NewestIs, MessageFields DEF IInv
<1>2. CASE Uploads(i)
  <2>1. Newest(i, "Frame") \in Messages /\ Newest(i, "Frame").type = "Frame"
    BY <1>2, NewestIs DEF IInv, Uploads
  <2>2. Newest(i, "Frame").size \in Nat /\ Newest(i, "Frame").generation \in Nat
    BY <2>1, MessageFields
  <2> QED
    BY <1>2, <2>1, <2>2 DEF Uploads, TextureAfter, SizeAfter, UploadedAfter
<1>3. CASE ~Uploads(i)
  BY <1>1, <1>3 DEF TextureAfter, SizeAfter, UploadedAfter, IInv, TypeOK, IsSound, ShowsWhole
<1> QED
  BY <1>2, <1>3

LEMMA PaintStep ==
  ASSUME IInv, NEW answer \in {"none", "yes", "no"}, Paint(answer)
  PROVE  IInv'
<1> DEFINE f == First(Shown)
           Answered(i) == answer # "none" /\ i = f
<1>1. /\ UNCHANGED <<server, tab, address, asked, helper, given, presented, began, desktop, pdu, taken,
                     acted, commands>>
      /\ messages' = [i \in Attempts |-> <<>>]
      /\ texture' = [i \in Attempts |-> TextureAfter(i)]
      /\ size' = [i \in Attempts |-> SizeAfter(i)]
      /\ uploaded' = [i \in Attempts |-> UploadedAfter(i)]
  BY DEF Paint, worldVars, keyVars, serveVars
<1>2. answer # "none" => f \in Attempts /\ Asking(f) # Nothing
  <2>1. answer # "none" => Shown # {}
    BY DEF Paint
  <2> QED
    BY <2>1, FirstIsAmong DEF Shown
<1>3. question' = [i \in Attempts |-> IF Answered(i) THEN Nothing ELSE Asking(i)]
  BY DEF Paint
<1>4. answers' = [i \in Attempts |-> IF Answered(i) /\ helper[i] # "ended"
                                     THEN Append(answers[i], answer = "yes") ELSE answers[i]]
  BY DEF Paint
<1>5. agreed \subseteq agreed'
      /\ (answer = "yes" => [address |-> address[f], key |-> Asking(f).key] \in agreed')
  BY DEF Paint
<1>6. PICK order \in InTurn : file' = Recorded(order)
  BY DEF Paint
<1>7. PICK written \in Seq(Lines(0 .. MaxAttempts)) :
           /\ file' = file \o written
           /\ \A n \in 1 .. Len(written) :
                /\ written[n].by \in Attempts /\ tab[written[n].by] # "none" /\ ~written[n].revokes
                /\ written[n].address = SplitTitle(address[written[n].by].host)
                /\ AgreedTo(written[n].by, written[n].key)
  BY <1>6, WrittenLines
<1>8. file \in Seq(Lines(0 .. MaxAttempts))
  BY DEF IInv, TypeOK
<1>9. /\ file' \in Seq(Lines(0 .. MaxAttempts)) /\ Len(file') = Len(file) + Len(written)
      /\ Len(file) \in Nat /\ Len(written) \in Nat
      /\ \A n \in 1 .. Len(file) : file'[n] = file[n]
      /\ \A n \in 1 .. Len(file') :
           n \in 1 .. Len(file) \/ (n - Len(file) \in 1 .. Len(written) /\ file'[n] = written[n - Len(file)])
  BY <1>7, <1>8, ConcatElements
<1>10. \A i \in Attempts : \A key : AgreedTo(i, key) => AgreedTo(i, key)'
  BY <1>1, <1>5 DEF AgreedTo
<1> HIDE DEF f
<1>11. TypeOK'
  <2>1. messages' \in [Attempts -> Seq(Messages)]
    BY <1>1
  <2>2. texture' \in [Attempts -> Messages \cup {Nothing}] /\ size' \in [Attempts -> Nat]
        /\ uploaded' \in [Attempts -> Nat]
    BY <1>1, PictureIs
  <2>3. question' \in [Attempts -> Messages \cup {Nothing}]
    BY <1>3, AskingIs
  <2>4. answers' \in [Attempts -> Seq(BOOLEAN)]
    <3>1. \A i \in Attempts : answers[i] \in Seq(BOOLEAN)
      BY DEF IInv, TypeOK
    <3>2. \A i \in Attempts : Append(answers[i], answer = "yes") \in Seq(BOOLEAN)
      BY <3>1, AppendElements
    <3> QED
      BY <1>4, <3>1, <3>2
  <2> QED
    BY <1>1, <1>9, <2>1, <2>2, <2>3, <2>4 DEF IInv, TypeOK, Messages
<1>12. LinesWereAgreed'
  <2> SUFFICES ASSUME NEW n \in 1 .. Len(file'), file'[n].by # 0
               PROVE  /\ tab[file'[n].by] # "none" /\ ~file'[n].revokes
                      /\ file'[n].address = SplitTitle(address[file'[n].by].host)
                      /\ AgreedTo(file[n].by, file[n].key)'
    BY <1>1 DEF LinesWereAgreed
  <2>1. CASE n \in 1 .. Len(file)
    <3>1. file'[n] = file[n] /\ file[n].by \in Attempts
      BY <1>9, <2>1, LineFields DEF IInv
    <3>2. /\ tab[file[n].by] # "none" /\ ~file[n].revokes
          /\ file[n].address = SplitTitle(address[file[n].by].host)
          /\ [address |-> address[file[n].by], key |-> file[n].key] \in agreed
      BY <2>1, <3>1 DEF IInv, LinesWereAgreed, AgreedTo
    <3> QED
      BY <1>1, <1>5, <3>1, <3>2 DEF AgreedTo
  <2>2. CASE ~(n \in 1 .. Len(file))
    <3>1. PICK k \in 1 .. Len(written) : file'[n] = written[k]
      BY <1>9, <2>2
    <3>2. [address |-> address[written[k].by], key |-> written[k].key] \in agreed
      BY <1>7 DEF AgreedTo
    <3> QED
      BY <1>1, <1>5, <1>7, <3>1, <3>2 DEF AgreedTo
  <2> QED
    BY <2>1, <2>2
<1>13. ASSUME NEW i \in Attempts PROVE IsSound(i)'
  <2>1. messages'[i] = <<>> /\ texture'[i] = TextureAfter(i) /\ size'[i] = SizeAfter(i)
        /\ question'[i] = (IF Answered(i) THEN Nothing ELSE Asking(i))
    BY <1>1, <1>3
  <2>2. Answered(i) => Asking(i) # Nothing /\ helper[i] \notin {"unborn", "dialling"}
    BY <1>2, AskingIs
  <2>3. answers'[i] = answers[i]
        \/ (Answered(i) /\ answers'[i] = Append(answers[i], answer = "yes"))
    BY <1>4
  <2>4. IsOpened(i)' /\ ActsOnAll(i)'
    BY <1>1 DEF IInv, IsSound, IsOpened, ActsOnAll
  <2>5. KeepsToItsStage(i)'
    BY <1>1, <2>1, <2>2, <2>3, AskingIs DEF IInv, IsSound, KeepsToItsStage, Settling
  <2>6. HoldsKnownKey(i)'
    <3> SUFFICES ASSUME helper[i] = "dialling" \/ Settling(i)
                 PROVE  /\ began[i] <= Len(file')
                        /\ given[i] = KnownKey(SubSeq(file', 1, began[i]), address[i])
      BY <1>1 DEF HoldsKnownKey, Settling
    <3>1. /\ began[i] <= Len(file) /\ began[i] \in Nat
          /\ given[i] = KnownKey(SubSeq(file, 1, began[i]), address[i])
      BY DEF IInv, TypeOK, IsSound, HoldsKnownKey
    <3>2. SubSeq(file', 1, began[i]) = SubSeq(file, 1, began[i])
      BY <1>8, <1>9, <3>1, SamePrefix
    <3>3. began[i] <= Len(file')
      BY <1>9, <3>1
    <3>4. given[i] = KnownKey(SubSeq(file', 1, began[i]), address[i])
      BY <3>1, <3>2
    <3> QED
      BY <3>3, <3>4
  <2>7. AsksAboutItsKey(i)'
    <3> SUFFICES ASSUME helper[i] = "asking"
                 PROVE  /\ question'[i] # Nothing => question'[i].key = presented[i]
                        /\ \A n \in DOMAIN answers'[i] : answers'[i][n] => AgreedTo(i, presented[i])'
      BY <1>1, <2>1 DEF IInv, IsSound, AsksAboutItsKey, Arrived
    <3>1. question'[i] # Nothing => question'[i].key = presented[i]
      BY <2>1, AskingIs
    <3>2. \A n \in DOMAIN answers[i] : answers[i][n] => AgreedTo(i, presented[i])'
      BY <1>1, <1>10 DEF IInv, IsSound, AsksAboutItsKey, AgreedTo
    <3>3. Answered(i) /\ answer = "yes" => AgreedTo(i, presented[i])'
      <4>1. Answered(i) /\ answer = "yes" => Asking(i).key = presented[i]
        BY <2>2, AskingIs
      <4> QED
        BY <1>1, <1>5, <4>1 DEF AgreedTo
    <3>4. \A n \in DOMAIN answers'[i] :
            (n \in DOMAIN answers[i] /\ answers'[i][n] = answers[i][n])
            \/ (Answered(i) /\ answers'[i][n] = (answer = "yes"))
      <4> DEFINE said == answer = "yes"
      <4>1. answers[i] \in Seq(BOOLEAN) /\ said \in BOOLEAN
        BY DEF IInv, TypeOK
      <4>2. answers'[i] = answers[i] \/ (Answered(i) /\ answers'[i] = Append(answers[i], said))
        BY <2>3
      <4> HIDE DEF said
      <4>3. \A n \in DOMAIN Append(answers[i], said) :
              (n \in DOMAIN answers[i] /\ Append(answers[i], said)[n] = answers[i][n])
              \/ Append(answers[i], said)[n] = said
        BY <4>1, AppendElements
      <4>4. \A n \in DOMAIN answers'[i] :
              (n \in DOMAIN answers[i] /\ answers'[i][n] = answers[i][n])
              \/ (Answered(i) /\ answers'[i][n] = said)
        BY <4>2, <4>3
      <4> QED
        BY <4>4 DEF said
    <3> QED
      BY <3>1, <3>2, <3>3, <3>4
  <2>8. KeepsWhatWasAgreed(i)'
    <3>1. Arrived(i, "ServerKey")' = {}
      BY <2>1 DEF Arrived
    <3>2. helper[i] = "signing" => given[i] = presented[i] \/ AgreedTo(i, presented[i])'
      BY <1>1, <1>10 DEF IInv, IsSound, KeepsWhatWasAgreed, AgreedTo
    <3> QED
      BY <1>1, <3>1, <3>2 DEF KeepsWhatWasAgreed
  <2>9. ShowsWhole(i)'
    BY <2>1, PictureIs DEF ShowsWhole
  <2> QED
    BY <2>4, <2>5, <2>6, <2>7, <2>8, <2>9 DEF IsSound
<1> QED
  BY <1>11, <1>12, <1>13 DEF IInv

------------------------------------------------------------------------------
(* The theorems                                                            *)

LEMMA InitSound == Init => IInv
<1> SUFFICES ASSUME Init PROVE IInv
  OBVIOUS
<1>1. file \in Seq(Lines(0 .. MaxAttempts)) /\ \A n \in 1 .. Len(file) : file[n].by = 0
  <2>1. file \in Seq(Lines({0}))
    BY FirstFilesAssumption DEF Init
  <2>2. ASSUME NEW n \in 1 .. Len(file)
        PROVE  file[n] \in Lines(0 .. MaxAttempts) /\ file[n].by = 0
    <3>1. file[n] \in Lines({0})
      BY <2>1
    <3>2. 0 \in 0 .. MaxAttempts
      BY BoundsAssumption
    <3> QED
      BY <3>1, <3>2 DEF Lines
  <2> QED
    BY <2>1, <2>2
<1>2. TypeOK
  <2>1. FreshDesktop \in Desktops /\ 0 \in 0 .. MaxCommands /\ FirstKey \in Keys
    BY DesktopsMade, BoundsAssumption, FirstKeyAssumption
  <2> QED
    BY <1>1, <2>1 DEF Init, TypeOK, NoSize, Desktops, Messages
<1>3. LinesWereAgreed
  BY <1>1 DEF LinesWereAgreed
<1>4. ASSUME NEW i \in Attempts PROVE IsSound(i)
  <2>1. Arrived(i, "ServerKey") = {}
    BY DEF Init, Arrived
  <2> QED
    BY <2>1 DEF Init, IsSound, IsOpened, KeepsToItsStage, HoldsKnownKey, AsksAboutItsKey,
                KeepsWhatWasAgreed, ShowsWhole, ActsOnAll, Settling
<1> QED
  BY <1>2, <1>3, <1>4 DEF IInv

LEMMA StepSound ==
  ASSUME IInv, [Next]_vars
  PROVE  IInv'
<1>1. CASE UNCHANGED vars
  <2>1. TypeOK'
    BY <1>1 DEF IInv, TypeOK, Messages, vars, worldVars, hostVars, tabVars, pictureVars, keyVars, serveVars
  <2> QED
    BY <1>1, <2>1, NoAttempt
<1>2. CASE Next
  <2>1. CASE \E at \in Addresses, key \in Keys : Rebuild(at, key)
    BY <2>1, RebuildStep
  <2>2. CASE \E i \in Attempts : HelperStep(i)
    BY <2>2, PresentStep, HearStep, EndingStep, SignInStep, ActStep, ObeyStep DEF HelperStep
  <2>3. CASE \E i \in Attempts, out \in Pdus : ReadPdu(i, out)
    BY <2>3, ReadPduStep
  <2>4. CASE \E i \in Attempts, at \in Addresses : Open(i, at)
    BY <2>4, OpenStep
  <2>5. CASE \E answer \in {"none", "yes", "no"} : Paint(answer)
    BY <2>5, PaintStep
  <2>6. CASE \E i \in Attempts : Command(i)
    BY <2>6, CommandStep
  <2>7. CASE \E i \in Attempts : CloseTab(i)
    BY <2>7, CloseTabStep
  <2> QED
    BY <1>2, <2>1, <2>2, <2>3, <2>4, <2>5, <2>6, <2>7 DEF Next
<1> QED
  BY <1>1, <1>2

\* What the file has for an address and what was presented are what somebody
\* said yes to, or found there: the invariant behind the four properties.
THEOREM RdpInvariance == Spec => []IInv
<1>1. Init => IInv
  BY InitSound
<1>2. IInv /\ [Next]_vars => IInv'
  BY StepSound
<1> QED
  BY <1>1, <1>2, PTL DEF Spec

\* Where a helper's known key comes from.
LEMMA HandedFrom ==
  ASSUME IInv, NEW i \in Attempts, Settling(i)
  PROVE  \/ /\ given[i] = NoKey
            /\ \A n \in 1 .. began[i] : file[n].revokes \/ file[n].address # address[i]
         \/ \E n \in 1 .. began[i] :
              /\ n \in 1 .. Len(file) /\ ~file[n].revokes /\ file[n].address = address[i]
              /\ \A k \in 1 .. n - 1 : file[k].revokes \/ file[k].address # address[i]
              /\ given[i] = file[n].key /\ file[n].key \in Keys
<1> DEFINE lines == SubSeq(file, 1, began[i])
<1>1. file \in Seq(Lines(0 .. MaxAttempts)) /\ began[i] \in Nat /\ began[i] <= Len(file)
      /\ given[i] = KnownKey(lines, address[i])
  BY DEF IInv, TypeOK, IsSound, HoldsKnownKey
<1>2. lines \in Seq(Lines(0 .. MaxAttempts)) /\ Len(lines) = began[i]
      /\ \A n \in 1 .. began[i] : lines[n] = file[n] /\ n \in 1 .. Len(file)
  BY <1>1
<1> HIDE DEF lines
<1>3. \/ /\ KnownKey(lines, address[i]) = NoKey
         /\ \A n \in 1 .. Len(lines) : lines[n].revokes \/ lines[n].address # address[i]
      \/ \E n \in 1 .. Len(lines) :
           /\ ~lines[n].revokes /\ lines[n].address = address[i]
           /\ \A k \in 1 .. n - 1 : lines[k].revokes \/ lines[k].address # address[i]
           /\ KnownKey(lines, address[i]) = lines[n].key /\ lines[n].key \in Keys
  BY <1>2, KnownKeyIs, ZenonT(40)
<1>4. CASE /\ KnownKey(lines, address[i]) = NoKey
           /\ \A n \in 1 .. Len(lines) : lines[n].revokes \/ lines[n].address # address[i]
  BY <1>1, <1>2, <1>4
<1>5. CASE \E n \in 1 .. Len(lines) :
             /\ ~lines[n].revokes /\ lines[n].address = address[i]
             /\ \A k \in 1 .. n - 1 : lines[k].revokes \/ lines[k].address # address[i]
             /\ KnownKey(lines, address[i]) = lines[n].key /\ lines[n].key \in Keys
  <2>1. PICK n \in 1 .. began[i] :
             /\ ~lines[n].revokes /\ lines[n].address = address[i]
             /\ \A k \in 1 .. n - 1 : lines[k].revokes \/ lines[k].address # address[i]
             /\ KnownKey(lines, address[i]) = lines[n].key /\ lines[n].key \in Keys
    BY <1>2, <1>5
  <2>2. \A k \in 1 .. n - 1 : k \in 1 .. began[i]
    BY <1>1
  <2> QED
    BY <1>1, <1>2, <2>1, <2>2
<1> QED
  BY <1>3, <1>4, <1>5

\* The credentials go only to a key that a person agreed to for this host, or
\* that the file had for it before (decide in helpers/rdp's trust.rs,
\* known_server_key and record_server_key in app-ui).
THEOREM CredentialsGoWhereTrusted == Spec => []TrustHasASource
<1>1. IInv => TrustHasASource
  <2> SUFFICES ASSUME IInv, NEW i \in Attempts, helper[i] = "signing" PROVE Vouched(i)
    BY DEF TrustHasASource
  <2>1. Settling(i) /\ presented[i] \in Keys
    BY DEF IInv, IsSound, KeepsToItsStage, Settling
  <2>2. CASE AgreedTo(i, presented[i])
    BY <2>2 DEF AgreedTo, Vouched
  <2>3. CASE given[i] = presented[i]
    <3>1. given[i] # NoKey
      BY <2>1, <2>3, KeysAssumption
    <3>2. PICK n \in 1 .. Len(file) :
            ~file[n].revokes /\ file[n].address = address[i] /\ presented[i] = file[n].key
      BY <2>1, <2>3, <3>1, HandedFrom
    <3>3. CASE file[n].by = 0
      <4>1. n \in DOMAIN file
        BY SMTT(30) DEF IInv, TypeOK
      <4> QED
        BY <3>2, <3>3, <4>1 DEF Vouched
    <3>4. CASE file[n].by # 0
      <4> DEFINE yes == [address |-> address[file[n].by], key |-> file[n].key]
      <4>1. yes \in agreed /\ address[i] = SplitTitle(yes.address.host) /\ yes.key = presented[i]
        BY <3>2, <3>4 DEF IInv, LinesWereAgreed, AgreedTo
      <4> QED
        BY <4>1 DEF Vouched
    <3> QED
      BY <3>3, <3>4
  <2> QED
    BY <2>2, <2>3 DEF IInv, IsSound, KeepsWhatWasAgreed
<1> QED
  BY <1>1, RdpInvariance, PTL

\* A key that was kept for a host at its usual port is found when the host is
\* opened again (record_server_key, known_server_key).
THEOREM KeptIsNotAskedAgain == Spec => []NotAskedAgain
<1>1. IInv => NotAskedAgain
  <2> SUFFICES ASSUME IInv, NEW i \in Attempts, helper[i] = "asking", Usual(address[i]),
                      NEW n \in 1 .. began[i], Settles(n, i)
               PROVE  FALSE
    BY DEF NotAskedAgain
  <2>1. Settling(i) /\ presented[i] \in Keys /\ given[i] # presented[i]
    BY DEF IInv, IsSound, KeepsToItsStage, AsksAboutItsKey, Settling
  <2>2. /\ file \in Seq(Lines(0 .. MaxAttempts)) /\ began[i] \in Nat /\ began[i] <= Len(file)
        /\ tab[i] # "none" /\ address[i] \in Addresses
    BY DEF IInv, TypeOK, IsSound, IsOpened, HoldsKnownKey, Settling
  <2>3. n \in 1 .. Len(file)
    BY <2>2
  <2>4. ~file[n].revokes /\ file[n].address = SplitTitle(address[i].host) /\ file[n].key = presented[i]
    BY <2>3 DEF IInv, LinesWereAgreed, Settles
  <2>5. file[n].address = address[i]
    BY <2>2, <2>4 DEF Usual, SplitTitle, Addresses
  <2>6. CASE /\ given[i] = NoKey
             /\ \A k \in 1 .. began[i] : file[k].revokes \/ file[k].address # address[i]
    BY <2>4, <2>5, <2>6
  <2>7. ASSUME NEW k \in 1 .. began[i],
               ~file[k].revokes, file[k].address = address[i], given[i] = file[k].key,
               \A l \in 1 .. k - 1 : file[l].revokes \/ file[l].address # address[i]
        PROVE  FALSE
    <3>1. ~(k < n)
      BY <2>7 DEF Settles
    <3>2. ~(n < k)
      BY <2>4, <2>5, <2>7
    <3>3. k = n
      BY <2>2, <3>1, <3>2
    <3> QED
      BY <2>1, <2>4, <2>7, <3>3
  <2> QED
    BY <2>1, <2>6, <2>7, HandedFrom
<1> QED
  BY <1>1, RdpInvariance, PTL

\* What a tab shows is a whole picture of the size it maps the pointer with
\* (SurfaceTab::upload).
THEOREM PictureIsWhole == Spec => []ShownIsWhole
<1>1. IInv => ShownIsWhole
  BY DEF IInv, IsSound, ShownIsWhole
<1> QED
  BY <1>1, RdpInvariance, PTL

\* No PDU that was read is lost to a command (serve, ActiveSession::read).
THEOREM EveryPduIsActedOn == Spec => []NothingReadIsDropped
<1>1. IInv => NothingReadIsDropped
  BY DEF IInv, IsSound, NothingReadIsDropped
<1> QED
  BY <1>1, RdpInvariance, PTL

==============================================================================
