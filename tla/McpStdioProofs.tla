-------------------------- MODULE McpStdioProofs --------------------------
(***************************************************************************)
(* What holds of the stdio transport for any number of threads, requests   *)
(* and messages in the pipes, and whatever the server does: nobody who     *)
(* waits is forgotten, and a server that answers each request at most once *)
(* is not accused of a stray answer.                                       *)
(*                                                                         *)
(* The invariant has three layers.  Base says who owns which request and   *)
(* what the tables may hold.  Attended follows a request from the tables   *)
(* to the item that ends the wait.  Flow follows an answer, which is in    *)
(* one place at a time, from the request's writing to its release; it      *)
(* needs that the transport remembers the requests that are over until     *)
(* nothing of them is left to come, which Counted bounds.                  *)
(***************************************************************************)
EXTENDS McpStdio, FiniteSetTheorems, SequenceTheorems, TLAPS

\* The first layer.
Owners ==
    /\ \A c \in Thread : mine[c] <= issued /\ (mine[c] = 0 <=> at[c] \in {"idle", "begun"})
    /\ \A c, d \in Thread : c # d /\ mine[c] = mine[d] => mine[c] = 0
Tables ==
    /\ pending \subseteq 1 .. issued
    /\ telling \subseteq 1 .. issued
    /\ \A i \in pending : states[i] \in {"awaiting_response", "awaiting_follow_up"}
Base == TypeOK /\ Owners /\ Tables /\ IsInjective(deferred)

\* The second layer.
Ends == {"answer", "follow_up_timeout", "fatal"}
Attends(c) == mine[c] \in pending \cup telling \/ ToSet(queue[c]) \cap Ends # {}
Attended ==
    /\ closing \in {"open", "flagged"} => \A c \in Thread : at[c] \in {"write", "wait"} => Attends(c)
    /\ fatal = "none" => \A i \in Id : Held(i) => i \in ToSet(deferred)
    /\ telling # {} => reader \in {"loop", "done"}

\* The third layer, for a server that does not stray, until close() begins: the answer
\* to a request is in one place at a time, and the transport knows the request.
Honest == closing = "open" /\ "strays" \notin deeds
Awaited(i) == i \in pending /\ states[i] = "awaiting_response"
Travels(i) == i \in ToSet(stdin) \cup todo \cup ToSet(stdout)
Single(s) == \A k, l \in DOMAIN s : s[k] = s[l] /\ s[k] \in Id => k = l
Once ==
    /\ Single(stdin) /\ Single(stdout)
    /\ \A i \in todo : i \notin ToSet(stdin) \cup ToSet(stdout)
    /\ \A i \in Id : i \in ToSet(stdin) => i \notin ToSet(stdout)
Known ==
    /\ \A i \in Id : Travels(i) =>
         i <= issued /\ i \notin ToSet(deferred) /\ (Awaited(i) \/ states[i] \in Discard)
    /\ \A i \in ToSet(deferred) : i <= issued /\ ~Unknown(i)
    /\ \A c \in Thread : \A i \in Id : at[c] = "write" /\ mine[c] = i =>
         Awaited(i) /\ ~Travels(i) /\ i \notin ToSet(deferred)

\* A request is retired at most twice: by the reader, who has taken its answer and lets go
\* of it, and by its own thread, who then leaves it.
Spent(i) ==
    /\ i \notin pending /\ ~Travels(i) /\ i \notin ToSet(deferred)
    /\ \A c \in Thread : at[c] = "write" => mine[c] # i
Out == {i \in 1 .. issued : Spent(i)}
Gone == {i \in 1 .. issued : \A c \in Thread : mine[c] # i}
Counted == Len(retired) <= Cardinality(Out) + Cardinality(Gone)

Flow == Honest /\ fatal = "none" => reader # "stray" /\ Once /\ Known /\ Counted

\* A request is forgotten only when all of them have been retired twice.
Remembers == 2 * MaxRequests - 1 <= Retain

-----------------------------------------------------------------------------
(* Sequences *)

LEMMA Appended ==
  ASSUME NEW S, NEW s \in Seq(S), NEW x \in S
  PROVE  /\ Append(s, x) \in Seq(S)
         /\ ToSet(Append(s, x)) = ToSet(s) \cup {x}
         /\ Append(s, x) # <<>>
<1>1. /\ Append(s, x) \in Seq(S)
      /\ Len(Append(s, x)) = Len(s) + 1
      /\ \A k \in 1 .. Len(s) : Append(s, x)[k] = s[k]
      /\ Append(s, x)[Len(s) + 1] = x
  BY SMT
<1>2. Len(s) \in Nat /\ DOMAIN s = 1 .. Len(s) /\ DOMAIN Append(s, x) = 1 .. Len(s) + 1
  BY <1>1, LenProperties
<1>3. ToSet(Append(s, x)) = ToSet(s) \cup {x}
  BY <1>1, <1>2, SMT DEF ToSet
<1>4. QED
  BY <1>1, <1>2, <1>3, EmptySeq

LEMMA Beheaded ==
  ASSUME NEW S, NEW s \in Seq(S), s # <<>>
  PROVE  /\ Head(s) \in S
         /\ Tail(s) \in Seq(S)
         /\ ToSet(s) = {Head(s)} \cup ToSet(Tail(s))
<1>1. /\ Head(s) \in S /\ Tail(s) \in Seq(S) /\ Len(Tail(s)) = Len(s) - 1
      /\ \A k \in 1 .. Len(Tail(s)) : Tail(s)[k] = s[k + 1]
  BY HeadTailProperties
<1>2. Len(s) \in Nat \ {0} /\ DOMAIN s = 1 .. Len(s) /\ DOMAIN Tail(s) = 1 .. Len(s) - 1
  BY <1>1, LenProperties, EmptySeq
<1>3. Head(s) = s[1]
  BY SMT
<1>4. ToSet(s) \subseteq {Head(s)} \cup ToSet(Tail(s))
  <2>1. SUFFICES ASSUME NEW k \in 1 .. Len(s)
                 PROVE  s[k] \in {Head(s)} \cup ToSet(Tail(s))
    BY <1>2 DEF ToSet
  <2>2. CASE k = 1
    BY <2>2, <1>3
  <2>3. CASE k # 1
    <3>1. k - 1 \in 1 .. Len(s) - 1 /\ s[k] = Tail(s)[k - 1]
      BY <2>3, <1>1, <1>2, SMT
    <3>2. QED
      BY <3>1, <1>2 DEF ToSet
  <2>4. QED
    BY <2>2, <2>3
<1>5. ToSet(Tail(s)) \subseteq ToSet(s)
  BY <1>1, <1>2, SMT DEF ToSet
<1>6. Head(s) \in ToSet(s)
  BY <1>2, <1>3, SMT DEF ToSet
<1>7. QED
  BY <1>1, <1>4, <1>5, <1>6

LEMMA SingleAppend ==
  ASSUME NEW S, NEW s \in Seq(S), NEW x \in S, Single(s), x \in Id => x \notin ToSet(s)
  PROVE  Single(Append(s, x))
<1>1. /\ Append(s, x) \in Seq(S)
      /\ Len(Append(s, x)) = Len(s) + 1
      /\ \A k \in 1 .. Len(s) : Append(s, x)[k] = s[k]
      /\ Append(s, x)[Len(s) + 1] = x
  BY SMT
<1>2. Len(s) \in Nat /\ DOMAIN s = 1 .. Len(s) /\ DOMAIN Append(s, x) = 1 .. Len(s) + 1
  BY <1>1, LenProperties
<1>3. \A k \in 1 .. Len(s) + 1 : k \in 1 .. Len(s) \/ k = Len(s) + 1
  BY <1>2, SMT
<1>4. x \in Id => \A k \in 1 .. Len(s) : s[k] # x
  BY <1>2 DEF ToSet
<1> DEFINE t == Append(s, x)
<1> HIDE DEF t
<1>5. \A k, l \in 1 .. Len(s) + 1 : t[k] = t[l] /\ t[k] \in Id => k = l
  BY <1>1, <1>2, <1>3, <1>4 DEF Single, t
<1>6. QED
  BY <1>2, <1>5 DEF Single, t

LEMMA SingleTail ==
  ASSUME NEW S, NEW s \in Seq(S), s # <<>>, Single(s)
  PROVE  /\ Single(Tail(s))
         /\ Head(s) \in Id => Head(s) \notin ToSet(Tail(s))
<1>1. /\ Tail(s) \in Seq(S) /\ Len(Tail(s)) = Len(s) - 1
      /\ \A k \in 1 .. Len(Tail(s)) : Tail(s)[k] = s[k + 1]
  BY HeadTailProperties
<1>2. Len(s) \in Nat \ {0} /\ DOMAIN s = 1 .. Len(s) /\ DOMAIN Tail(s) = 1 .. Len(s) - 1
  BY <1>1, LenProperties, EmptySeq
<1>3. Head(s) = s[1] /\ 1 \in DOMAIN s
  BY <1>2, SMT
<1>4. \A k \in DOMAIN Tail(s) : k + 1 \in DOMAIN s /\ k + 1 # 1 /\ Tail(s)[k] = s[k + 1]
  BY <1>1, <1>2, SMT
<1>5. \A k, l \in DOMAIN Tail(s) : k + 1 = l + 1 => k = l
  BY <1>2, SMT
<1>6. Single(Tail(s))
  BY <1>4, <1>5 DEF Single
<1>7. Head(s) \in Id => Head(s) \notin ToSet(Tail(s))
  BY <1>3, <1>4 DEF Single, ToSet
<1>8. QED
  BY <1>6, <1>7

-----------------------------------------------------------------------------
(* What the helpers do *)

\* _set_request_state_locked: what is forgotten was over, and nothing is as long as
\* the retired requests fit.
LEMMA Retires ==
  ASSUME TypeOK, NEW over \in Seq(Id), NEW state \in Discard, NEW done \in SUBSET Id,
         SetStates(over, state, done)
  PROVE  /\ retired' \in Seq(Id)
         /\ Len(retired') <= Retain
         /\ Len(retired') <= Len(retired) + Len(over)
         /\ states' \in [Id -> RequestState]
         /\ \A i \in Id : i \notin ToSet(over) \cup done =>
              states'[i] = states[i] \/ (states[i] \in Discard /\ states'[i] = "none")
         /\ \A i \in ToSet(over) \ done : states'[i] \in {"none", state}
         /\ \A i \in done : states'[i] = "none"
         /\ Len(retired) + Len(over) <= Retain =>
              \A i \in Id \ done : states'[i] = IF i \in ToSet(over) THEN state ELSE states[i]
<1> DEFINE all == retired \o over
           extra == IF Len(all) > Retain THEN Len(all) - Retain ELSE 0
           lost == ToSet(SubSeq(all, 1, extra))
           marked == [i \in Id |-> IF i \in ToSet(over) THEN state ELSE states[i]]
<1>1. /\ retired' = SubSeq(all, extra + 1, Len(all))
      /\ states' = [i \in Id |-> IF i \in done \cup lost /\ (i \in done \/ marked[i] \in Discard)
                                   THEN "none" ELSE marked[i]]
  BY Zenon DEF SetStates
<1>2. retired \in Seq(Id) /\ states \in [Id -> RequestState] /\ Retain \in Nat
  BY McpAssumption DEF TypeOK
<1>3. all \in Seq(Id) /\ Len(all) = Len(retired) + Len(over)
  BY <1>2, ConcatProperties
<1>4. Len(all) \in Nat /\ Len(retired) \in Nat /\ Len(over) \in Nat
  BY <1>2, <1>3, LenProperties
<1> HIDE DEF all
<1>15. /\ extra \in 0 .. Len(all) /\ Len(all) - extra <= Retain
       /\ Len(all) <= Retain => extra = 0
  BY <1>2, <1>4, SMT
<1> HIDE DEF extra
<1>5. /\ retired' \in Seq(Id)
      /\ Len(retired') = Len(all) - extra
  <2>1. \A k \in extra + 1 .. Len(all) : all[k] \in Id
    BY <1>3, <1>4, <1>15, ElementOfSeq, SMT
  <2>2. /\ SubSeq(all, extra + 1, Len(all)) \in Seq(Id)
        /\ Len(SubSeq(all, extra + 1, Len(all)))
             = IF extra + 1 <= Len(all) THEN Len(all) - (extra + 1) + 1 ELSE 0
    BY <2>1, <1>4, <1>15, SubSeqProperties, SMT
  <2>3. QED
    BY <2>2, <1>1, <1>4, <1>15, SMT
<1>6. Len(retired') <= Retain /\ Len(retired') <= Len(retired) + Len(over)
  BY <1>2, <1>3, <1>4, <1>5, <1>15, SMT
<1> HIDE DEF lost
<1>7. marked \in [Id -> RequestState]
  BY <1>2 DEF RequestState
<1>8. states' \in [Id -> RequestState]
  BY <1>1, <1>7 DEF RequestState
<1>9. \A i \in Id : i \notin ToSet(over) \cup done =>
        states'[i] = states[i] \/ (states[i] \in Discard /\ states'[i] = "none")
  BY <1>1
<1>10. \A i \in Id : i \in ToSet(over) \ done => states'[i] \in {"none", state}
  <2>1. SUFFICES ASSUME NEW i \in Id, i \in ToSet(over), i \notin done
                 PROVE  states'[i] \in {"none", state}
    OBVIOUS
  <2>2. marked[i] = state
    BY <2>1
  <2>3. QED
    BY <2>1, <2>2, <1>1
<1>11. \A i \in done : states'[i] = "none"
  BY <1>1
<1>12. ToSet(over) \subseteq Id
  BY LenProperties, ElementOfSeq DEF ToSet
<1>13. ASSUME Len(retired) + Len(over) <= Retain
       PROVE  \A i \in Id \ done : states'[i] = IF i \in ToSet(over) THEN state ELSE states[i]
  <2>1. extra = 0
    BY <1>13, <1>3, <1>15
  <2>2. SubSeq(all, 1, extra) = <<>>
    BY <2>1, SubSeqEmpty
  <2>3. lost = {}
    <3>1. <<>> \in Seq(Id) /\ Len(<<>>) = 0
      BY EmptySeq
    <3>2. DOMAIN <<>> = {}
      BY <3>1, LenProperties, SMT
    <3>3. QED
      BY <2>2, <3>2 DEF ToSet, lost
  <2>4. QED
    BY <2>3, <1>1
<1>14. QED
  BY <1>5, <1>6, <1>8, <1>9, <1>10, <1>11, <1>12, <1>13

LEMMA Remembered ==
  ASSUME TypeOK, NEW over \in Seq(Id), NEW state \in Discard, NEW done \in SUBSET Id,
         SetStates(over, state, done), Len(retired) + Len(over) <= Retain
  PROVE  \A i \in Id \ done : states'[i] = IF i \in ToSet(over) THEN state ELSE states[i]
<1>1. \A s \in Seq(Id) : \A st \in Discard : \A d \in SUBSET Id :
        SetStates(s, st, d) /\ Len(retired) + Len(s) <= Retain =>
          \A i \in Id \ d : states'[i] = IF i \in ToSet(s) THEN st ELSE states[i]
  BY Retires
<1>2. QED
  BY <1>1

LEMMA Queues ==
  ASSUME TypeOK, NEW ids, NEW item \in Item, queue' = Put(ids, item)
  PROVE  /\ queue' \in [Thread -> Seq(Item)]
         /\ \A c \in Thread : queue'[c] = IF mine[c] \in ids THEN Append(queue[c], item) ELSE queue[c]
<1>1. \A c \in Thread : queue[c] \in Seq(Item)
  BY DEF TypeOK
<1>2. \A c \in Thread : Append(queue[c], item) \in Seq(Item)
  BY <1>1, Appended
<1>3. QED
  BY <1>1, <1>2 DEF Put

\* _flush_deferred_responses: a prefix of what is held back is settled, all of it unless
\* an id stops it.
LEMMA Flushes ==
  ASSUME Base, Flush
  PROVE  \E over \in Seq(Id) : \E settled, released \in SUBSET Id :
           LET expired == ToSet(over) IN
           /\ Len(over) = Cardinality(expired) /\ IsFiniteSet(expired)
           /\ settled \subseteq ToSet(deferred)
           /\ \A i \in settled : ~Unknown(i)
           /\ expired \cup released = {i \in settled : Held(i)}
           /\ expired \cap released = {}
           /\ queue' = [c \in Thread |->
                CASE mine[c] \in expired -> Append(queue[c], "follow_up_timeout")
                  [] mine[c] \in released -> Append(queue[c], "answer")
                  [] OTHER -> queue[c]]
           /\ pending' = pending \ settled
           /\ SetStates(over, "follow_up_timed_out", released)
           /\ deferred' \in Seq(Id) /\ IsInjective(deferred')
           /\ \/ ToSet(deferred') = ToSet(deferred) \ settled /\ UNCHANGED reader
              \/ /\ deferred' = deferred /\ reader' = "stray"
                 /\ \E i \in ToSet(deferred) : Unknown(i)
<1>1. PICK n \in 0 .. Len(deferred), quiet \in BOOLEAN :
         LET due == IF quiet THEN Len(deferred) ELSE n
             settled == {k \in 1 .. due : \A j \in 1 .. k : ~Unknown(deferred[j])}
             held == {k \in settled : Held(deferred[k])}
             expired == {deferred[k] : k \in held \cap (1 .. n)}
             released == {deferred[k] : k \in held \ (1 .. n)}
         IN  /\ due > 0
             /\ queue' = [c \in Thread |->
                            CASE mine[c] \in expired -> Append(queue[c], "follow_up_timeout")
                              [] mine[c] \in released -> Append(queue[c], "answer")
                              [] OTHER -> queue[c]]
             /\ pending' = pending \ {deferred[k] : k \in settled}
             /\ \E over \in InOrderOf(deferred, expired) :
                  SetStates(over, "follow_up_timed_out", released)
             /\ IF settled = 1 .. due
                  THEN /\ deferred' = SubSeq(deferred, due + 1, Len(deferred))
                       /\ UNCHANGED reader
                  ELSE /\ reader' = "stray"
                       /\ UNCHANGED deferred
  BY Zenon DEF Flush
<1> DEFINE due == IF quiet THEN Len(deferred) ELSE n
           places == {k \in 1 .. due : \A j \in 1 .. k : ~Unknown(deferred[j])}
           held == {k \in places : Held(deferred[k])}
           expired == {deferred[k] : k \in held \cap (1 .. n)}
           released == {deferred[k] : k \in held \ (1 .. n)}
           settled == {deferred[k] : k \in places}
<1>2. /\ deferred \in Seq(Id) /\ Len(deferred) \in Nat /\ DOMAIN deferred = 1 .. Len(deferred)
      /\ \A k \in 1 .. Len(deferred) : deferred[k] \in Id
      /\ \A j, k \in 1 .. Len(deferred) : deferred[j] = deferred[k] => j = k
  <2>1. deferred \in Seq(Id)
    BY DEF Base, TypeOK
  <2>2. Len(deferred) \in Nat /\ DOMAIN deferred = 1 .. Len(deferred)
    BY <2>1, LenProperties
  <2>3. QED
    BY <2>1, <2>2, ElementOfSeq DEF Base, IsInjective
<1>3. due \in 0 .. Len(deferred) /\ places \subseteq 1 .. Len(deferred)
  BY <1>2, SMT
<1>4. /\ settled \subseteq Id /\ settled \subseteq ToSet(deferred)
      /\ expired \subseteq settled /\ released \subseteq settled
  BY <1>2, <1>3 DEF ToSet
<1>5. \A i \in settled : ~Unknown(i)
  BY <1>3, SMT
<1>6. expired \cup released = {i \in settled : Held(i)}
  OBVIOUS
<1>7. expired \cap released = {}
  <2>1. SUFFICES ASSUME NEW j \in held \cap (1 .. n), NEW k \in held \ (1 .. n),
                        deferred[j] = deferred[k]
                 PROVE  FALSE
    OBVIOUS
  <2>2. j = k
    BY <2>1, <1>2, <1>3
  <2>3. QED
    BY <2>1, <2>2
<1>8. PICK over \in InOrderOf(deferred, expired) : SetStates(over, "follow_up_timed_out", released)
  BY <1>1
<1>9. IsFiniteSet(expired) /\ Cardinality(expired) \in Nat
  <2>1. IsFiniteSet(Id)
    <3>1. MaxRequests \in Int /\ 1 \in Int
      BY McpAssumption, SMT
    <3>2. QED
      BY <3>1, FS_Interval DEF Id
  <2>2. expired \subseteq Id
    BY <1>4
  <2>3. QED
    BY <2>1, <2>2, FS_Subset, FS_CardinalityType
<1>12. pending' = pending \ settled
  BY <1>1
<1>13. queue' = [c \in Thread |->
                CASE mine[c] \in expired -> Append(queue[c], "follow_up_timeout")
                  [] mine[c] \in released -> Append(queue[c], "answer")
                  [] OTHER -> queue[c]]
  BY <1>1, Zenon
<1> HIDE DEF expired
<1>10. over \in Seq(Id) /\ Len(over) = Cardinality(expired) /\ ToSet(over) = expired
  <2>1. over \in [1 .. Cardinality(expired) -> expired] /\ ToSet(over) = expired
    BY <1>8 DEF InOrderOf
  <2>2. over \in Seq(expired) /\ Len(over) = Cardinality(expired)
    BY <2>1, <1>9, SMT
  <2>3. QED
    BY <2>1, <2>2, <1>4, SeqMonotonic
<1>11. /\ deferred' \in Seq(Id) /\ IsInjective(deferred')
       /\ \/ ToSet(deferred') = ToSet(deferred) \ settled /\ UNCHANGED reader
          \/ /\ deferred' = deferred /\ reader' = "stray"
             /\ \E i \in ToSet(deferred) : Unknown(i)
  <2>1. CASE places = 1 .. due
    <3> DEFINE rest == SubSeq(deferred, due + 1, Len(deferred))
    <3>1. deferred' = rest /\ UNCHANGED reader
      BY <1>1, <2>1
    <3> HIDE DEF due
    <3>8. /\ rest \in Seq(Id)
          /\ Len(rest) = IF due + 1 <= Len(deferred) THEN Len(deferred) - (due + 1) + 1 ELSE 0
          /\ \A k \in 1 .. Len(deferred) - (due + 1) + 1 : rest[k] = deferred[due + 1 + k - 1]
      <4>1. \A k \in due + 1 .. Len(deferred) : deferred[k] \in Id
        BY <1>2, <1>3, SMT
      <4>2. QED
        BY <4>1, <1>2, <1>3, SubSeqProperties, SMT
    <3> HIDE DEF rest
    <3>9. \A k \in 1 .. Len(deferred) - due :
            /\ k \in 1 .. Len(deferred) - (due + 1) + 1
            /\ due + 1 + k - 1 = due + k
            /\ due + k \in 1 .. Len(deferred)
      <4>1. \A m, d \in Nat : d <= m =>
              \A k \in 1 .. m - d : /\ k \in 1 .. m - (d + 1) + 1
                                    /\ d + 1 + k - 1 = d + k
                                    /\ d + k \in 1 .. m
        BY SMT
      <4>2. Len(deferred) \in Nat /\ due \in Nat /\ due <= Len(deferred)
        BY <1>2, <1>3, SMT
      <4>3. QED
        BY <4>1, <4>2
    <3>2. /\ rest \in Seq(Id)
          /\ Len(rest) = Len(deferred) - due
          /\ \A k \in 1 .. Len(deferred) - due : rest[k] = deferred[due + k]
      <4>1. Len(rest) = Len(deferred) - due
        <5>1. \A m, d \in Nat : d <= m =>
                (IF d + 1 <= m THEN m - (d + 1) + 1 ELSE 0) = m - d
          BY SMT
        <5>2. Len(deferred) \in Nat /\ due \in Nat /\ due <= Len(deferred)
          BY <1>2, <1>3, SMT
        <5>3. QED
          BY <5>1, <5>2, <3>8
      <4>2. QED
        BY <3>8, <3>9, <4>1
    <3>3. DOMAIN rest = 1 .. Len(deferred) - due
      BY <3>2, LenProperties
    <3>4. IsInjective(rest)
      <4>1. SUFFICES ASSUME NEW j \in 1 .. Len(deferred) - due, NEW k \in 1 .. Len(deferred) - due,
                            rest[j] = rest[k]
                     PROVE  j = k
        BY <3>3 DEF IsInjective
      <4>2. due + j = due + k
        BY <4>1, <3>2, <3>9, <1>2
      <4>3. QED
        BY <4>2, <1>2, <1>3, SMT
    <3>5. ToSet(rest) \subseteq ToSet(deferred) \ settled
      <4>1. SUFFICES ASSUME NEW k \in 1 .. Len(deferred) - due
                     PROVE  deferred[due + k] \in ToSet(deferred) \ settled
        BY <3>2, <3>3 DEF ToSet
      <4>2. due + k \in 1 .. Len(deferred) /\ due + k \notin 1 .. due
        BY <1>2, <1>3, SMT
      <4>3. QED
        BY <4>2, <2>1, <1>2, <1>3 DEF ToSet
    <3>6. ToSet(deferred) \ settled \subseteq ToSet(rest)
      <4>1. SUFFICES ASSUME NEW k \in 1 .. Len(deferred), deferred[k] \notin settled
                     PROVE  deferred[k] \in ToSet(rest)
        BY <1>2 DEF ToSet
      <4>2. k \notin 1 .. due
        BY <4>1, <2>1
      <4>3. k - due \in 1 .. Len(deferred) - due /\ rest[k - due] = deferred[k]
        BY <4>2, <3>2, <1>2, <1>3, SMT
      <4>4. QED
        BY <4>3, <3>3 DEF ToSet
    <3>7. QED
      BY <3>1, <3>2, <3>4, <3>5, <3>6
  <2>2. CASE places # 1 .. due
    <3>1. deferred' = deferred /\ reader' = "stray"
      BY <1>1, <2>2
    <3>2. \E i \in ToSet(deferred) : Unknown(i)
      <4>1. PICK k \in 1 .. due : k \notin places
        BY <2>2
      <4>2. PICK j \in 1 .. k : Unknown(deferred[j])
        BY <4>1
      <4>3. j \in 1 .. Len(deferred)
        BY <1>2, <1>3, SMT
      <4>4. QED
        BY <4>2, <4>3, <1>2 DEF ToSet
    <3>3. QED
      BY <3>1, <3>2, <1>2 DEF Base
  <2>3. QED
    BY <2>1, <2>2
<1> HIDE DEF settled, released
<1>14. released \in SUBSET Id /\ settled \in SUBSET Id
  BY <1>4
<1>15. QED
  BY <1>4, <1>5, <1>6, <1>7, <1>8, <1>9, <1>10, <1>11, <1>12, <1>13, <1>14

-----------------------------------------------------------------------------
(* The first layer *)

\* A thread past the registration has a request.
LEMMA Numbered ==
  ASSUME Base, NEW c \in Thread, at[c] \notin {"idle", "begun"}
  PROVE  mine[c] \in Id /\ mine[c] \in 1 .. issued
<1>1. mine[c] # 0 /\ mine[c] \in 0 .. MaxRequests /\ mine[c] <= issued /\ issued \in Nat
  BY SMT, McpAssumption DEF Base, Owners, TypeOK
<1>2. QED
  BY <1>1, McpAssumption, SMT DEF Id

LEMMA Left ==
  ASSUME TypeOK, NEW c \in Thread, Leave(c)
  PROVE  /\ at' \in [Thread -> {"idle", "begun", "write", "wait", "retire", "check"}]
         /\ mine' \in [Thread -> 0 .. MaxRequests]
         /\ queue' \in [Thread -> Seq(Item)]
         /\ seen' \in [Thread -> BOOLEAN]
<1>1. <<>> \in Seq(Item)
  BY EmptySeq
<1>2. 0 \in 0 .. MaxRequests
  BY McpAssumption, SMT
<1>3. QED
  BY <1>1, <1>2 DEF TypeOK, Leave

LEMMA TakesIn ==
  ASSUME TypeOK, NEW kind, Reads(kind)
  PROVE  /\ Head(stdout) \in kind
         /\ stdout' = Tail(stdout) /\ stdout # <<>>
         /\ stdout' \in Seq(Output)
<1>1. stdout \in Seq(Output) /\ stdout # <<>>
  BY DEF TypeOK, Reads
<1>2. QED
  BY <1>1, Beheaded DEF Reads

\* What request() does to the tables when a request is over.
LEMMA WithdrawsBase ==
  ASSUME Base, NEW c \in Thread, WriteFails(c) \/ Retire(c)
  PROVE  \E state \in Discard :
           /\ mine[c] \in Id
           /\ <<mine[c]>> \in Seq(Id) /\ Len(<<mine[c]>>) = 1 /\ ToSet(<<mine[c]>>) = {mine[c]}
           /\ pending' = pending \ {mine[c]}
           /\ SetStates(<<mine[c]>>, state, {})
           /\ Leave(c)
           /\ UNCHANGED <<issued, fatal, closing, readerVars, serverVars>>
<1>1. mine[c] \in Id
  BY Numbered DEF WriteFails, Retire
<1>2. <<mine[c]>> \in Seq(Id) /\ Len(<<mine[c]>>) = 1 /\ ToSet(<<mine[c]>>) = {mine[c]}
  <2>1. <<mine[c]>> = Append(<<>>, mine[c]) /\ <<mine[c]>>[1] = mine[c] /\ Len(<<mine[c]>>) = 1
    BY SMT
  <2>2. <<mine[c]>> \in Seq(Id)
    BY <1>1, <2>1, EmptySeq, Appended
  <2>3. DOMAIN <<mine[c]>> = {1}
    BY <2>1, <2>2, LenProperties, SMT
  <2>4. QED
    BY <2>1, <2>2, <2>3 DEF ToSet
<1>3. CASE WriteFails(c)
  BY <1>1, <1>2, <1>3 DEF WriteFails, Discard
<1>4. CASE Retire(c)
  BY <1>1, <1>2, <1>4 DEF Retire, Discard
<1>5. QED
  BY <1>3, <1>4

LEMMA RequestsTypes ==
  ASSUME Base, NEW c \in Thread, Requests(c)
  PROVE  TypeOK'
<1> USE DEF threadVars, tableVars, readerVars, serverVars
<1>1. CASE Call(c)
  BY <1>1, SMT DEF Base, TypeOK, Call
<1>2. CASE Register(c)
  <2>1. issued + 1 \in Id /\ issued + 1 \in 0 .. MaxRequests
    BY <1>2, McpAssumption, SMT DEF Base, TypeOK, Register, Id
  <2>2. QED
    BY <1>2, <2>1, SMT DEF Base, TypeOK, Register, RequestState
<1>3. CASE Write(c)
  <2>1. mine[c] \in Id
    BY <1>3, Numbered DEF Write
  <2>2. stdin' \in Seq(Id \cup {Reply})
    BY <1>3, <2>1, Appended DEF Base, TypeOK, Write
  <2>3. QED
    BY <1>3, <2>2, SMT DEF Base, TypeOK, Write
<1>4. CASE WriteFails(c) \/ Retire(c)
  <2>1. PICK state \in Discard :
           /\ mine[c] \in Id
           /\ <<mine[c]>> \in Seq(Id) /\ Len(<<mine[c]>>) = 1 /\ ToSet(<<mine[c]>>) = {mine[c]}
           /\ pending' = pending \ {mine[c]}
           /\ SetStates(<<mine[c]>>, state, {})
           /\ Leave(c)
           /\ UNCHANGED <<issued, fatal, closing, readerVars, serverVars>>
    BY <1>4, WithdrawsBase
  <2>2. retired' \in Seq(Id) /\ Len(retired') <= Retain /\ states' \in [Id -> RequestState]
    <3>1. {} \in SUBSET Id
      OBVIOUS
    <3>2. QED
      BY <2>1, <3>1, Retires DEF Base
  <2>3. QED
    BY <2>1, <2>2, Left DEF Base, TypeOK
<1>5. CASE GetObserved(c)
  <2>1. Tail(queue[c]) \in Seq(Item)
    BY <1>5, Beheaded DEF Base, TypeOK, GetObserved
  <2>2. QED
    BY <1>5, <2>1 DEF Base, TypeOK, GetObserved
<1>6. CASE GetAnswer(c)
  <2>1. Tail(queue[c]) \in Seq(Item)
    BY <1>6, Beheaded DEF Base, TypeOK, GetAnswer
  <2>2. QED
    BY <1>6, <2>1 DEF Base, TypeOK, GetAnswer
<1>7. CASE GetFailure(c) \/ Return(c)
  <2>1. Leave(c) /\ UNCHANGED <<tableVars, fatal, closing, readerVars, serverVars>>
    BY <1>7 DEF GetFailure, Return
  <2>2. QED
    BY <2>1, Left DEF Base, TypeOK
<1>8. CASE Expire(c)
  BY <1>8 DEF Base, TypeOK, Expire
<1>9. QED
  BY <1>1, <1>2, <1>3, <1>4, <1>5, <1>6, <1>7, <1>8 DEF Requests, Gets

LEMMA ReaderTypes ==
  ASSUME Base, Reader
  PROVE  TypeOK'
<1> USE DEF threadVars, tableVars, readerVars, serverVars
<1>1. CASE ReadAnswer
  <2> DEFINE i == Head(stdout)
  <2>1. i \in Id /\ stdout' = Tail(stdout) /\ stdout' \in Seq(Output)
    BY <1>1, TakesIn DEF Base, ReadAnswer
  <2> HIDE DEF i
  <2>2. /\ queue' \in [Thread -> Seq(Item)]
        /\ states' \in [Id -> RequestState]
        /\ deferred' \in Seq(Id)
        /\ pending' \subseteq Id
        /\ reader' \in {reader, "stray"}
    <3>1. CASE Observe(i) /\ UNCHANGED <<pending, reader>>
      <4>1. queue' = Put({i}, "observed") /\ "observed" \in Item
        BY <3>1 DEF Observe, Item
      <4>2. queue' \in [Thread -> Seq(Item)]
        BY <4>1, Queues DEF Base
      <4>3. deferred' \in Seq(Id)
        BY <3>1, <2>1, Appended DEF Base, TypeOK, Observe
      <4>4. QED
        BY <3>1, <4>2, <4>3 DEF Base, TypeOK, Observe, RequestState
    <3>2. CASE pending' = pending \ {i} /\ UNCHANGED <<queue, states, deferred, reader>>
      BY <3>2 DEF Base, TypeOK
    <3>3. CASE reader' = "stray" /\ UNCHANGED <<queue, pending, states, deferred>>
      BY <3>3 DEF Base, TypeOK
    <3>4. QED
      BY <1>1, <3>1, <3>2, <3>3 DEF ReadAnswer, i
  <2>3. QED
    BY <1>1, <2>1, <2>2 DEF Base, TypeOK, ReadAnswer
<1>2. CASE ReadAsk \/ ReadGarbage
  <2>1. stdout' \in Seq(Output)
    BY <1>2, TakesIn DEF Base, ReadAsk, ReadGarbage
  <2>2. QED
    BY <1>2, <2>1 DEF Base, TypeOK, ReadAsk, ReadGarbage
<1>3. CASE SendReply
  <2>1. Append(stdin, Reply) \in Seq(Id \cup {Reply})
    BY Appended DEF Base, TypeOK
  <2>2. QED
    BY <1>3, <2>1 DEF Base, TypeOK, SendReply
<1>4. CASE Flush
  <2>1. PICK over \in Seq(Id) : \E settled, released \in SUBSET Id :
           /\ queue' = [c \in Thread |->
                CASE mine[c] \in ToSet(over) -> Append(queue[c], "follow_up_timeout")
                  [] mine[c] \in released -> Append(queue[c], "answer")
                  [] OTHER -> queue[c]]
           /\ pending' = pending \ settled
           /\ SetStates(over, "follow_up_timed_out", released)
           /\ deferred' \in Seq(Id)
           /\ reader' \in {reader, "stray"}
    BY <1>4, Flushes
  <2>2. PICK settled, released \in SUBSET Id :
           /\ queue' = [c \in Thread |->
                CASE mine[c] \in ToSet(over) -> Append(queue[c], "follow_up_timeout")
                  [] mine[c] \in released -> Append(queue[c], "answer")
                  [] OTHER -> queue[c]]
           /\ pending' = pending \ settled
           /\ SetStates(over, "follow_up_timed_out", released)
           /\ deferred' \in Seq(Id)
           /\ reader' \in {reader, "stray"}
    BY <2>1
  <2>3. retired' \in Seq(Id) /\ Len(retired') <= Retain /\ states' \in [Id -> RequestState]
    BY <2>2, Retires DEF Base, Discard
  <2>4. \A c \in Thread : /\ queue[c] \in Seq(Item)
                          /\ Append(queue[c], "follow_up_timeout") \in Seq(Item)
                          /\ Append(queue[c], "answer") \in Seq(Item)
    BY Appended DEF Base, TypeOK, Item
  <2>5. queue' \in [Thread -> Seq(Item)]
    BY <2>2, <2>4
  <2>6. UNCHANGED <<at, mine, seen, issued, fatal, closing, telling, serverVars>>
    BY <1>4 DEF Flush
  <2>7. QED
    BY <2>2, <2>3, <2>5, <2>6 DEF Base, TypeOK
<1>5. CASE ReadEnd \/ EndQuietly
  BY <1>5 DEF Base, TypeOK, ReadEnd, EndQuietly
<1>6. CASE Condemn
  BY <1>6 DEF Base, TypeOK, Condemn
<1>7. CASE Tell
  <2>1. PICK i \in telling : queue' = Put({i}, "fatal") /\ telling' = telling \ {i}
    BY <1>7 DEF Tell
  <2>2. queue' \in [Thread -> Seq(Item)]
    BY <2>1, Queues DEF Base, Item
  <2>3. QED
    BY <1>7, <2>1, <2>2 DEF Base, TypeOK, Tell
<1>8. QED
  BY <1>1, <1>2, <1>3, <1>4, <1>5, <1>6, <1>7 DEF Reader

LEMMA ServerTypes ==
  ASSUME Base, Server
  PROVE  TypeOK'
<1> USE DEF threadVars, tableVars, readerVars, Serving
<1>1. CASE ServerTakes
  <2>1. Tail(stdin) \in Seq(Id \cup {Reply})
    BY <1>1, Beheaded DEF Base, TypeOK, ServerTakes
  <2>2. QED
    BY <1>1, <2>1 DEF Base, TypeOK, ServerTakes
<1>2. \A m \in Output : Append(stdout, m) \in Seq(Output)
  BY Appended DEF Base, TypeOK
<1>3. CASE ServerAnswers
  <2>1. PICK i \in todo : ServerWrites(i) /\ todo' = todo \ {i}
    BY <1>3 DEF ServerAnswers
  <2>2. i \in Output
    BY <2>1 DEF Base, TypeOK, Output
  <2>3. stdout' \in Seq(Output)
    BY <1>2, <2>1, <2>2 DEF ServerWrites
  <2>4. QED
    BY <1>3, <2>1, <2>3 DEF Base, TypeOK, ServerAnswers, ServerWrites
<1>4. CASE ServerStrays \/ ServerAsks \/ ServerGarbles
  <2>1. \E m \in Output : ServerWrites(m)
    BY <1>4 DEF ServerStrays, ServerAsks, ServerGarbles, Output
  <2>2. \E deed \in AllConduct : Does(deed)
    BY <1>4 DEF ServerStrays, ServerAsks, ServerGarbles, AllConduct
  <2>3. stdout' \in Seq(Output) /\ UNCHANGED <<server, stdin>>
    BY <1>2, <2>1 DEF ServerWrites
  <2>4. deeds' \subseteq AllConduct
    BY <2>2 DEF Base, TypeOK, Does
  <2>5. UNCHANGED todo /\ Serving
    BY <1>4 DEF ServerStrays, ServerAsks, ServerGarbles
  <2>6. QED
    BY <2>3, <2>4, <2>5 DEF Base, TypeOK
<1>5. CASE ServerExits
  <2>1. <<>> \in Seq(Id \cup {Reply})
    BY EmptySeq
  <2>2. deeds' \subseteq AllConduct
    BY <1>5 DEF Base, TypeOK, ServerExits, Does, AllConduct
  <2>3. QED
    BY <1>5, <2>1, <2>2 DEF Base, TypeOK, ServerExits, Dies
<1>6. QED
  BY <1>1, <1>3, <1>4, <1>5 DEF Server

LEMMA ClosesTypes ==
  ASSUME Base, Closes
  PROVE  TypeOK'
<1> USE DEF threadVars, readerVars, CloseStep
<1>1. CASE CloseFlags \/ CloseStdin
  BY <1>1 DEF Base, TypeOK, CloseFlags, CloseStdin
<1>2. CASE CloseTables
  <2>1. <<>> \in Seq(Id) /\ Len(<<>>) <= Retain
    BY EmptySeq, McpAssumption, SMT
  <2>2. states' \in [Id -> RequestState]
    BY <1>2 DEF CloseTables, RequestState
  <2>3. QED
    BY <1>2, <2>1, <2>2 DEF Base, TypeOK, CloseTables
<1>3. CASE CloseProcess
  <2>1. <<>> \in Seq(Id \cup {Reply})
    BY EmptySeq
  <2>2. QED
    BY <1>3, <2>1 DEF Base, TypeOK, CloseProcess, Dies
<1>4. QED
  BY <1>1, <1>2, <1>3 DEF Closes

LEMMA Types ==
  ASSUME Base, [Next]_vars
  PROVE  TypeOK'
<1>1. CASE UNCHANGED vars
  BY <1>1 DEF Base, TypeOK, vars, threadVars, tableVars, readerVars, serverVars
<1>2. QED
  BY <1>1, RequestsTypes, ReaderTypes, ServerTypes, ClosesTypes DEF Next

\* Two threads never have the same request: ids are given out once.
LEMMA OwnersKept ==
  ASSUME Base, [Next]_vars
  PROVE  Owners'
<1> USE DEF threadVars, tableVars, readerVars, serverVars
<1>1. CASE UNCHANGED <<at, mine, issued>>
  BY <1>1 DEF Base, Owners
<1>2. ASSUME NEW c \in Thread, Requests(c)
      PROVE  Owners'
  <2>1. mine \in [Thread -> 0 .. MaxRequests] /\ issued \in Nat
    BY SMT, McpAssumption DEF Base, TypeOK
  <2>2. CASE Register(c)
    <3>1. /\ mine[c] = 0 /\ issued' = issued + 1
          /\ mine' = [mine EXCEPT ![c] = issued + 1]
          /\ at' = [at EXCEPT ![c] = "write"]
      BY <2>2 DEF Register, Base, Owners
    <3>2. \A d \in Thread : mine[d] \in Nat /\ mine[d] <= issued
      BY <2>1, SMT, McpAssumption DEF Base, Owners
    <3>3. QED
      BY <3>1, <3>2, <2>1, SMT DEF Base, Owners, TypeOK
  <2>3. CASE Leave(c) /\ UNCHANGED issued
    BY <2>1, <2>3, SMT DEF Leave, Base, Owners, TypeOK
  <2>4. CASE Call(c)
    BY <2>4 DEF Call, Base, Owners, TypeOK
  <2>5. CASE Write(c) \/ GetAnswer(c) \/ Expire(c)
    <3>1. PICK place \in {"wait", "check", "retire"} :
            at' = [at EXCEPT ![c] = place] /\ at[c] \notin {"idle", "begun"}
      BY <2>5 DEF Write, GetAnswer, Expire
    <3>2. UNCHANGED <<mine, issued>>
      BY <2>5 DEF Write, GetAnswer, Expire
    <3>3. QED
      BY <3>1, <3>2 DEF Base, Owners, TypeOK
  <2>6. CASE GetObserved(c)
    BY <2>6, <1>1 DEF GetObserved
  <2>7. QED
    BY <1>2, <2>2, <2>3, <2>4, <2>5, <2>6
       DEF Requests, Gets, WriteFails, GetFailure, Return, Retire
<1>3. CASE Reader
  BY <1>3, <1>1 DEF Reader, ReadAnswer, ReadAsk, SendReply, ReadGarbage, Flush, ReadEnd, Condemn,
                    Tell, EndQuietly
<1>4. CASE Closes \/ Server
  BY <1>4, <1>1 DEF Closes, CloseFlags, CloseTables, CloseStdin, CloseProcess, CloseStep,
                    Server, ServerTakes, ServerAnswers, ServerStrays, ServerAsks, ServerGarbles,
                    ServerExits, Serving
<1>5. QED
  BY <1>1, <1>2, <1>3, <1>4 DEF Next, vars

\* The steps of the requesting threads that leave the tables alone.
LEMMA Bystanders ==
  ASSUME NEW c \in Thread, Requests(c), ~Register(c), ~WriteFails(c), ~Retire(c)
  PROVE  UNCHANGED <<tableVars, fatal, closing, readerVars>>
BY DEF Requests, Call, Write, Gets, GetObserved, GetAnswer, GetFailure, Return, Expire,
       threadVars, tableVars, readerVars, serverVars

LEMMA Outside ==
  ASSUME Server
  PROVE  UNCHANGED <<threadVars, tableVars, fatal, closing, readerVars>>
BY DEF Server, ServerTakes, ServerAnswers, ServerStrays, ServerAsks, ServerGarbles, ServerExits,
       Serving

\* A request in the tables waits: those that are over leave them (_pending.pop).
LEMMA TablesKept ==
  ASSUME Base, [Next]_vars
  PROVE  Tables'
<1> USE DEF threadVars, tableVars, readerVars, serverVars
<1>1. CASE UNCHANGED <<issued, pending, states>> /\ telling' \subseteq telling
  BY <1>1 DEF Base, Tables
<1>2. issued \in Nat /\ pending \subseteq Id /\ states \in [Id -> RequestState]
  BY McpAssumption, SMT DEF Base, TypeOK
\* An action that takes requests out of the tables and calls _set_request_state_locked.
<1>3. ASSUME NEW over \in Seq(Id), NEW state \in Discard, NEW done \in SUBSET Id,
             SetStates(over, state, done), pending' \subseteq pending,
             pending' \cap (ToSet(over) \cup done) = {},
             UNCHANGED <<issued, telling>>
      PROVE  Tables'
  <2>1. \A i \in Id : i \notin ToSet(over) \cup done =>
          states'[i] = states[i] \/ (states[i] \in Discard /\ states'[i] = "none")
    BY <1>3, Retires DEF Base
  <2>2. ASSUME NEW i \in pending'
        PROVE  states'[i] \in {"awaiting_response", "awaiting_follow_up"}
    <3>1. i \in Id /\ i \notin ToSet(over) \cup done /\ i \in pending
      BY <1>2, <1>3, <2>2
    <3>2. states[i] \in {"awaiting_response", "awaiting_follow_up"}
      BY <3>1 DEF Base, Tables
    <3>3. QED
      BY <2>1, <3>1, <3>2 DEF Discard
  <2>3. QED
    BY <1>3, <2>2 DEF Base, Tables
<1>4. ASSUME NEW c \in Thread, Requests(c)
      PROVE  Tables'
  <2>1. CASE Register(c)
    <3>1. /\ pending' = pending \cup {issued + 1} /\ issued' = issued + 1
          /\ states' = [states EXCEPT ![issued + 1] = "awaiting_response"]
          /\ UNCHANGED telling
      BY <2>1 DEF Register
    <3>2. 1 .. issued \subseteq 1 .. issued + 1 /\ issued + 1 \in 1 .. issued + 1
      BY <1>2, SMT
    <3>3. \A i \in pending' : states'[i] \in {"awaiting_response", "awaiting_follow_up"}
      <4>1. issued + 1 \in Id
        BY <2>1, <1>2, McpAssumption, SMT DEF Register, Id
      <4>2. \A i \in Id : states'[i] = IF i = issued + 1 THEN "awaiting_response" ELSE states[i]
        BY <3>1, <1>2
      <4>3. QED
        BY <3>1, <4>1, <4>2, <1>2 DEF Base, Tables
    <3>4. QED
      BY <3>1, <3>2, <3>3 DEF Base, Tables
  <2>2. CASE WriteFails(c) \/ Retire(c)
    <3>1. PICK state \in Discard :
           /\ mine[c] \in Id
           /\ <<mine[c]>> \in Seq(Id) /\ Len(<<mine[c]>>) = 1 /\ ToSet(<<mine[c]>>) = {mine[c]}
           /\ pending' = pending \ {mine[c]}
           /\ SetStates(<<mine[c]>>, state, {})
           /\ Leave(c)
           /\ UNCHANGED <<issued, fatal, closing, readerVars, serverVars>>
      BY <2>2, WithdrawsBase
    <3>2. {} \in SUBSET Id /\ pending' \cap (ToSet(<<mine[c]>>) \cup {}) = {}
      BY <3>1
    <3>3. QED
      BY <3>1, <3>2, <1>3
  <2>3. CASE ~Register(c) /\ ~WriteFails(c) /\ ~Retire(c)
    BY <2>3, <1>4, Bystanders, <1>1
  <2>4. QED
    BY <2>1, <2>2, <2>3
<1>5. CASE Reader
  <2>1. CASE ReadAnswer
    <3> DEFINE i == Head(stdout)
    <3>1. UNCHANGED <<issued, telling>>
      BY <2>1 DEF ReadAnswer
    <3>2. \/ Observe(i) /\ UNCHANGED pending
          \/ pending' = pending \ {i} /\ UNCHANGED states
          \/ UNCHANGED <<pending, states>>
      BY <2>1 DEF ReadAnswer
    <3> HIDE DEF i
    <3>3. CASE Observe(i) /\ UNCHANGED pending
      BY <3>1, <3>3, <1>2 DEF Observe, Base, Tables
    <3>4. CASE pending' \subseteq pending /\ UNCHANGED states
      BY <3>1, <3>4 DEF Base, Tables
    <3>5. QED
      BY <3>2, <3>3, <3>4
  <2>2. CASE Flush
    <3>1. PICK over \in Seq(Id) : \E settled, released \in SUBSET Id :
             /\ ToSet(over) \cup released \subseteq settled
             /\ pending' = pending \ settled
             /\ SetStates(over, "follow_up_timed_out", released)
      <4>1. PICK over \in Seq(Id) : \E settled, released \in SUBSET Id :
               /\ ToSet(over) \cup released = {i \in settled : Held(i)}
               /\ pending' = pending \ settled
               /\ SetStates(over, "follow_up_timed_out", released)
        BY <2>2, Flushes
      <4>2. QED
        BY <4>1
    <3>2. PICK settled, released \in SUBSET Id :
             /\ ToSet(over) \cup released \subseteq settled
             /\ pending' = pending \ settled
             /\ SetStates(over, "follow_up_timed_out", released)
      BY <3>1
    <3>3. UNCHANGED <<issued, telling>>
      BY <2>2 DEF Flush
    <3>4. "follow_up_timed_out" \in Discard
      BY DEF Discard
    <3>5. pending' \subseteq pending /\ pending' \cap (ToSet(over) \cup released) = {}
      BY <3>2
    <3>6. QED
      BY <3>2, <3>3, <3>4, <3>5, <1>3
  <2>3. CASE Condemn
    BY <2>3 DEF Condemn, Base, Tables
  <2>4. CASE Tell
    BY <2>4, <1>1 DEF Tell
  <2>5. CASE ReadAsk \/ SendReply \/ ReadGarbage \/ ReadEnd \/ EndQuietly
    BY <2>5, <1>1 DEF ReadAsk, SendReply, ReadGarbage, ReadEnd, EndQuietly
  <2>6. QED
    BY <1>5, <2>1, <2>2, <2>3, <2>4, <2>5 DEF Reader
<1>6. CASE Closes
  <2>1. CASE CloseTables
    BY <2>1 DEF CloseTables, CloseStep, Base, Tables
  <2>2. CASE CloseFlags \/ CloseStdin \/ CloseProcess
    BY <2>2, <1>1 DEF CloseFlags, CloseStdin, CloseProcess, CloseStep
  <2>3. QED
    BY <1>6, <2>1, <2>2 DEF Closes
<1>7. CASE Server
  BY <1>7, Outside, <1>1
<1>8. CASE UNCHANGED vars
  BY <1>8, <1>1 DEF vars
<1>9. QED
  BY <1>4, <1>5, <1>6, <1>7, <1>8 DEF Next

\* An answer is held back once (deferred_responses is a dict).
LEMMA OnceDeferred ==
  ASSUME Base, [Next]_vars
  PROVE  IsInjective(deferred')
<1> USE DEF threadVars, tableVars, readerVars, serverVars
<1>1. CASE UNCHANGED deferred
  BY <1>1 DEF Base
<1>2. CASE Flush
  BY <1>2, Flushes
<1>3. CASE ReadAnswer
  <2> DEFINE i == Head(stdout)
  <2>1. CASE First(i) /\ Observe(i)
    <3>1. deferred' = Append(deferred, i) /\ i \notin ToSet(deferred)
      BY <2>1 DEF First, Observe
    <3>2. i \in Id /\ deferred \in Seq(Id) /\ IsInjective(deferred)
      BY <1>3, TakesIn DEF Base, TypeOK, ReadAnswer
    <3> HIDE DEF i
    <3>3. /\ deferred' \in Seq(Id)
          /\ Len(deferred) \in Nat /\ Len(deferred') = Len(deferred) + 1
          /\ \A k \in 1 .. Len(deferred) : deferred'[k] = deferred[k]
          /\ deferred'[Len(deferred) + 1] = i
      BY <3>1, <3>2, LenProperties, SMT
    <3>4. DOMAIN deferred' = 1 .. Len(deferred) + 1 /\ DOMAIN deferred = 1 .. Len(deferred)
      BY <3>2, <3>3, LenProperties
    <3>5. \A k \in 1 .. Len(deferred) : deferred'[k] # i
      BY <3>1, <3>3, <3>4 DEF ToSet
    <3>6. \A k \in DOMAIN deferred' : k \in 1 .. Len(deferred) \/ k = Len(deferred) + 1
      BY <3>3, <3>4, SMT
    <3>7. QED
      BY <3>2, <3>3, <3>4, <3>5, <3>6 DEF IsInjective
  <2>2. QED
    BY <1>3, <2>1, <1>1 DEF ReadAnswer
<1>4. CASE Reader /\ ~Flush /\ ~ReadAnswer
  BY <1>4, <1>1 DEF Reader, ReadAsk, SendReply, ReadGarbage, ReadEnd, Condemn, Tell, EndQuietly
<1>5. ASSUME NEW c \in Thread, Requests(c)
      PROVE  UNCHANGED deferred
  BY <1>5, Bystanders DEF Register, WriteFails, Retire
<1>6. CASE Closes
  BY <1>6, <1>1 DEF Closes, CloseFlags, CloseTables, CloseStdin, CloseProcess, CloseStep
<1>7. CASE Server
  BY <1>7, Outside, <1>1
<1>8. CASE UNCHANGED vars
  BY <1>8, <1>1 DEF vars
<1>9. QED
  BY <1>1, <1>2, <1>3, <1>4, <1>5, <1>6, <1>7, <1>8 DEF Next

LEMMA BaseInit == Init => Base
<1>1. \A S : <<>> \in Seq(S) /\ Len(<<>>) = 0
  BY EmptySeq
<1>2. DOMAIN <<>> = {}
  BY <1>1, LenProperties, SMT
<1>3. 0 \in 0 .. MaxRequests /\ 0 <= Retain
  BY McpAssumption, SMT
<1>4. ASSUME Init PROVE TypeOK
  BY <1>1, <1>3, <1>4 DEF Init, TypeOK, RequestState
<1>5. ASSUME Init PROVE Owners /\ Tables
  BY <1>5 DEF Init, Owners, Tables
<1>6. ASSUME Init PROVE IsInjective(deferred)
  BY <1>6, <1>2 DEF Init, IsInjective
<1>7. QED
  BY <1>4, <1>5, <1>6 DEF Base

LEMMA BaseStep == Base /\ [Next]_vars => Base'
BY Types, OwnersKept, TablesKept, OnceDeferred DEF Base

-----------------------------------------------------------------------------
(* The second layer *)

\* _set_request_state_locked makes nothing wait for a follow-up.
LEMMA NoneHeldAnew ==
  ASSUME TypeOK, NEW over \in Seq(Id), NEW state \in Discard, NEW done \in SUBSET Id,
         SetStates(over, state, done), pending' \subseteq pending
  PROVE  \A i \in Id : Held(i)' => Held(i)
<1>1. /\ \A i \in Id : i \notin ToSet(over) \cup done =>
           states'[i] = states[i] \/ (states[i] \in Discard /\ states'[i] = "none")
      /\ \A i \in ToSet(over) \ done : states'[i] \in {"none", state}
      /\ \A i \in done : states'[i] = "none"
  BY Retires
<1>2. "awaiting_follow_up" # "none" /\ "awaiting_follow_up" # state
  BY DEF Discard
<1>3. QED
  BY <1>1, <1>2 DEF Held

\* A thread's own steps, seen by the others: their requests stay where they are.
LEMMA OthersStay ==
  ASSUME Base, NEW d \in Thread, Requests(d), NEW c \in Thread, c # d
  PROVE  /\ at'[c] = at[c] /\ mine'[c] = mine[c] /\ queue'[c] = queue[c]
         /\ at[c] \in {"write", "wait"} => (mine[c] \in pending => mine[c] \in pending')
         /\ UNCHANGED telling
<1> USE DEF threadVars, tableVars, readerVars, serverVars
<1>1. at'[c] = at[c] /\ mine'[c] = mine[c] /\ queue'[c] = queue[c]
  BY SMT DEF Base, TypeOK, Requests, Call, Register, Write, WriteFails, Gets, GetObserved, GetAnswer,
         GetFailure, Return, Expire, Retire, Leave
<1>2. pending \ {mine[d]} \subseteq pending' /\ UNCHANGED telling
  BY Bystanders DEF Register, WriteFails, Retire
<1>3. at[c] \in {"write", "wait"} => mine[c] # 0
  BY DEF Base, Owners
<1>4. mine[c] = mine[d] => mine[c] = 0
  BY DEF Base, Owners
<1>5. QED
  BY <1>1, <1>2, <1>3, <1>4

LEMMA RequestsAttend ==
  ASSUME Base, Attended, NEW d \in Thread, Requests(d), closing \in {"open", "flagged"},
         NEW c \in Thread, at'[c] \in {"write", "wait"}
  PROVE  Attends(c)'
<1> USE DEF threadVars, tableVars, readerVars, serverVars
<1>1. CASE c # d
  <2>1. /\ at'[c] = at[c] /\ mine'[c] = mine[c] /\ queue'[c] = queue[c]
        /\ at[c] \in {"write", "wait"} => (mine[c] \in pending => mine[c] \in pending')
        /\ UNCHANGED telling
    BY <1>1, OthersStay
  <2>2. Attends(c)
    BY <2>1 DEF Attended
  <2>3. QED
    BY <2>1, <2>2 DEF Attends
<1>2. CASE c = d
  <2>1. at \in [Thread -> {"idle", "begun", "write", "wait", "retire", "check"}]
        /\ mine \in [Thread -> 0 .. MaxRequests] /\ queue \in [Thread -> Seq(Item)]
    BY DEF Base, TypeOK
  <2>2. CASE Register(d)
    BY <1>2, <2>1, <2>2 DEF Register, Attends
  <2>3. CASE Write(d)
    <3>1. at[d] = "write" /\ UNCHANGED <<mine, queue, pending, telling>>
      BY <2>3 DEF Write
    <3>2. QED
      BY <1>2, <3>1 DEF Attended, Attends
  <2>4. CASE GetObserved(d)
    <3>1. /\ at[d] = "wait" /\ queue[d] # <<>> /\ Head(queue[d]) = "observed"
          /\ queue' = [queue EXCEPT ![d] = Tail(queue[d])]
          /\ UNCHANGED <<mine, pending, telling>>
      BY <2>4 DEF GetObserved
    <3>2. ToSet(queue[d]) = {"observed"} \cup ToSet(Tail(queue[d]))
      BY <2>1, <3>1, Beheaded
    <3>3. queue'[d] = Tail(queue[d])
      BY <2>1, <3>1
    <3>4. Attends(d)
      BY <3>1 DEF Attended
    <3>5. QED
      BY <1>2, <3>1, <3>2, <3>3, <3>4 DEF Attends, Ends
  <2>5. CASE ~Register(d) /\ ~Write(d) /\ ~GetObserved(d)
    <3>1. at'[d] \in {"idle", "begun", "check", "retire"}
      BY <2>1, <2>5 DEF Requests, Call, WriteFails, Gets, GetAnswer, GetFailure, Return, Expire,
                        Retire, Leave
    <3>2. QED
      BY <1>2, <3>1
  <2>6. QED
    BY <2>2, <2>3, <2>4, <2>5
<1>3. QED
  BY <1>1, <1>2

\* An item that is put into a queue leaves what is in it.
LEMMA PutKeeps ==
  ASSUME TypeOK, NEW ids, NEW item \in Item, queue' = Put(ids, item), NEW c \in Thread
  PROVE  /\ ToSet(queue[c]) \subseteq ToSet(queue'[c])
         /\ mine[c] \in ids => item \in ToSet(queue'[c])
<1>1. queue'[c] = IF mine[c] \in ids THEN Append(queue[c], item) ELSE queue[c]
  BY Queues
<1>2. queue[c] \in Seq(Item)
  BY DEF TypeOK
<1>3. ToSet(Append(queue[c], item)) = ToSet(queue[c]) \cup {item}
  BY <1>2, Appended
<1>4. QED
  BY <1>1, <1>3

LEMMA ReaderAttends ==
  ASSUME Base, Attended, Reader, closing \in {"open", "flagged"},
         NEW c \in Thread, at'[c] \in {"write", "wait"}
  PROVE  Attends(c)'
<1> USE DEF threadVars, tableVars, readerVars, serverVars
<1>1. UNCHANGED <<at, mine>>
  BY DEF Reader, ReadAnswer, ReadAsk, SendReply, ReadGarbage, Flush, ReadEnd, Condemn, Tell, EndQuietly
<1>2. Attends(c)
  BY <1>1 DEF Attended
<1>3. CASE ReadAnswer
  <2> DEFINE i == Head(stdout)
  <2>1. UNCHANGED telling
    BY <1>3 DEF ReadAnswer
  <2>2. \/ Observe(i) /\ UNCHANGED pending
        \/ Late(i) /\ pending' = pending \ {i} /\ UNCHANGED queue
        \/ UNCHANGED <<queue, pending>>
    BY <1>3 DEF ReadAnswer
  <2> HIDE DEF i
  <2>3. CASE Observe(i) /\ UNCHANGED pending
    <3>1. queue' = Put({i}, "observed") /\ "observed" \in Item
      BY <2>3 DEF Observe, Item
    <3>2. ToSet(queue[c]) \subseteq ToSet(queue'[c])
      BY <3>1, PutKeeps DEF Base
    <3>3. QED
      BY <1>1, <1>2, <2>1, <2>3, <3>2 DEF Attends
  <2>4. CASE Late(i) /\ pending' = pending \ {i} /\ UNCHANGED queue
    <3>1. i \notin pending
      BY <2>4 DEF Late, Discard, Base, Tables
    <3>2. QED
      BY <1>1, <1>2, <2>1, <2>4, <3>1 DEF Attends
  <2>5. CASE UNCHANGED <<queue, pending>>
    BY <1>1, <1>2, <2>1, <2>5 DEF Attends
  <2>6. QED
    BY <2>2, <2>3, <2>4, <2>5
<1>4. CASE Flush
  <2>1. PICK over \in Seq(Id) : \E settled, released \in SUBSET Id :
           /\ \A i \in settled : ~Unknown(i)
           /\ ToSet(over) \cup released = {i \in settled : Held(i)}
           /\ queue' = [d \in Thread |->
                CASE mine[d] \in ToSet(over) -> Append(queue[d], "follow_up_timeout")
                  [] mine[d] \in released -> Append(queue[d], "answer")
                  [] OTHER -> queue[d]]
           /\ pending' = pending \ settled
    BY <1>4, Flushes
  <2>2. PICK settled, released \in SUBSET Id :
           /\ \A i \in settled : ~Unknown(i)
           /\ ToSet(over) \cup released = {i \in settled : Held(i)}
           /\ queue' = [d \in Thread |->
                CASE mine[d] \in ToSet(over) -> Append(queue[d], "follow_up_timeout")
                  [] mine[d] \in released -> Append(queue[d], "answer")
                  [] OTHER -> queue[d]]
           /\ pending' = pending \ settled
    BY <2>1
  <2>3. UNCHANGED telling
    BY <1>4 DEF Flush
  <2>4. queue[c] \in Seq(Item) /\ "follow_up_timeout" \in Item /\ "answer" \in Item
    BY DEF Base, TypeOK, Item
  <2>5. /\ ToSet(Append(queue[c], "follow_up_timeout")) = ToSet(queue[c]) \cup {"follow_up_timeout"}
        /\ ToSet(Append(queue[c], "answer")) = ToSet(queue[c]) \cup {"answer"}
    BY <2>4, Appended
  <2>6. \/ mine[c] \in ToSet(over) \cup released /\ ToSet(queue'[c]) \cap Ends # {}
        \/ mine[c] \notin ToSet(over) \cup released /\ queue'[c] = queue[c]
    <3>1. CASE mine[c] \in ToSet(over)
      BY <3>1, <2>2, <2>5 DEF Ends
    <3>2. CASE mine[c] \notin ToSet(over) /\ mine[c] \in released
      BY <3>2, <2>2, <2>5 DEF Ends
    <3>3. CASE mine[c] \notin ToSet(over) \cup released
      BY <3>3, <2>2
    <3>4. QED
      BY <3>1, <3>2, <3>3
  <2>7. CASE mine[c] \in ToSet(over) \cup released
    BY <2>6, <2>7 DEF Attends
  <2>8. CASE mine[c] \notin ToSet(over) \cup released
    <3>1. mine[c] \notin settled \/ mine[c] \notin pending
      <4>1. SUFFICES ASSUME mine[c] \in settled, mine[c] \in pending
                     PROVE  FALSE
        OBVIOUS
      <4>2. ~Held(mine[c]) /\ ~Unknown(mine[c])
        BY <4>1, <2>2, <2>8
      <4>3. states[mine[c]] \in Discard
        BY <4>2 DEF Unknown
      <4>4. QED
        BY <4>1, <4>3 DEF Discard, Base, Tables
    <3>2. QED
      BY <3>1, <1>1, <1>2, <2>2, <2>3, <2>6, <2>8 DEF Attends
  <2>9. QED
    BY <2>7, <2>8
<1>5. CASE Condemn
  <2>1. telling = {}
    BY <1>5 DEF Condemn, Attended
  <2>2. UNCHANGED queue
    BY <1>5 DEF Condemn
  <2>3. pending' \cup telling' = pending
    BY <1>5 DEF Condemn
  <2>4. QED
    BY <1>1, <1>2, <2>1, <2>2, <2>3 DEF Attends
<1>6. CASE Tell
  <2>1. PICK i \in telling : queue' = Put({i}, "fatal") /\ telling' = telling \ {i}
    BY <1>6 DEF Tell
  <2>2. UNCHANGED pending /\ "fatal" \in Item /\ "fatal" \in Ends
    BY <1>6 DEF Tell, Item, Ends
  <2>3. ToSet(queue[c]) \subseteq ToSet(queue'[c]) /\ (mine[c] = i => "fatal" \in ToSet(queue'[c]))
    BY <2>1, <2>2, PutKeeps DEF Base
  <2>4. QED
    BY <1>1, <1>2, <2>1, <2>2, <2>3 DEF Attends
<1>7. CASE ReadAsk \/ SendReply \/ ReadGarbage \/ ReadEnd \/ EndQuietly
  <2>1. UNCHANGED <<queue, pending, telling>>
    BY <1>7 DEF ReadAsk, SendReply, ReadGarbage, ReadEnd, EndQuietly
  <2>2. QED
    BY <1>1, <1>2, <2>1 DEF Attends
<1>8. QED
  BY <1>3, <1>4, <1>5, <1>6, <1>7 DEF Reader

\* An answer that a request waits for is in the reader's hands.
LEMMA HandsFull ==
  ASSUME Base, Attended, [Next]_vars, fatal' = "none"
  PROVE  \A i \in Id : Held(i)' => i \in ToSet(deferred')
<1> USE DEF threadVars, tableVars, readerVars, serverVars
<1>1. fatal = "none"
  <2>1. CASE Condemn
    BY <2>1 DEF Condemn
  <2>2. CASE UNCHANGED fatal
    BY <2>2
  <2>3. QED
    BY <2>1, <2>2, Outside, Bystanders
       DEF Next, vars, Register, WriteFails, Retire, Reader, ReadAnswer, ReadAsk, SendReply, ReadGarbage,
           Flush, ReadEnd, Tell, EndQuietly, Closes, CloseFlags, CloseTables, CloseStdin, CloseProcess,
           CloseStep
<1>2. \A i \in Id : Held(i) => i \in ToSet(deferred)
  BY <1>1 DEF Attended
<1>3. CASE UNCHANGED deferred /\ \A i \in Id : Held(i)' => Held(i)
  BY <1>2, <1>3
<1>4. CASE UNCHANGED deferred /\ pending' \subseteq pending /\ UNCHANGED states
  BY <1>2, <1>4 DEF Held
<1>5. ASSUME NEW c \in Thread, Requests(c)
      PROVE  \A i \in Id : Held(i)' => i \in ToSet(deferred')
  <2>1. CASE Register(c)
    <3>1. /\ pending' = pending \cup {issued + 1} /\ UNCHANGED deferred
          /\ states' = [states EXCEPT ![issued + 1] = "awaiting_response"]
      BY <2>1 DEF Register
    <3>2. \A i \in Id : states'[i] = IF i = issued + 1 THEN "awaiting_response" ELSE states[i]
      BY <3>1 DEF Base, TypeOK
    <3>3. QED
      BY <3>1, <3>2, <1>3 DEF Held
  <2>2. CASE WriteFails(c) \/ Retire(c)
    <3>1. PICK state \in Discard :
           /\ <<mine[c]>> \in Seq(Id)
           /\ pending' = pending \ {mine[c]}
           /\ SetStates(<<mine[c]>>, state, {})
           /\ UNCHANGED deferred
      BY <2>2, WithdrawsBase
    <3>2. {} \in SUBSET Id /\ pending' \subseteq pending
      BY <3>1
    <3>3. \A i \in Id : Held(i)' => Held(i)
      BY <3>1, <3>2, NoneHeldAnew DEF Base
    <3>4. QED
      BY <3>1, <3>3, <1>3
  <2>3. CASE ~Register(c) /\ ~WriteFails(c) /\ ~Retire(c)
    BY <2>3, <1>5, Bystanders, <1>4
  <2>4. QED
    BY <2>1, <2>2, <2>3
<1>6. CASE ReadAnswer
  <2> DEFINE j == Head(stdout)
  <2>1. \/ Observe(j) /\ UNCHANGED pending
        \/ pending' = pending \ {j} /\ UNCHANGED <<states, deferred>>
        \/ UNCHANGED <<states, pending, deferred>>
    BY <1>6 DEF ReadAnswer
  <2>2. j \in Id /\ deferred \in Seq(Id) /\ states \in [Id -> RequestState]
    BY <1>6, TakesIn DEF Base, TypeOK, ReadAnswer
  <2> HIDE DEF j
  <2>3. CASE Observe(j) /\ UNCHANGED pending
    <3>1. /\ deferred' = Append(deferred, j)
          /\ states' = [states EXCEPT ![j] = "awaiting_follow_up"]
      BY <2>3 DEF Observe
    <3>2. ToSet(deferred') = ToSet(deferred) \cup {j}
      BY <2>2, <3>1, Appended
    <3>3. \A i \in Id : i # j /\ Held(i)' => Held(i)
      BY <2>2, <2>3, <3>1 DEF Held
    <3>4. QED
      BY <3>2, <3>3, <1>2
  <2>4. QED
    BY <2>1, <2>3, <1>4
<1>7. CASE Flush
  <2>1. PICK over \in Seq(Id) : \E settled, released \in SUBSET Id :
           /\ pending' = pending \ settled
           /\ SetStates(over, "follow_up_timed_out", released)
           /\ \/ ToSet(deferred') = ToSet(deferred) \ settled
              \/ deferred' = deferred
    BY <1>7, Flushes
  <2>2. PICK settled, released \in SUBSET Id :
           /\ pending' = pending \ settled
           /\ SetStates(over, "follow_up_timed_out", released)
           /\ \/ ToSet(deferred') = ToSet(deferred) \ settled
              \/ deferred' = deferred
    BY <2>1
  <2>3. "follow_up_timed_out" \in Discard /\ pending' \subseteq pending
    BY <2>2 DEF Discard
  <2>4. \A i \in Id : Held(i)' => Held(i)
    BY <2>2, <2>3, NoneHeldAnew DEF Base
  <2>5. \A i \in Id : Held(i)' => i \notin settled
    BY <2>2 DEF Held
  <2>6. QED
    BY <2>2, <2>4, <2>5, <1>2
<1>8. CASE Reader /\ ~ReadAnswer /\ ~Flush
  <2>1. UNCHANGED <<deferred, states>> /\ pending' \subseteq pending
    BY <1>8 DEF Reader, ReadAsk, SendReply, ReadGarbage, ReadEnd, Condemn, Tell, EndQuietly
  <2>2. QED
    BY <2>1, <1>4
<1>9. CASE Closes
  <2>1. CASE CloseTables
    BY <2>1 DEF CloseTables, Held
  <2>2. CASE CloseFlags \/ CloseStdin \/ CloseProcess
    BY <2>2, <1>4 DEF CloseFlags, CloseStdin, CloseProcess, CloseStep
  <2>3. QED
    BY <1>9, <2>1, <2>2 DEF Closes
<1>10. CASE Server \/ UNCHANGED vars
  BY <1>10, Outside, <1>4 DEF vars
<1>11. QED
  BY <1>5, <1>6, <1>7, <1>8, <1>9, <1>10 DEF Next

LEMMA AttendedStep == Base /\ Attended /\ [Next]_vars => Attended'
<1> SUFFICES ASSUME Base, Attended, [Next]_vars PROVE Attended'
  OBVIOUS
<1> USE DEF threadVars, tableVars, readerVars, serverVars
<1>1. ASSUME closing' \in {"open", "flagged"}, NEW c \in Thread, at'[c] \in {"write", "wait"}
      PROVE  Attends(c)'
  <2>1. CASE Closes
    <3>1. CASE CloseFlags
      <4>1. closing \in {"open", "flagged"} /\ UNCHANGED <<at, mine, queue, pending, telling>>
        BY <3>1 DEF CloseFlags, CloseStep
      <4>2. QED
        BY <4>1, <1>1 DEF Attended, Attends
    <3>2. CASE CloseTables \/ CloseStdin \/ CloseProcess
      BY <3>2, <1>1 DEF CloseTables, CloseStdin, CloseProcess, CloseStep
    <3>3. QED
      BY <2>1, <3>1, <3>2 DEF Closes
  <2>2. ASSUME NEW d \in Thread, Requests(d)
        PROVE  UNCHANGED closing
    BY <2>2, Bystanders DEF Register, WriteFails, Retire
  <2>3. CASE Reader
    <3>1. UNCHANGED closing
      BY <2>3 DEF Reader, ReadAnswer, ReadAsk, SendReply, ReadGarbage, Flush, ReadEnd, Condemn, Tell,
                  EndQuietly
    <3>2. QED
      BY <3>1, <2>3, <1>1, ReaderAttends
  <2>4. CASE Server \/ UNCHANGED vars
    <3>1. UNCHANGED <<at, mine, queue, pending, telling, closing>>
      BY <2>4, Outside DEF vars
    <3>2. QED
      BY <3>1, <1>1 DEF Attended, Attends
  <2>5. QED
    BY <1>1, <2>1, <2>2, <2>3, <2>4, RequestsAttend DEF Next
<1>2. telling' # {} => reader' \in {"loop", "done"}
  <2>1. CASE UNCHANGED <<telling, reader>>
    BY <2>1 DEF Attended
  <2>2. CASE Reader
    BY <2>2 DEF Attended, Reader, ReadAnswer, ReadAsk, Reads, Reading, SendReply, ReadGarbage, Flush,
                ReadEnd, Condemn, Tell, EndQuietly
  <2>3. ASSUME NEW d \in Thread, Requests(d)
        PROVE  UNCHANGED <<telling, reader>>
    BY <2>3, Bystanders DEF Register, WriteFails, Retire
  <2>4. CASE Closes
    BY <2>4, <2>1 DEF Closes, CloseFlags, CloseTables, CloseStdin, CloseProcess, CloseStep
  <2>5. QED
    BY <2>1, <2>2, <2>3, <2>4, Outside DEF Next, vars
<1>3. QED
  BY <1>1, <1>2, HandsFull DEF Attended

-----------------------------------------------------------------------------
(* The third layer: what is retired *)

LEMMA Some ==
  ASSUME NEW n \in Nat, NEW T \in SUBSET (1 .. n)
  PROVE  IsFiniteSet(T) /\ Cardinality(T) \in Nat /\ Cardinality(T) <= n
<1>1. 1 \in Int /\ n \in Int
  BY SMT
<1>2. IsFiniteSet(1 .. n) /\ Cardinality(1 .. n) = IF 1 > n THEN 0 ELSE n - 1 + 1
  BY <1>1, FS_Interval
<1>3. Cardinality(1 .. n) = n
  BY <1>2, SMT
<1>4. IsFiniteSet(T) /\ Cardinality(T) <= Cardinality(1 .. n)
  BY <1>2, FS_Subset
<1>5. QED
  BY <1>3, <1>4, FS_CardinalityType

LEMMA Sizes ==
  ASSUME TypeOK
  PROVE  /\ IsFiniteSet(Out) /\ Cardinality(Out) \in Nat
         /\ IsFiniteSet(Gone) /\ Cardinality(Gone) \in Nat
         /\ Cardinality(Out) <= issued /\ Cardinality(Gone) <= issued
         /\ issued \in Nat /\ issued <= MaxRequests
<1>1. issued \in Nat /\ issued <= MaxRequests
  BY McpAssumption, SMT DEF TypeOK
<1>2. Out \in SUBSET (1 .. issued) /\ Gone \in SUBSET (1 .. issued)
  BY DEF Out, Gone
<1>3. QED
  BY <1>1, <1>2, Some

LEMMA SizesNext ==
  ASSUME TypeOK'
  PROVE  /\ IsFiniteSet(Out') /\ Cardinality(Out') \in Nat
         /\ IsFiniteSet(Gone') /\ Cardinality(Gone') \in Nat
         /\ Cardinality(Out') <= issued' /\ Cardinality(Gone') <= issued'
         /\ issued' \in Nat /\ issued' <= MaxRequests
<1>1. issued' \in Nat /\ issued' <= MaxRequests
  BY McpAssumption, SMT DEF TypeOK
<1>2. Out' \in SUBSET (1 .. issued') /\ Gone' \in SUBSET (1 .. issued')
  BY DEF Out, Gone
<1>3. QED
  BY <1>1, <1>2, Some

\* More requests are out, and left, than before: so many more may have been retired.
LEMMA CountsUp ==
  ASSUME Base, Base', Counted, NEW n \in Nat, NEW A, NEW B,
         IsFiniteSet(A), IsFiniteSet(B), A \cap Out = {}, B \cap Gone = {},
         Out \cup A \subseteq Out', Gone \cup B \subseteq Gone',
         n <= Cardinality(A) + Cardinality(B)
  PROVE  Len(retired) + n <= Cardinality(Out') + Cardinality(Gone')
<1>1. /\ IsFiniteSet(Out) /\ Cardinality(Out) \in Nat
      /\ IsFiniteSet(Gone) /\ Cardinality(Gone) \in Nat
  BY Sizes DEF Base
<1>2. /\ IsFiniteSet(Out') /\ Cardinality(Out') \in Nat
      /\ IsFiniteSet(Gone') /\ Cardinality(Gone') \in Nat
  BY SizesNext DEF Base
<1>3. Cardinality({}) = 0
  BY FS_EmptySet
<1>4. Cardinality(Out \cup A) = Cardinality(Out) + Cardinality(A) /\ Cardinality(A) \in Nat
  <2>1. Out \cap A = {}
    OBVIOUS
  <2>2. Cardinality(Out \cup A) = Cardinality(Out) + Cardinality(A) - Cardinality(Out \cap A)
    BY <1>1, FS_Union
  <2>3. Cardinality(A) \in Nat /\ Cardinality(Out \cap A) = 0
    BY <1>3, <2>1, FS_CardinalityType
  <2>4. \A i, j, k \in Nat : k = 0 => i + j - k = i + j
    BY SMT
  <2>5. QED
    BY <1>1, <2>2, <2>3, <2>4
<1>5. Cardinality(Gone \cup B) = Cardinality(Gone) + Cardinality(B) /\ Cardinality(B) \in Nat
  <2>1. Gone \cap B = {}
    OBVIOUS
  <2>2. Cardinality(Gone \cup B) = Cardinality(Gone) + Cardinality(B) - Cardinality(Gone \cap B)
    BY <1>1, FS_Union
  <2>3. Cardinality(B) \in Nat /\ Cardinality(Gone \cap B) = 0
    BY <1>3, <2>1, FS_CardinalityType
  <2>4. \A i, j, k \in Nat : k = 0 => i + j - k = i + j
    BY SMT
  <2>5. QED
    BY <1>1, <2>2, <2>3, <2>4
<1>6. Cardinality(Out \cup A) <= Cardinality(Out') /\ Cardinality(Gone \cup B) <= Cardinality(Gone')
  BY <1>2, FS_Subset
<1>7. Len(retired) \in Nat
  BY LenProperties DEF Base, TypeOK
<1>8. QED
  BY <1>1, <1>2, <1>4, <1>5, <1>6, <1>7, SMT DEF Counted

\* No answer to a request comes again once it was taken.
LEMMA SpentStays ==
  ASSUME Base, Base', [Next]_vars, Honest'
  PROVE  Out \subseteq Out'
<1> USE DEF threadVars, tableVars, readerVars, serverVars
<1>1. SUFFICES ASSUME NEW i \in Out PROVE i \in Out'
  OBVIOUS
<1>2. /\ i \in 1 .. issued /\ i \in Id /\ i \in Nat /\ i <= issued /\ i # issued + 1
      /\ issued \in Nat /\ issued <= MaxRequests
  <2>1. i \in 1 .. issued /\ issued \in Nat /\ issued <= MaxRequests
    BY McpAssumption, SMT DEF Base, TypeOK, Out
  <2>2. QED
    BY <2>1, McpAssumption, SMT DEF Id
<1>3. /\ i \notin pending /\ i \notin ToSet(stdin) /\ i \notin todo /\ i \notin ToSet(stdout)
      /\ i \notin ToSet(deferred)
      /\ \A c \in Thread : at[c] = "write" => mine[c] # i
  BY DEF Out, Spent, Travels
<1>4. /\ at \in [Thread -> {"idle", "begun", "write", "wait", "retire", "check"}]
      /\ mine \in [Thread -> 0 .. MaxRequests]
  BY DEF Base, TypeOK
<1>5. /\ stdin \in Seq(Id \cup {Reply}) /\ stdout \in Seq(Output) /\ deferred \in Seq(Id)
      /\ Reply # i /\ Ask # i /\ Garbage # i
      /\ Reply \in Id \cup {Reply} /\ Ask \in Output /\ Garbage \in Output
  BY <1>2, SMT, McpAssumption DEF Base, TypeOK, Reply, Ask, Garbage, Id, Output
<1>6. SUFFICES /\ i \in 1 .. issued'
               /\ i \notin pending' /\ i \notin ToSet(stdin') /\ i \notin todo' /\ i \notin ToSet(stdout')
               /\ i \notin ToSet(deferred')
               /\ \A c \in Thread : at'[c] = "write" => mine'[c] # i
  BY DEF Out, Spent, Travels
<1>7. ASSUME NEW c \in Thread, Requests(c)
      PROVE  /\ i \in 1 .. issued'
             /\ i \notin pending' /\ i \notin ToSet(stdin') /\ i \notin todo' /\ i \notin ToSet(stdout')
             /\ i \notin ToSet(deferred')
             /\ \A d \in Thread : at'[d] = "write" => mine'[d] # i
  <2>1. CASE Register(c)
    <3>1. /\ issued' = issued + 1 /\ pending' = pending \cup {issued + 1}
          /\ mine' = [mine EXCEPT ![c] = issued + 1] /\ at' = [at EXCEPT ![c] = "write"]
          /\ UNCHANGED <<stdin, todo, stdout, deferred>>
      BY <2>1 DEF Register
    <3>2. i \in 1 .. issued'
      BY <1>2, <3>1, SMT
    <3>3. \A d \in Thread : mine'[d] = issued + 1 \/ (mine'[d] = mine[d] /\ at'[d] = at[d])
      BY <1>4, <3>1
    <3>4. QED
      BY <1>2, <1>3, <3>1, <3>2, <3>3
  <2>2. CASE Write(c)
    <3>1. /\ stdin' = Append(stdin, mine[c]) /\ at' = [at EXCEPT ![c] = "wait"] /\ at[c] = "write"
          /\ UNCHANGED <<mine, issued, pending, todo, stdout, deferred>>
      BY <2>2 DEF Write
    <3>2. mine[c] \in Id /\ mine[c] # i
      BY <1>3, <3>1, Numbered
    <3>3. ToSet(stdin') = ToSet(stdin) \cup {mine[c]}
      BY <1>5, <3>1, <3>2, Appended
    <3>4. \A d \in Thread : at'[d] = "write" => at[d] = "write"
      BY <1>4, <3>1
    <3>5. QED
      BY <1>2, <1>3, <3>1, <3>2, <3>3, <3>4
  <2>3. CASE ~Register(c) /\ ~Write(c)
    <3>1. UNCHANGED <<issued, stdin, todo, stdout, deferred>> /\ pending' \subseteq pending
      BY <1>7, <2>3 DEF Requests, Call, WriteFails, Gets, GetObserved, GetAnswer, GetFailure, Return,
                        Expire, Retire
    <3>2. \A d \in Thread : at'[d] = "write" => at[d] = "write" /\ mine'[d] = mine[d]
      BY <1>4, <1>7, <2>3 DEF Requests, Call, WriteFails, Gets, GetObserved, GetAnswer, GetFailure,
                              Return, Expire, Retire, Leave
    <3>3. QED
      BY <1>2, <1>3, <3>1, <3>2
  <2>4. QED
    BY <2>1, <2>2, <2>3
<1>8. CASE Reader
  <2>1. UNCHANGED <<at, mine, issued, todo>> /\ pending' \subseteq pending
    BY <1>8 DEF Reader, ReadAnswer, Observe, ReadAsk, SendReply, ReadGarbage, Flush, ReadEnd, Condemn,
                Tell, EndQuietly
  <2>2. i \notin ToSet(stdin')
    <3>1. CASE SendReply
      <4>1. stdin' = Append(stdin, Reply) \/ stdin' = stdin
        BY <3>1 DEF SendReply
      <4>2. ToSet(Append(stdin, Reply)) = ToSet(stdin) \cup {Reply}
        BY <1>5, Appended
      <4>3. QED
        BY <1>3, <1>5, <4>1, <4>2
    <3>2. CASE ~SendReply
      BY <1>3, <1>8, <3>2 DEF Reader, ReadAnswer, ReadAsk, ReadGarbage, Flush, ReadEnd, Condemn, Tell,
                              EndQuietly
    <3>3. QED
      BY <3>1, <3>2
  <2>3. i \notin ToSet(stdout')
    <3>1. CASE stdout # <<>> /\ stdout' = Tail(stdout)
      BY <1>3, <1>5, <3>1, Beheaded
    <3>2. CASE UNCHANGED stdout
      BY <1>3, <3>2
    <3>3. QED
      BY <1>8, <3>1, <3>2 DEF Reader, ReadAnswer, ReadAsk, SendReply, ReadGarbage, Reads, Flush, ReadEnd,
                              Condemn, Tell, EndQuietly
  <2>4. i \notin ToSet(deferred')
    <3>1. CASE ReadAnswer
      <4>1. Head(stdout) \in Id
        BY <3>1, TakesIn DEF ReadAnswer, Base
      <4>2. \/ UNCHANGED deferred
            \/ deferred' = Append(deferred, Head(stdout)) /\ Head(stdout) \in pending
        BY <3>1 DEF ReadAnswer, Observe, First
      <4>3. ToSet(Append(deferred, Head(stdout))) = ToSet(deferred) \cup {Head(stdout)}
        BY <1>5, <4>1, Appended
      <4>4. QED
        BY <1>3, <4>2, <4>3
    <3>2. CASE Flush
      <4>1. ToSet(deferred') \subseteq ToSet(deferred)
        BY <3>2, Flushes
      <4>2. QED
        BY <1>3, <4>1
    <3>3. CASE ~ReadAnswer /\ ~Flush
      BY <1>3, <1>8, <3>3 DEF Reader, ReadAsk, SendReply, ReadGarbage, ReadEnd, Condemn, Tell, EndQuietly
    <3>4. QED
      BY <3>1, <3>2, <3>3
  <2>5. QED
    BY <1>2, <1>3, <2>1, <2>2, <2>3, <2>4
<1>9. ~Closes
  BY DEF Closes, CloseFlags, CloseTables, CloseStdin, CloseProcess, CloseStep, Honest
<1>10. CASE Server
  <2>1. UNCHANGED <<at, mine, issued, pending, deferred>>
    BY <1>10, Outside
  <2>2. i \notin ToSet(stdin') /\ i \notin todo' /\ i \notin ToSet(stdout')
    <3>1. CASE ServerTakes
      <4>1. stdin # <<>> /\ stdin' = Tail(stdin) /\ todo' = todo \cup ({Head(stdin)} \cap Id) /\ UNCHANGED stdout
        BY <3>1 DEF ServerTakes
      <4>2. ToSet(stdin) = {Head(stdin)} \cup ToSet(stdin')
        BY <1>5, <4>1, Beheaded
      <4>3. QED
        BY <1>3, <4>1, <4>2
    <3>2. CASE ServerAnswers \/ ServerAsks \/ ServerGarbles
      <4>1. PICK m \in todo \cup {Ask, Garbage} :
               stdout' = Append(stdout, m) /\ todo' \subseteq todo /\ UNCHANGED stdin
        BY <3>2 DEF ServerAnswers, ServerAsks, ServerGarbles, ServerWrites
      <4>2. m # i /\ m \in Output
        BY <1>3, <1>5, <4>1 DEF Base, TypeOK, Output
      <4>3. ToSet(stdout') = ToSet(stdout) \cup {m}
        BY <1>5, <4>1, <4>2, Appended
      <4>4. QED
        BY <1>3, <4>1, <4>2, <4>3
    <3>3. ~ServerStrays
      BY DEF ServerStrays, Does, Honest
    <3>4. CASE ServerExits
      <4>1. stdin' = <<>> /\ todo' = {} /\ UNCHANGED stdout
        BY <3>4 DEF ServerExits, Dies
      <4>2. DOMAIN <<>> = {}
        <5>1. <<>> \in Seq(Id) /\ Len(<<>>) = 0
          BY EmptySeq
        <5>2. QED
          BY <5>1, LenProperties, SMT
      <4>3. ToSet(stdin') = {}
        BY <4>1, <4>2 DEF ToSet
      <4>4. QED
        BY <1>3, <4>1, <4>3
    <3>5. QED
      BY <1>10, <3>1, <3>2, <3>3, <3>4 DEF Server
  <2>3. QED
    BY <1>2, <1>3, <2>1, <2>2
<1>11. CASE UNCHANGED vars
  BY <1>2, <1>3, <1>11 DEF vars
<1>12. QED
  BY <1>7, <1>8, <1>9, <1>10, <1>11 DEF Next

\* The thread of a request that is over retires it once.
LEMMA WithdrawsCounted ==
  ASSUME Base, Base', Counted, Out \subseteq Out', NEW c \in Thread, mine[c] \in 1 .. issued,
         Leave(c), UNCHANGED issued
  PROVE  Len(retired) + 1 <= Cardinality(Out') + Cardinality(Gone')
<1> DEFINE B == {mine[c]}
<1>1. IsFiniteSet({}) /\ Cardinality({}) = 0 /\ IsFiniteSet(B) /\ Cardinality(B) = 1
  BY FS_EmptySet, FS_Singleton
<1>2. B \cap Gone = {}
  BY DEF Gone
<1>3. Out \cup {} \subseteq Out'
  OBVIOUS
<1>4. Gone \cup B \subseteq Gone'
  <2>1. mine' = [mine EXCEPT ![c] = 0] /\ mine \in [Thread -> 0 .. MaxRequests]
    BY DEF Leave, Base, TypeOK
  <2>2. \A d \in Thread : (mine'[d] = mine[d] /\ d # c) \/ mine'[d] = 0
    BY <2>1
  <2>3. \A d \in Thread : d # c => mine[d] # mine[c]
    <3>1. mine[c] # 0
      BY SMT, McpAssumption DEF Base, TypeOK
    <3>2. QED
      BY <3>1 DEF Base, Owners
  <2>4. 0 \notin 1 .. issued
    BY SMT, McpAssumption DEF Base, TypeOK
  <2>5. QED
    BY <2>2, <2>3, <2>4 DEF Gone
<1>5. 1 <= Cardinality({}) + Cardinality(B)
  BY <1>1, SMT
<1>6. {} \cap Out = {} /\ 1 \in Nat
  OBVIOUS
<1> HIDE DEF B
<1>7. QED
  BY <1>1, <1>2, <1>3, <1>4, <1>5, <1>6, CountsUp

\* The reader retires answers that it has held back, and lets go of them.
LEMMA FlushCounted ==
  ASSUME Base, Base', Counted, Known, Out \subseteq Out',
         UNCHANGED <<at, mine, issued, stdin, stdout, todo>>,
         NEW over, IsFiniteSet(ToSet(over)), Len(over) = Cardinality(ToSet(over)),
         NEW settled, settled \subseteq ToSet(deferred), ToSet(over) \subseteq {i \in settled : Held(i)},
         pending' = pending \ settled, ToSet(deferred') = ToSet(deferred) \ settled
  PROVE  Len(retired) + Len(over) <= Cardinality(Out') + Cardinality(Gone')
<1> DEFINE expired == ToSet(over)
<1>1. IsFiniteSet({}) /\ Cardinality({}) = 0 /\ Cardinality(expired) \in Nat
  BY FS_EmptySet, FS_CardinalityType
<1>2. \A i \in expired : /\ i \in 1 .. issued /\ i \in Id /\ i \in pending /\ i \in settled
                         /\ i \in ToSet(deferred)
  BY DEF Held, Base, Tables, TypeOK
<1>3. expired \cap Out = {} /\ {} \cap Gone = {}
  BY <1>2 DEF Out, Spent
<1>4. \A i \in expired : ~Travels(i) /\ \A c \in Thread : at[c] = "write" => mine[c] # i
  BY <1>2 DEF Known
<1>5. expired \subseteq Out'
  BY <1>2, <1>4 DEF Out, Spent, Travels
<1>6. Gone \cup {} \subseteq Gone'
  BY DEF Gone
<1>7. Len(over) \in Nat /\ Len(over) <= Cardinality(expired) + Cardinality({})
  BY <1>1, SMT
<1>8. IsFiniteSet(expired) /\ Out \cup expired \subseteq Out'
  BY <1>5
<1> HIDE DEF expired
<1>9. QED
  BY <1>1, <1>3, <1>6, <1>7, <1>8, CountsUp

LEMMA CountedStep ==
  ASSUME Base, Base', Counted, reader' # "stray", Known, [Next]_vars, Honest'
  PROVE  Counted'
<1> USE DEF threadVars, tableVars, readerVars, serverVars
<1>0. Out \subseteq Out'
  BY SpentStays
<1>1. ASSUME UNCHANGED retired, Gone \subseteq Gone'
      PROVE  Counted'
  <2>1. /\ Cardinality(Out) <= Cardinality(Out') /\ Cardinality(Gone) <= Cardinality(Gone')
        /\ Cardinality(Out) \in Nat /\ Cardinality(Gone) \in Nat
        /\ Cardinality(Out') \in Nat /\ Cardinality(Gone') \in Nat
    BY <1>0, <1>1, Sizes, SizesNext, FS_Subset DEF Base
  <2>2. Len(retired) \in Nat
    BY LenProperties DEF Base, TypeOK
  <2>3. QED
    BY <1>1, <2>1, <2>2, SMT DEF Counted
\* An action that calls _set_request_state_locked.
<1>2. ASSUME NEW over \in Seq(Id), NEW state \in Discard, NEW done \in SUBSET Id,
             SetStates(over, state, done),
             Len(retired) + Len(over) <= Cardinality(Out') + Cardinality(Gone')
      PROVE  Counted'
  <2>1. Len(retired') <= Len(retired) + Len(over)
    BY <1>2, Retires DEF Base
  <2>2. /\ Len(retired) \in Nat /\ Len(over) \in Nat /\ Len(retired') \in Nat
    BY LenProperties DEF Base, TypeOK
  <2>3. Cardinality(Out') \in Nat /\ Cardinality(Gone') \in Nat
    BY SizesNext DEF Base
  <2>4. QED
    BY <1>2, <2>1, <2>2, <2>3, SMT DEF Counted
<1>3. ASSUME NEW c \in Thread, Requests(c)
      PROVE  Counted'
  <2>1. CASE Register(c)
    <3>1. issued' = issued + 1 /\ mine' = [mine EXCEPT ![c] = issued + 1] /\ UNCHANGED retired
      BY <2>1 DEF Register
    <3>2. issued \in Nat /\ mine \in [Thread -> 0 .. MaxRequests]
      BY McpAssumption, SMT DEF Base, TypeOK
    <3>3. \A i \in 1 .. issued : i \in 1 .. issued' /\ i # issued + 1
      BY <3>1, <3>2, SMT
    <3>4. \A d \in Thread : mine'[d] \in {mine[d], issued + 1}
      BY <3>1, <3>2
    <3>5. QED
      BY <1>1, <3>1, <3>3, <3>4 DEF Gone
  <2>2. CASE WriteFails(c) \/ Retire(c)
    <3>1. PICK state \in Discard :
           /\ <<mine[c]>> \in Seq(Id) /\ Len(<<mine[c]>>) = 1
           /\ pending' = pending \ {mine[c]}
           /\ SetStates(<<mine[c]>>, state, {})
           /\ Leave(c)
           /\ UNCHANGED issued
      BY <2>2, WithdrawsBase
    <3>2. mine[c] \in 1 .. issued
      BY <2>2, Numbered DEF WriteFails, Retire
    <3>3. {} \in SUBSET Id
      OBVIOUS
    <3>4. QED
      BY <1>0, <3>1, <3>2, <3>3, WithdrawsCounted, <1>2
  <2>3. CASE ~Register(c) /\ ~WriteFails(c) /\ ~Retire(c)
    <3>1. UNCHANGED <<issued, retired>>
      BY <2>3, <1>3, Bystanders
    <3>2. \A d \in Thread : mine'[d] \in {mine[d], 0}
      BY <2>3, <1>3 DEF Requests, Call, Write, Gets, GetObserved, GetAnswer, GetFailure, Return,
                        Expire, Leave, Base, TypeOK
    <3>3. 0 \notin 1 .. issued
      BY SMT, McpAssumption DEF Base, TypeOK
    <3>4. QED
      BY <1>1, <3>1, <3>2, <3>3 DEF Gone
  <2>4. QED
    BY <1>3, <2>1, <2>2, <2>3
<1>4. CASE Flush
  <2>1. PICK over \in Seq(Id) : \E settled, released \in SUBSET Id :
           /\ Len(over) = Cardinality(ToSet(over)) /\ IsFiniteSet(ToSet(over))
           /\ settled \subseteq ToSet(deferred)
           /\ ToSet(over) \cup released = {i \in settled : Held(i)}
           /\ pending' = pending \ settled
           /\ SetStates(over, "follow_up_timed_out", released)
           /\ ToSet(deferred') = ToSet(deferred) \ settled \/ reader' = "stray"
    BY <1>4, Flushes
  <2>2. PICK settled, released \in SUBSET Id :
           /\ Len(over) = Cardinality(ToSet(over)) /\ IsFiniteSet(ToSet(over))
           /\ settled \subseteq ToSet(deferred)
           /\ ToSet(over) \cup released = {i \in settled : Held(i)}
           /\ pending' = pending \ settled
           /\ SetStates(over, "follow_up_timed_out", released)
           /\ ToSet(deferred') = ToSet(deferred) \ settled \/ reader' = "stray"
    BY <2>1
  <2>3. UNCHANGED <<at, mine, issued, stdin, stdout, todo>>
    BY <1>4 DEF Flush
  <2>4. ToSet(over) \subseteq {i \in settled : Held(i)} /\ ToSet(deferred') = ToSet(deferred) \ settled
    BY <2>2
  <2>5. Len(retired) + Len(over) <= Cardinality(Out') + Cardinality(Gone')
    BY <1>0, <2>2, <2>3, <2>4, FlushCounted
  <2>6. "follow_up_timed_out" \in Discard
    BY DEF Discard
  <2>7. QED
    BY <2>2, <2>5, <2>6, <1>2
<1>5. CASE Reader /\ ~Flush
  <2>1. UNCHANGED <<issued, retired, mine>>
    BY <1>5 DEF Reader, ReadAnswer, ReadAsk, SendReply, ReadGarbage, ReadEnd, Condemn, Tell, EndQuietly
  <2>2. QED
    BY <1>1, <2>1 DEF Gone
<1>6. ~Closes
  BY DEF Closes, CloseFlags, CloseTables, CloseStdin, CloseProcess, CloseStep, Honest
<1>7. CASE Server \/ UNCHANGED vars
  <2>1. UNCHANGED <<issued, retired, mine>>
    BY <1>7, Outside DEF vars
  <2>2. QED
    BY <1>1, <2>1 DEF Gone
<1>8. QED
  BY <1>3, <1>4, <1>5, <1>6, <1>7 DEF Next

-----------------------------------------------------------------------------
(* The third layer: where an answer is *)

\* What is retired fits into what is remembered, or nothing is left to come.
LEMMA Room ==
  ASSUME Remembers, Base', NEW n \in Nat, n <= Cardinality(Out') + Cardinality(Gone')
  PROVE  n <= Retain \/ Out' = 1 .. issued'
<1>1. SUFFICES ASSUME ~(n <= Retain) PROVE Out' = 1 .. issued'
  OBVIOUS
<1>2. /\ Cardinality(Out') \in Nat /\ Cardinality(Gone') \in Nat
      /\ Cardinality(Out') <= issued' /\ Cardinality(Gone') <= issued'
      /\ issued' \in Nat /\ issued' <= MaxRequests
  BY SizesNext DEF Base
<1>3. Cardinality(Out') = issued'
  BY <1>1, <1>2, McpAssumption, SMT DEF Remembers
<1>4. IsFiniteSet(1 .. issued') /\ Cardinality(1 .. issued') = issued'
  <2>1. 1 \in Int /\ issued' \in Int
    BY <1>2, SMT
  <2>2. IsFiniteSet(1 .. issued') /\ Cardinality(1 .. issued') = IF 1 > issued' THEN 0 ELSE issued' - 1 + 1
    BY <2>1, FS_Interval
  <2>3. QED
    BY <1>2, <2>2, SMT
<1>5. Out' \in SUBSET (1 .. issued')
  BY DEF Out
<1>6. QED
  BY <1>3, <1>4, <1>5, FS_Subset

LEMMA NothingLeft ==
  ASSUME Base', Out' = 1 .. issued',
         \A i \in Id : Travels(i)' => i <= issued',
         \A i \in ToSet(deferred') : i <= issued'
  PROVE  Known'
<1>1. issued' \in Nat /\ issued' <= MaxRequests
  BY McpAssumption, SMT DEF Base, TypeOK
<1>2. \A i \in Id : i <= issued' => i \in Out'
  BY <1>1, McpAssumption, SMT DEF Id
<1>3. \A i \in Id : ~Travels(i)'
  BY <1>2 DEF Out, Spent
<1>4. ToSet(deferred') \subseteq Id
  BY LenProperties, ElementOfSeq DEF Base, TypeOK, ToSet
<1>5. ToSet(deferred') = {}
  BY <1>2, <1>4 DEF Out, Spent
<1>6. \A d \in Thread : mine'[d] <= issued'
  BY DEF Base, Owners
<1>7. \A d \in Thread : \A i \in Id : ~(at'[d] = "write" /\ mine'[d] = i)
  BY <1>2, <1>6 DEF Out, Spent
<1>8. QED
  BY <1>3, <1>5, <1>7 DEF Known

\* Steps that leave the tables alone and put no answer anywhere.
LEMMA Drains ==
  ASSUME Base, Known,
         UNCHANGED <<issued, pending, states, deferred>>,
         \A i \in Id : Travels(i)' => Travels(i),
         \A c \in Thread : at'[c] = "write" => at[c] = "write" /\ mine'[c] = mine[c]
  PROVE  Known'
<1>1. \A c \in Thread : at[c] = "write" => mine[c] \in Id
  BY Numbered
<1>2. QED
  BY <1>1 DEF Known, Awaited, Unknown, Held

LEMMA RequestsFlow ==
  ASSUME Remembers, Base, Base', Counted, Out \subseteq Out', NEW c \in Thread, Requests(c), Once, Known
  PROVE  Once' /\ Known'
<1> USE DEF threadVars, tableVars, readerVars, serverVars
<1>1. /\ at \in [Thread -> {"idle", "begun", "write", "wait", "retire", "check"}]
      /\ mine \in [Thread -> 0 .. MaxRequests] /\ issued \in Nat /\ states \in [Id -> RequestState]
  BY McpAssumption, SMT DEF Base, TypeOK
<1>2. \A d \in Thread : at[d] = "write" => mine[d] \in Id /\ mine[d] \in 1 .. issued
  BY Numbered
<1>3. CASE Register(c)
  <2>0. issued + 1 \in Id
    BY <1>1, <1>3, McpAssumption, SMT DEF Register, Id
  <2>16. PICK n \in Id : n = issued + 1
    BY <2>0
  <2>1. /\ pending' = pending \cup {n} /\ issued' = n
        /\ states' = [states EXCEPT ![n] = "awaiting_response"]
        /\ at' = [at EXCEPT ![c] = "write"] /\ mine' = [mine EXCEPT ![c] = n]
        /\ UNCHANGED <<deferred, stdin, stdout, todo>>
    BY <1>3, <2>16 DEF Register
  <2>2. n \in Id /\ ~(n <= issued) /\ issued <= n /\ n \notin 1 .. issued
    BY <1>1, <2>16, SMT DEF Id
  <2>3. \A i \in Id : i <= issued => i <= n
    BY <1>1, <2>16, SMT DEF Id
  <2>4. Awaited(n)'
    BY <2>1, <2>2, <1>1 DEF Awaited
  <2>5. n \notin ToSet(deferred) /\ ~Travels(n)
    BY <2>2 DEF Known
  <2>6. \A i \in Id : i # n => /\ states'[i] = states[i]
                               /\ i \in pending' <=> i \in pending
    BY <2>1, <1>1
  <2>7. ToSet(deferred) \subseteq Id
    BY LenProperties, ElementOfSeq DEF Base, TypeOK, ToSet
  <2>8. Once'
    BY <2>1 DEF Once
  <2>9. \A i \in Id : Travels(i)' =>
          i <= issued' /\ i \notin ToSet(deferred') /\ (Awaited(i)' \/ states'[i] \in Discard)
    <3>1. SUFFICES ASSUME NEW i \in Id, Travels(i)'
                   PROVE  i <= issued' /\ i \notin ToSet(deferred') /\ (Awaited(i)' \/ states'[i] \in Discard)
      OBVIOUS
    <3>2. Travels(i)
      BY <2>1, <3>1 DEF Travels
    <3>3. i # n
      BY <2>5, <3>2
    <3>4. i <= issued /\ i \notin ToSet(deferred) /\ (Awaited(i) \/ states[i] \in Discard)
      BY <3>2 DEF Known
    <3>5. QED
      BY <2>1, <2>3, <2>6, <3>3, <3>4 DEF Awaited
  <2>10. \A i \in ToSet(deferred') : i <= issued' /\ ~Unknown(i)'
    <3>1. SUFFICES ASSUME NEW i \in ToSet(deferred)
                   PROVE  i <= issued' /\ ~Unknown(i)'
      BY <2>1
    <3>2. i \in Id /\ i # n /\ i <= issued /\ ~Unknown(i)
      BY <2>5, <2>7, <3>1 DEF Known
    <3>3. QED
      BY <2>1, <2>3, <2>6, <3>2 DEF Unknown, Held
  <2>11. \A d \in Thread : \A j \in Id : at'[d] = "write" /\ mine'[d] = j =>
           Awaited(j)' /\ ~Travels(j)' /\ j \notin ToSet(deferred')
    <3>1. SUFFICES ASSUME NEW d \in Thread, NEW j \in Id, at'[d] = "write", mine'[d] = j
                   PROVE  Awaited(j)' /\ ~Travels(j)' /\ j \notin ToSet(deferred')
      BY Zenon
    <3>2. CASE d = c
      <4>1. j = n
        BY <2>1, <3>1, <3>2, <1>1
      <4>2. QED
        BY <2>1, <2>4, <2>5, <4>1 DEF Travels
    <3>3. CASE d # c
      <4>1. at[d] = "write" /\ mine[d] = j
        BY <2>1, <3>1, <3>3, <1>1
      <4>2. j \in Id /\ j # n
        BY <1>2, <2>2, <4>1
      <4>3. Awaited(j) /\ ~Travels(j) /\ j \notin ToSet(deferred)
        BY <4>1 DEF Known
      <4>4. QED
        BY <2>1, <2>6, <4>2, <4>3 DEF Awaited, Travels
    <3>4. QED
      BY <3>2, <3>3
  <2>12. QED
    BY <2>8, <2>9, <2>10, <2>11 DEF Known
<1>4. CASE Write(c)
  <2> DEFINE n == mine[c]
  <2>1. /\ at[c] = "write" /\ stdin' = Append(stdin, n) /\ at' = [at EXCEPT ![c] = "wait"]
        /\ UNCHANGED <<mine, issued, pending, states, deferred, stdout, todo>>
    BY <1>4 DEF Write
  <2>2. n \in Id /\ n \in 1 .. issued /\ Awaited(n) /\ ~Travels(n) /\ n \notin ToSet(deferred)
    BY <1>2, <2>1 DEF Known
  <2>3. \A d \in Thread : d # c /\ at[d] = "write" => mine[d] # n
    <3>1. n # 0
      BY <2>2, SMT
    <3>2. QED
      BY <3>1 DEF Base, Owners
  <2>4. stdin \in Seq(Id \cup {Reply})
    BY DEF Base, TypeOK
  <2> HIDE DEF n
  <2>5. ToSet(stdin') = ToSet(stdin) \cup {n}
    BY <2>1, <2>2, <2>4, Appended
  <2>6. Single(stdin')
    BY <2>1, <2>2, <2>4, SingleAppend DEF Once, Travels
  <2>7. Once'
    BY <2>1, <2>2, <2>5, <2>6 DEF Once, Travels
  <2>8. \A i \in Id : Travels(i)' => Travels(i) \/ i = n
    BY <2>1, <2>5 DEF Travels
  <2>9. n <= issued
    BY <1>1, <2>2, SMT
  <2>10. \A d \in Thread : at'[d] = "write" => d # c /\ at[d] = "write" /\ mine'[d] = mine[d]
    BY <2>1, <1>1
  <2>11. \A i \in Id : Awaited(i)' <=> Awaited(i)
    BY <2>1 DEF Awaited
  <2>12. \A i \in Id : Travels(i)' =>
          i <= issued' /\ i \notin ToSet(deferred') /\ (Awaited(i)' \/ states'[i] \in Discard)
    BY <2>1, <2>2, <2>8, <2>9, <2>11 DEF Known
  <2>13. \A i \in ToSet(deferred') : i <= issued' /\ ~Unknown(i)'
    BY <2>1 DEF Known, Unknown, Held
  <2>14. \A d \in Thread : \A j \in Id : at'[d] = "write" /\ mine'[d] = j =>
           Awaited(j)' /\ ~Travels(j)' /\ j \notin ToSet(deferred')
    <3>1. SUFFICES ASSUME NEW d \in Thread, NEW j \in Id, at'[d] = "write", mine'[d] = j
                   PROVE  Awaited(j)' /\ ~Travels(j)' /\ j \notin ToSet(deferred')
      BY Zenon
    <3>2. at[d] = "write" /\ d # c /\ j = mine[d]
      BY <2>10, <3>1
    <3>3. j \in Id /\ j # n /\ Awaited(j) /\ ~Travels(j) /\ j \notin ToSet(deferred)
      BY <1>2, <2>3, <3>2 DEF Known
    <3>4. QED
      BY <2>1, <2>8, <2>11, <3>3
  <2>15. QED
    BY <2>7, <2>12, <2>13, <2>14 DEF Known
<1>5. CASE WriteFails(c) \/ Retire(c)
  <2>1. PICK state \in Discard :
           /\ mine[c] \in Id
           /\ <<mine[c]>> \in Seq(Id) /\ Len(<<mine[c]>>) = 1 /\ ToSet(<<mine[c]>>) = {mine[c]}
           /\ pending' = pending \ {mine[c]}
           /\ SetStates(<<mine[c]>>, state, {})
           /\ Leave(c)
           /\ UNCHANGED <<issued, deferred, stdin, stdout, todo>>
    BY <1>5, WithdrawsBase
  <2>2. mine[c] \in 1 .. issued
    BY <1>5, Numbered DEF WriteFails, Retire
  <2>3. SUFFICES ASSUME Len(retired) + Len(<<mine[c]>>) <= Retain
                 PROVE  Once' /\ Known'
    <3>1. Len(retired) + 1 <= Cardinality(Out') + Cardinality(Gone')
      BY <2>1, <2>2, WithdrawsCounted
    <3>2. Len(retired) + 1 \in Nat /\ Len(retired) + Len(<<mine[c]>>) = Len(retired) + 1
      BY <2>1, LenProperties, SMT DEF Base, TypeOK
    <3>3. Len(retired) + Len(<<mine[c]>>) <= Retain \/ Out' = 1 .. issued'
      BY <3>1, <3>2, Room
    <3>4. /\ \A i \in Id : Travels(i)' => i <= issued'
          /\ \A i \in ToSet(deferred') : i <= issued'
      BY <2>1 DEF Known, Travels
    <3>5. Once'
      BY <2>1 DEF Once
    <3>6. QED
      BY <3>3, <3>4, <3>5, NothingLeft
  <2>4. \A i \in Id : states'[i] = IF i = mine[c] THEN state ELSE states[i]
    <3>1. {} \in SUBSET Id
      OBVIOUS
    <3>2. \A i \in Id \ {} : states'[i] = IF i \in ToSet(<<mine[c]>>) THEN state ELSE states[i]
      <4>1. TypeOK /\ <<mine[c]>> \in Seq(Id) /\ SetStates(<<mine[c]>>, state, {})
        BY <2>1 DEF Base
      <4>2. QED
        BY <2>3, <3>1, <4>1, Remembered, Zenon
    <3>3. QED
      BY <2>1, <3>2
  <2>5. Once'
    BY <2>1 DEF Once
  <2>6. \A i \in Id : Travels(i)' <=> Travels(i)
    BY <2>1 DEF Travels
  <2>7. \A i \in Id : i # mine[c] => (Awaited(i)' <=> Awaited(i))
    BY <2>1, <2>4 DEF Awaited
  <2>8. \A i \in Id : Travels(i)' =>
          i <= issued' /\ i \notin ToSet(deferred') /\ (Awaited(i)' \/ states'[i] \in Discard)
    BY <2>1, <2>4, <2>6, <2>7 DEF Known
  <2>9. \A i \in ToSet(deferred') : i <= issued' /\ ~Unknown(i)'
    <3>1. ToSet(deferred) \subseteq Id
      BY LenProperties, ElementOfSeq DEF Base, TypeOK, ToSet
    <3>2. SUFFICES ASSUME NEW i \in ToSet(deferred)
                   PROVE  i <= issued' /\ ~Unknown(i)'
      BY <2>1
    <3>3. i \in Id /\ i <= issued /\ ~Unknown(i)
      BY <3>1, <3>2 DEF Known
    <3>4. CASE i = mine[c]
      BY <2>1, <2>4, <3>3, <3>4 DEF Unknown
    <3>5. CASE i # mine[c]
      BY <2>1, <2>4, <3>3, <3>5 DEF Unknown, Held
    <3>6. QED
      BY <3>4, <3>5
  <2>10. \A d \in Thread : \A j \in Id : at'[d] = "write" /\ mine'[d] = j =>
           Awaited(j)' /\ ~Travels(j)' /\ j \notin ToSet(deferred')
    <3>1. SUFFICES ASSUME NEW d \in Thread, NEW j \in Id, at'[d] = "write", mine'[d] = j
                   PROVE  Awaited(j)' /\ ~Travels(j)' /\ j \notin ToSet(deferred')
      BY Zenon
    <3>2. at[d] = "write" /\ d # c /\ j = mine[d]
      BY <2>1, <3>1, <1>1 DEF Leave
    <3>3. j \in Id /\ Awaited(j) /\ ~Travels(j) /\ j \notin ToSet(deferred) /\ j # 0
      BY <1>2, <3>2 DEF Known, Base, Owners
    <3>4. j # mine[c]
      BY <3>2, <3>3 DEF Base, Owners
    <3>5. QED
      BY <2>1, <2>6, <2>7, <3>3, <3>4
  <2>11. QED
    BY <2>5, <2>8, <2>9, <2>10 DEF Known
<1>6. CASE ~Register(c) /\ ~Write(c) /\ ~WriteFails(c) /\ ~Retire(c)
  <2>1. UNCHANGED <<issued, pending, states, deferred, stdin, stdout, todo>>
    BY <1>6 DEF Requests, Call, Gets, GetObserved, GetAnswer, GetFailure, Return, Expire
  <2>2. \A d \in Thread : at'[d] = "write" => at[d] = "write" /\ mine'[d] = mine[d]
    BY <1>6, <1>1 DEF Requests, Call, Gets, GetObserved, GetAnswer, GetFailure, Return, Expire, Leave
  <2>3. QED
    BY <2>1, <2>2, Drains DEF Once, Travels
<1>7. QED
  BY <1>3, <1>4, <1>5, <1>6

\* A message is read: it leaves the pipe.
LEMMA PipeMoves ==
  ASSUME Base, Once, stdout # <<>>, stdout' = Tail(stdout), UNCHANGED <<stdin, todo>>
  PROVE  /\ Once'
         /\ \A i \in Id : Travels(i)' => Travels(i)
         /\ \A i \in Id : i = Head(stdout) => Travels(i) /\ ~Travels(i)'
<1>1. stdout \in Seq(Output)
  BY DEF Base, TypeOK
<1>2. ToSet(stdout) = {Head(stdout)} \cup ToSet(stdout')
  BY <1>1, Beheaded
<1>3. Single(stdout') /\ (Head(stdout) \in Id => Head(stdout) \notin ToSet(stdout'))
  BY <1>1, SingleTail DEF Once
<1>4. Once'
  BY <1>2, <1>3 DEF Once
<1>5. \A i \in Id : Travels(i)' => Travels(i)
  BY <1>2 DEF Travels
<1>6. \A i \in Id : i = Head(stdout) => Travels(i) /\ ~Travels(i)'
  BY <1>2, <1>3 DEF Travels, Once
<1>7. QED
  BY <1>4, <1>5, <1>6

LEMMA ReaderFlow ==
  ASSUME Remembers, Base, Base', Counted, Out \subseteq Out', Reader, fatal' = "none", fatal = "none",
         reader # "stray", Once, Known
  PROVE  reader' # "stray" /\ Once' /\ Known'
<1> USE DEF threadVars, tableVars, readerVars, serverVars
<1>1. deferred \in Seq(Id) /\ ToSet(deferred) \subseteq Id /\ states \in [Id -> RequestState]
  BY LenProperties, ElementOfSeq DEF Base, TypeOK, ToSet
<1>2. \A d \in Thread : at[d] = "write" => mine[d] \in Id
  BY Numbered
<1>3. UNCHANGED <<at, mine, issued>>
  BY DEF Reader, ReadAnswer, ReadAsk, SendReply, ReadGarbage, Flush, ReadEnd, Condemn, Tell, EndQuietly
<1>4. CASE ReadAnswer
  <2>0. /\ stdout # <<>> /\ stdout' = Tail(stdout) /\ UNCHANGED <<stdin, todo>>
        /\ Head(stdout) \in Id
    BY <1>4, TakesIn DEF ReadAnswer, Base
  <2>9. PICK i \in Id : i = Head(stdout)
    BY <2>0
  <2>1. stdout # <<>> /\ stdout' = Tail(stdout) /\ UNCHANGED <<stdin, todo>> /\ i \in Id
    BY <2>0
  <2>2. /\ Once'
        /\ \A j \in Id : Travels(j)' => Travels(j)
        /\ Travels(i) /\ ~Travels(i)'
    BY <2>1, <2>9, PipeMoves
  <2>3. \/ First(i) /\ Observe(i) /\ UNCHANGED <<pending, reader>>
        \/ Late(i) /\ pending' = pending \ {i} /\ UNCHANGED <<queue, states, deferred, reader>>
        \/ ~First(i) /\ ~Late(i)
    BY <1>4, <2>9 DEF ReadAnswer
  <2>4. i <= issued /\ i \notin ToSet(deferred) /\ (Awaited(i) \/ states[i] \in Discard)
    BY <2>1, <2>2 DEF Known
  <2>5. First(i) \/ Late(i)
    BY <2>4 DEF First, Late, Awaited
  <2>6. CASE Observe(i) /\ UNCHANGED <<pending, reader>> /\ First(i)
    <3>1. /\ deferred' = Append(deferred, i)
          /\ states' = [states EXCEPT ![i] = "awaiting_follow_up"]
      BY <2>6 DEF Observe
    <3>2. ToSet(deferred') = ToSet(deferred) \cup {i}
      BY <1>1, <2>1, <3>1, Appended
    <3>3. \A j \in Id : states'[j] = IF j = i THEN "awaiting_follow_up" ELSE states[j]
      BY <1>1, <2>1, <3>1
    <3>4. \A j \in Id : j # i => (Awaited(j)' <=> Awaited(j))
      BY <2>6, <3>3 DEF Awaited
    <3>5. \A j \in Id : Travels(j)' =>
            j <= issued' /\ j \notin ToSet(deferred') /\ (Awaited(j)' \/ states'[j] \in Discard)
      <4>1. SUFFICES ASSUME NEW j \in Id, Travels(j)'
                     PROVE  j <= issued' /\ j \notin ToSet(deferred') /\ (Awaited(j)' \/ states'[j] \in Discard)
        OBVIOUS
      <4>2. Travels(j) /\ j # i
        BY <2>2, <4>1
      <4>3. j <= issued /\ j \notin ToSet(deferred) /\ (Awaited(j) \/ states[j] \in Discard)
        BY <4>2 DEF Known
      <4>4. QED
        BY <1>3, <3>2, <3>3, <3>4, <4>2, <4>3
    <3>6. \A j \in ToSet(deferred') : j <= issued' /\ ~Unknown(j)'
      <4>1. SUFFICES ASSUME NEW j \in ToSet(deferred')
                     PROVE  j <= issued' /\ ~Unknown(j)'
        OBVIOUS
      <4>2. CASE j = i
        BY <1>3, <2>1, <2>4, <2>6, <3>3, <4>2 DEF Unknown, Held, First
      <4>3. CASE j # i
        <5>1. j \in Id /\ j <= issued /\ ~Unknown(j)
          BY <1>1, <3>2, <4>1, <4>3 DEF Known
        <5>2. QED
          BY <1>3, <2>6, <3>3, <4>3, <5>1 DEF Unknown, Held
      <4>4. QED
        BY <4>2, <4>3
    <3>7. \A d \in Thread : \A j \in Id : at'[d] = "write" /\ mine'[d] = j =>
            Awaited(j)' /\ ~Travels(j)' /\ j \notin ToSet(deferred')
      <4>1. SUFFICES ASSUME NEW d \in Thread, NEW j \in Id, at'[d] = "write", mine'[d] = j
                     PROVE  Awaited(j)' /\ ~Travels(j)' /\ j \notin ToSet(deferred')
        BY Zenon
      <4>2. at[d] = "write" /\ j = mine[d] /\ j \in Id
        BY <1>2, <1>3, <4>1
      <4>3. Awaited(j) /\ ~Travels(j) /\ j \notin ToSet(deferred)
        BY <4>2 DEF Known
      <4>4. j # i
        BY <2>2, <4>3
      <4>5. QED
        BY <2>2, <3>2, <3>4, <4>2, <4>3, <4>4
    <3>8. QED
      BY <2>2, <2>6, <3>5, <3>6, <3>7 DEF Known
  <2>7. CASE Late(i) /\ pending' = pending \ {i} /\ UNCHANGED <<states, deferred, reader>>
    <3>1. i \notin pending
      BY <2>7 DEF Late, Discard, Base, Tables
    <3>2. UNCHANGED pending
      BY <2>7, <3>1
    <3>3. QED
      BY <1>3, <2>2, <2>7, <3>2, Drains
  <2>8. QED
    BY <2>3, <2>5, <2>6, <2>7 DEF First, Late
<1>5. CASE Flush
  <2>1. PICK over \in Seq(Id) : \E settled, released \in SUBSET Id :
           LET expired == ToSet(over) IN
           /\ Len(over) = Cardinality(expired) /\ IsFiniteSet(expired)
           /\ settled \subseteq ToSet(deferred)
           /\ expired \cup released = {i \in settled : Held(i)}
           /\ pending' = pending \ settled
           /\ SetStates(over, "follow_up_timed_out", released)
           /\ \/ ToSet(deferred') = ToSet(deferred) \ settled /\ UNCHANGED reader
              \/ \E i \in ToSet(deferred) : Unknown(i)
    BY <1>5, Flushes
  <2>2. PICK settled, released \in SUBSET Id :
           LET expired == ToSet(over) IN
           /\ Len(over) = Cardinality(expired) /\ IsFiniteSet(expired)
           /\ settled \subseteq ToSet(deferred)
           /\ expired \cup released = {i \in settled : Held(i)}
           /\ pending' = pending \ settled
           /\ SetStates(over, "follow_up_timed_out", released)
           /\ \/ ToSet(deferred') = ToSet(deferred) \ settled /\ UNCHANGED reader
              \/ \E i \in ToSet(deferred) : Unknown(i)
    BY <2>1
  <2>3. ToSet(deferred') = ToSet(deferred) \ settled /\ UNCHANGED reader
    BY <2>2 DEF Known
  <2>4. UNCHANGED <<stdin, stdout, todo>>
    BY <1>5 DEF Flush
  <2>5. ToSet(over) \subseteq {i \in settled : Held(i)}
    BY <2>2
  <2>6. SUFFICES ASSUME Len(retired) + Len(over) <= Retain
                 PROVE  reader' # "stray" /\ Once' /\ Known'
    <3>1. Len(retired) + Len(over) <= Cardinality(Out') + Cardinality(Gone')
      BY <1>3, <2>2, <2>3, <2>4, <2>5, FlushCounted
    <3>2. Len(retired) + Len(over) \in Nat
      BY LenProperties, SMT DEF Base, TypeOK
    <3>3. Len(retired) + Len(over) <= Retain \/ Out' = 1 .. issued'
      BY <3>1, <3>2, Room
    <3>4. /\ \A i \in Id : Travels(i)' => i <= issued'
          /\ \A i \in ToSet(deferred') : i <= issued'
      BY <1>3, <2>3, <2>4 DEF Known, Travels
    <3>5. reader' # "stray" /\ Once'
      BY <2>3, <2>4 DEF Once
    <3>6. QED
      BY <3>3, <3>4, <3>5, NothingLeft
  <2>7. \A i \in Id \ released :
          states'[i] = IF i \in ToSet(over) THEN "follow_up_timed_out" ELSE states[i]
    <3>1. TypeOK /\ "follow_up_timed_out" \in Discard
      BY DEF Base, Discard
    <3>2. QED
      BY <2>2, <2>6, <3>1, Remembered, Zenon
  <2>8. \A i \in Id \ settled : states'[i] = states[i] /\ (i \in pending' <=> i \in pending)
    BY <2>2, <2>7
  <2>9. \A i \in Id : Travels(i)' <=> Travels(i)
    BY <2>4 DEF Travels
  <2>10. Once'
    BY <2>4 DEF Once
  <2>11. \A i \in Id : Travels(i)' =>
           i <= issued' /\ i \notin ToSet(deferred') /\ (Awaited(i)' \/ states'[i] \in Discard)
    <3>1. SUFFICES ASSUME NEW i \in Id, Travels(i)'
                   PROVE  i <= issued' /\ i \notin ToSet(deferred') /\ (Awaited(i)' \/ states'[i] \in Discard)
      OBVIOUS
    <3>2. i <= issued /\ i \notin ToSet(deferred) /\ (Awaited(i) \/ states[i] \in Discard)
      BY <2>9, <3>1 DEF Known
    <3>3. i \in Id \ settled
      BY <2>2, <3>2
    <3>4. QED
      BY <1>3, <2>3, <2>8, <3>2, <3>3 DEF Awaited
  <2>12. \A i \in ToSet(deferred') : i <= issued' /\ ~Unknown(i)'
    <3>1. SUFFICES ASSUME NEW i \in ToSet(deferred) \ settled
                   PROVE  i <= issued' /\ ~Unknown(i)'
      BY <2>3
    <3>2. i \in Id \ settled /\ i <= issued /\ ~Unknown(i)
      BY <1>1, <3>1 DEF Known
    <3>3. QED
      BY <1>3, <2>8, <3>2 DEF Unknown, Held
  <2>13. \A d \in Thread : \A j \in Id : at'[d] = "write" /\ mine'[d] = j =>
           Awaited(j)' /\ ~Travels(j)' /\ j \notin ToSet(deferred')
    <3>1. SUFFICES ASSUME NEW d \in Thread, NEW j \in Id, at'[d] = "write", mine'[d] = j
                   PROVE  Awaited(j)' /\ ~Travels(j)' /\ j \notin ToSet(deferred')
      BY Zenon
    <3>2. at[d] = "write" /\ j = mine[d] /\ j \in Id
      BY <1>2, <1>3, <3>1
    <3>3. Awaited(j) /\ ~Travels(j) /\ j \notin ToSet(deferred)
      BY <3>2 DEF Known
    <3>4. j \in Id \ settled
      BY <2>2, <3>2, <3>3
    <3>5. QED
      BY <2>3, <2>8, <2>9, <3>2, <3>3, <3>4 DEF Awaited
  <2>14. QED
    BY <2>3, <2>10, <2>11, <2>12, <2>13 DEF Known
<1>6. CASE ReadAsk \/ ReadGarbage
  <2>1. stdout # <<>> /\ stdout' = Tail(stdout) /\ UNCHANGED <<stdin, todo, pending, states, deferred>>
    BY <1>6 DEF ReadAsk, ReadGarbage, Reads
  <2>2. Once' /\ \A i \in Id : Travels(i)' => Travels(i)
    BY <2>1, PipeMoves
  <2>3. reader' # "stray"
    BY <1>6 DEF ReadAsk, ReadGarbage
  <2>4. QED
    BY <1>3, <2>1, <2>2, <2>3, Drains
<1>7. CASE SendReply
  <2>1. UNCHANGED <<stdout, todo, pending, states, deferred>> /\ reader' # "stray"
    BY <1>7 DEF SendReply
  <2>2. stdin' = Append(stdin, Reply) \/ stdin' = stdin
    BY <1>7 DEF SendReply
  <2>3. CASE stdin' = Append(stdin, Reply)
    <3>1. stdin \in Seq(Id \cup {Reply}) /\ Reply \in Id \cup {Reply} /\ Reply \notin Id
      BY SMT, McpAssumption DEF Base, TypeOK, Reply, Id
    <3>2. ToSet(stdin') = ToSet(stdin) \cup {Reply} /\ Single(stdin')
      BY <2>3, <3>1, Appended, SingleAppend DEF Once
    <3>3. todo \subseteq Id
      BY DEF Base, TypeOK
    <3>4. Once' /\ \A i \in Id : Travels(i)' => Travels(i)
      BY <2>1, <3>1, <3>2, <3>3 DEF Once, Travels
    <3>5. QED
      BY <1>3, <2>1, <3>4, Drains
  <2>4. CASE stdin' = stdin
    BY <1>3, <2>1, <2>4, Drains DEF Once, Travels
  <2>5. QED
    BY <2>2, <2>3, <2>4
<1>8. CASE ReadEnd \/ EndQuietly \/ Tell
  <2>1. UNCHANGED <<stdin, stdout, todo, pending, states, deferred>> /\ reader' # "stray"
    BY <1>8 DEF ReadEnd, EndQuietly, Tell
  <2>2. QED
    BY <1>3, <2>1, Drains DEF Once, Travels
<1>9. ~Condemn
  BY DEF Condemn
<1>10. QED
  BY <1>4, <1>5, <1>6, <1>7, <1>8, <1>9 DEF Reader

LEMMA ServerFlow ==
  ASSUME Base, Server, Honest', Once, Known
  PROVE  Once' /\ Known'
<1>1. UNCHANGED <<at, mine, issued, pending, states, deferred>>
  BY Outside DEF threadVars, tableVars, readerVars
<1>2. /\ stdin \in Seq(Id \cup {Reply}) /\ stdout \in Seq(Output) /\ todo \subseteq Id
      /\ Reply \notin Id /\ Ask \notin Id /\ Garbage \notin Id
  BY SMT, McpAssumption DEF Base, TypeOK, Reply, Ask, Garbage, Id
<1>3. Once' /\ \A i \in Id : Travels(i)' => Travels(i)
  <2>1. CASE ServerTakes
    <3> DEFINE h == Head(stdin)
    <3>1. /\ stdin # <<>> /\ stdin' = Tail(stdin) /\ todo' = todo \cup ({h} \cap Id) /\ UNCHANGED stdout
      BY <2>1 DEF ServerTakes
    <3>2. /\ ToSet(stdin) = {h} \cup ToSet(stdin') /\ Single(stdin')
          /\ h \in Id => h \notin ToSet(stdin')
      BY <1>2, <3>1, Beheaded, SingleTail DEF Once
    <3> HIDE DEF h
    <3>3. QED
      BY <1>2, <3>1, <3>2 DEF Once, Travels
  <2>2. CASE ServerAnswers
    <3>1. PICK i \in todo : stdout' = Append(stdout, i) /\ todo' = todo \ {i} /\ UNCHANGED stdin
      BY <2>2 DEF ServerAnswers, ServerWrites
    <3>2. i \in Id /\ i \in Output /\ i \notin ToSet(stdin) \cup ToSet(stdout)
      BY <1>2, <3>1 DEF Once, Output
    <3>3. ToSet(stdout') = ToSet(stdout) \cup {i} /\ Single(stdout')
      BY <1>2, <3>1, <3>2, Appended, SingleAppend DEF Once
    <3>4. QED
      BY <1>2, <3>1, <3>2, <3>3 DEF Once, Travels
  <2>3. CASE ServerAsks \/ ServerGarbles
    <3>1. PICK m \in {Ask, Garbage} : stdout' = Append(stdout, m)
      BY <2>3 DEF ServerAsks, ServerGarbles, ServerWrites
    <3>2. UNCHANGED <<stdin, todo>>
      BY <2>3 DEF ServerAsks, ServerGarbles, ServerWrites
    <3>3. m \in Output /\ m \notin Id
      BY <1>2 DEF Output
    <3>4. ToSet(stdout') = ToSet(stdout) \cup {m} /\ Single(stdout')
      BY <1>2, <3>1, <3>3, Appended, SingleAppend DEF Once
    <3>5. QED
      BY <1>2, <3>2, <3>3, <3>4 DEF Once, Travels
  <2>4. ~ServerStrays
    BY DEF ServerStrays, Does, Honest
  <2>5. CASE ServerExits
    <3>1. stdin' = <<>> /\ todo' = {} /\ UNCHANGED stdout
      BY <2>5 DEF ServerExits, Dies
    <3>2. DOMAIN <<>> = {}
      <4>1. <<>> \in Seq(Id) /\ Len(<<>>) = 0
        BY EmptySeq
      <4>2. QED
        BY <4>1, LenProperties, SMT
    <3>3. ToSet(stdin') = {} /\ Single(stdin')
      BY <3>1, <3>2 DEF ToSet, Single
    <3>4. QED
      BY <3>1, <3>3 DEF Once, Travels
  <2>6. QED
    BY <2>1, <2>2, <2>3, <2>4, <2>5 DEF Server
<1>4. QED
  BY <1>1, <1>3, Drains

LEMMA FlowStep ==
  ASSUME Remembers
  PROVE  Base /\ Base' /\ Flow /\ [Next]_vars => Flow'
<1> SUFFICES ASSUME Base, Base', Flow, [Next]_vars, Honest', fatal' = "none"
             PROVE  reader' # "stray" /\ Once' /\ Known' /\ Counted'
  BY DEF Flow
<1> USE DEF threadVars, tableVars, readerVars, serverVars
<1>1. Honest /\ fatal = "none" /\ (Next => ~Closes)
  <2>6. ~Closes
    BY DEF Closes, CloseFlags, CloseTables, CloseStdin, CloseProcess, CloseStep, Honest
  <2>2. ASSUME NEW c \in Thread, Requests(c)
        PROVE  UNCHANGED <<closing, fatal, deeds>>
    BY <2>2 DEF Requests, Call, Register, Write, WriteFails, Gets, GetObserved, GetAnswer, GetFailure,
                Return, Expire, Retire
  <2>3. CASE Reader
    <3>1. UNCHANGED <<closing, deeds>>
      BY <2>3 DEF Reader, ReadAnswer, ReadAsk, SendReply, ReadGarbage, Flush, ReadEnd, Condemn, Tell,
                  EndQuietly
    <3>2. fatal = "none"
      BY <2>3 DEF Reader, ReadAnswer, ReadAsk, SendReply, ReadGarbage, Flush, ReadEnd, Condemn, Tell,
                  EndQuietly
    <3>3. QED
      BY <2>6, <3>1, <3>2 DEF Honest
  <2>4. CASE Server
    <3>1. UNCHANGED <<closing, fatal>> /\ deeds \subseteq deeds'
      BY <2>4 DEF Server, ServerTakes, ServerAnswers, ServerStrays, ServerAsks, ServerGarbles,
                  ServerExits, Serving, Does
    <3>2. QED
      BY <2>6, <3>1 DEF Honest
  <2>5. CASE UNCHANGED vars
    BY <2>5, <2>6 DEF vars, Honest
  <2>7. QED
    BY <2>2, <2>3, <2>4, <2>5, <2>6 DEF Next, Honest
<1>2. reader # "stray" /\ Once /\ Known /\ Counted
  BY <1>1 DEF Flow
<1>3. Out \subseteq Out'
  BY SpentStays
<1>4. SUFFICES reader' # "stray" /\ Once' /\ Known'
  BY <1>2, CountedStep
<1>5. ASSUME NEW c \in Thread, Requests(c)
      PROVE  reader' # "stray" /\ Once' /\ Known'
  <2>1. UNCHANGED reader
    BY <1>5, Bystanders DEF Register, WriteFails, Retire
  <2>2. QED
    BY <1>2, <1>3, <1>5, <2>1, RequestsFlow
<1>6. CASE Reader
  BY <1>1, <1>2, <1>3, <1>6, ReaderFlow
<1>7. CASE Server
  <2>1. UNCHANGED reader
    BY <1>7, Outside
  <2>2. QED
    BY <1>2, <1>7, <2>1, ServerFlow
<1>8. CASE UNCHANGED vars
  <2>1. UNCHANGED <<at, mine, issued, pending, states, deferred, stdin, stdout, todo, reader>>
    BY <1>8 DEF vars
  <2>2. QED
    BY <1>2, <2>1, Drains DEF Once, Travels
<1>9. QED
  BY <1>1, <1>5, <1>6, <1>7, <1>8 DEF Next

LEMMA BlamelessStep == Flow /\ LateAnswersTolerated /\ [Next]_vars => LateAnswersTolerated'
<1> SUFFICES ASSUME Flow, LateAnswersTolerated, [Next]_vars, fatal' = "stray", Honest'
             PROVE  FALSE
  BY DEF LateAnswersTolerated, Honest
<1> USE DEF threadVars, tableVars, readerVars, serverVars
<1>1. CASE Reader
  <2>1. UNCHANGED <<closing, deeds>>
    BY <1>1 DEF Reader, ReadAnswer, ReadAsk, SendReply, ReadGarbage, Flush, ReadEnd, Condemn, Tell,
                EndQuietly
  <2>2. fatal' = fatal \/ (fatal = "none" /\ fatal' = reader)
    BY <1>1 DEF Reader, ReadAnswer, ReadAsk, SendReply, ReadGarbage, Flush, ReadEnd, Condemn, Tell,
                EndQuietly
  <2>3. QED
    BY <2>1, <2>2 DEF LateAnswersTolerated, Flow, Honest
<1>2. ASSUME NEW c \in Thread, Requests(c)
      PROVE  UNCHANGED <<closing, fatal, deeds>>
  BY <1>2 DEF Requests, Call, Register, Write, WriteFails, Gets, GetObserved, GetAnswer, GetFailure,
              Return, Expire, Retire
<1>3. CASE Closes
  BY <1>3 DEF Closes, CloseFlags, CloseTables, CloseStdin, CloseProcess, CloseStep, Honest
<1>4. CASE Server
  <2>1. UNCHANGED <<closing, fatal>> /\ deeds \subseteq deeds'
    BY <1>4 DEF Server, ServerTakes, ServerAnswers, ServerStrays, ServerAsks, ServerGarbles,
                ServerExits, Serving, Does
  <2>2. QED
    BY <2>1 DEF LateAnswersTolerated, Honest
<1>5. CASE UNCHANGED vars
  BY <1>5 DEF vars, LateAnswersTolerated, Honest
<1>6. QED
  BY <1>1, <1>2, <1>3, <1>4, <1>5 DEF Next, LateAnswersTolerated, Honest

LEMMA StartsEmpty == Init => Attended /\ Flow /\ LateAnswersTolerated
<1> SUFFICES ASSUME Init PROVE Attended /\ Flow /\ LateAnswersTolerated
  OBVIOUS
<1>1. <<>> \in Seq(Id) /\ Len(<<>>) = 0
  BY EmptySeq
<1>2. DOMAIN <<>> = {}
  BY <1>1, LenProperties, SMT
<1>3. ToSet(<<>>) = {} /\ Single(<<>>)
  BY <1>2 DEF ToSet, Single
<1>4. Attended
  BY DEF Init, Attended, Held
<1>5. Counted
  <2>1. TypeOK
    BY BaseInit DEF Base
  <2>2. Cardinality(Out) \in Nat /\ Cardinality(Gone) \in Nat
    BY <2>1, Sizes
  <2>3. Len(retired) = 0
    BY <1>1 DEF Init
  <2>4. QED
    BY <2>2, <2>3, SMT DEF Counted
<1>6. Flow
  BY <1>3, <1>5 DEF Init, Flow, Once, Known, Travels
<1>7. LateAnswersTolerated
  BY DEF Init, LateAnswersTolerated
<1>8. QED
  BY <1>4, <1>6, <1>7

-----------------------------------------------------------------------------
(* The theorems *)

\* The tables, the queues, the pipes and what is held back keep their types, for any
\* threads, requests and deeds of the server, and what is remembered of requests that
\* are over never exceeds its limit (_set_request_state_locked).
THEOREM TypeCorrect == Spec => []TypeOK
<1>1. Base => TypeOK
  BY DEF Base
<1>2. QED
  BY <1>1, BaseInit, BaseStep, PTL DEF Spec

\* For any threads, requests and deeds of the server, a thread that waits is in the
\* tables, has what ends its wait, or is about to be told; and the reader has every
\* answer that was observed (_set_fatal_error, _flush_deferred_responses).
THEOREM NobodyIsForgotten == Spec => []NobodyForgotten
<1>1. Base /\ Attended => NobodyForgotten
  <2>1. SUFFICES ASSUME Base, Attended, closing \in {"open", "flagged"},
                        NEW c \in Thread, at[c] = "wait"
                 PROVE  /\ \/ mine[c] \in pending \cup telling
                           \/ ToSet(queue[c]) \cap {"answer", "follow_up_timeout", "fatal"} # {}
                        /\ fatal = "none" /\ Held(mine[c]) => mine[c] \in ToSet(deferred)
    BY DEF NobodyForgotten
  <2>2. mine[c] \in Id
    BY <2>1, Numbered
  <2>3. QED
    BY <2>1, <2>2 DEF Attended, Attends, Ends
<1>2. Init => Attended
  BY StartsEmpty
<1>3. QED
  BY <1>1, <1>2, BaseInit, BaseStep, AttendedStep, PTL DEF Spec

\* If the transport remembers one less than twice as many requests as are made, a server that answers
\* each request at most once is not accused of a stray answer, however late it answers and
\* whoever gave up in the meantime (_handle_response_message, _flush_deferred_responses).
THEOREM LateAnswersAreTolerated == ASSUME Remembers PROVE Spec => []LateAnswersTolerated
<1>1. Init => Flow /\ LateAnswersTolerated
  BY StartsEmpty
<1>2. Base /\ Flow /\ LateAnswersTolerated /\ [Next]_vars =>
        Base' /\ Flow' /\ LateAnswersTolerated'
  BY BaseStep, FlowStep, BlamelessStep
<1>3. QED
  BY <1>1, <1>2, BaseInit, PTL DEF Spec
=============================================================================
