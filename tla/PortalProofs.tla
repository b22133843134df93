---------------------------- MODULE PortalProofs ----------------------------
(* What is proved of Portal: on each page, what is shown belongs to what is *)
(* selected, for any number of clicks, calls, losses and changes on the     *)
(* server, and any sets of types, filters and roles.                        *)
EXTENDS Portal, SequenceTheorems, FunctionTheorems, FiniteSetTheorems, TLAPS

CallFields == {"kind", "arg", "nth", "token", "phase", "answer"}

IsCalls(s) == s \in Seq(Range(s)) /\ \A i \in DOMAIN s : DOMAIN s[i] = CallFields

\* Where the j-th call was before the i-th one was taken out.
Old(i, j) == IF j < i THEN j ELSE j + 1

\* u is s followed by t, of lengths n and k.
Joins(u, s, t, n, k) ==
    \A j \in 1..(n + k) :
        /\ j <= n => j \in 1..n /\ u[j] = s[j]
        /\ ~(j <= n) => j - n \in 1..k /\ u[j] = t[j - n]

\* A concatenation is the one sequence followed by the other.
LEMMA Concatenated ==
    ASSUME NEW S, NEW s \in Seq(S), NEW t \in Seq(S), NEW n \in Nat, NEW k \in Nat,
           Len(s) = n, Len(t) = k
    PROVE  /\ s \o t \in Seq(S) /\ Len(s \o t) = n + k /\ DOMAIN (s \o t) = 1..(n + k)
           /\ Joins(s \o t, s, t, n, k)
<1>1. /\ s \o t \in Seq(S)
      /\ Len(s \o t) = Len(s) + Len(t)
      /\ \A j \in 1..(Len(s) + Len(t)) : (s \o t)[j] = IF j <= Len(s) THEN s[j] ELSE t[j - Len(s)]
  BY ConcatProperties
<1>2. /\ Len(s \o t) = n + k
      /\ \A j \in 1..(n + k) : (s \o t)[j] = IF j <= n THEN s[j] ELSE t[j - n]
  BY <1>1
<1>3. DOMAIN (s \o t) = 1..(n + k)
  BY <1>1, <1>2, LenProperties
<1>4. ASSUME NEW j \in 1..(n + k)
      PROVE  /\ j <= n => j \in 1..n /\ (s \o t)[j] = s[j]
             /\ ~(j <= n) => j - n \in 1..k /\ (s \o t)[j] = t[j - n]
  <2>1. j <= n => j \in 1..n
    OBVIOUS
  <2>2. ~(j <= n) => j - n \in 1..k
    OBVIOUS
  <2> QED
    BY <1>2, <2>1, <2>2
<1>5. Joins(s \o t, s, t, n, k)
  BY <1>4 DEF Joins
<1> QED
  BY <1>1, <1>2, <1>3, <1>5

\* Taking out an element moves the later ones up by one.
LEMMA Removed ==
    ASSUME NEW S, NEW s \in Seq(S), NEW i \in DOMAIN s
    PROVE  /\ RemoveAt(s, i) \in Seq(S)
           /\ Len(s) \in Nat /\ Len(s) - 1 \in Nat
           /\ Len(RemoveAt(s, i)) = Len(s) - 1
           /\ \A j \in 1..(Len(s) - 1) :
                Old(i, j) \in DOMAIN s /\ Old(i, j) # i /\ RemoveAt(s, i)[j] = s[Old(i, j)]
<1>1. Len(s) \in Nat /\ DOMAIN s = 1..Len(s) /\ i \in 1..Len(s)
  BY LenProperties
<1>2. PICK n \in Nat : n = Len(s)
  BY <1>1
<1>3. PICK a, b : a = SubSeq(s, 1, i - 1) /\ b = SubSeq(s, i + 1, n)
  OBVIOUS
<1>4. \A j \in 1..n : s[j] \in S
  BY <1>1, <1>2, ElementOfSeq
<1>5. a \in Seq(S) /\ Len(a) = i - 1 /\ \A j \in 1..(i - 1) : a[j] = s[j]
  <2>1. \A j \in 1..(i - 1) : s[j] \in S
    BY <1>1, <1>2, <1>4
  <2>2. /\ SubSeq(s, 1, i - 1) \in Seq(S)
        /\ Len(SubSeq(s, 1, i - 1)) = IF 1 <= i - 1 THEN (i - 1) - 1 + 1 ELSE 0
        /\ \A j \in 1..((i - 1) - 1 + 1) : SubSeq(s, 1, i - 1)[j] = s[1 + j - 1]
    BY <1>1, <2>1, SubSeqProperties
  <2> QED
    BY <1>1, <1>3, <2>2
<1>6. b \in Seq(S) /\ Len(b) = n - i /\ \A j \in 1..(n - i) : b[j] = s[i + j]
  <2>1. \A j \in (i + 1)..n : s[j] \in S
    BY <1>1, <1>2, <1>4
  <2>2. /\ SubSeq(s, i + 1, n) \in Seq(S)
        /\ Len(SubSeq(s, i + 1, n)) = IF i + 1 <= n THEN n - (i + 1) + 1 ELSE 0
        /\ \A j \in 1..(n - (i + 1) + 1) : SubSeq(s, i + 1, n)[j] = s[(i + 1) + j - 1]
    BY <1>1, <1>2, <2>1, SubSeqProperties
  <2> QED
    BY <1>1, <1>2, <1>3, <2>2, SMTT(30)
<1>7. i - 1 \in Nat /\ n - i \in Nat /\ n - 1 \in Nat /\ (i - 1) + (n - i) = n - 1
  BY <1>1, <1>2
<1>8. RemoveAt(s, i) = a \o b
  BY <1>2, <1>3 DEF RemoveAt
<1>9. /\ a \o b \in Seq(S)
      /\ Len(a \o b) = n - 1
      /\ \A j \in 1..(n - 1) :
           /\ j <= i - 1 => j \in 1..(i - 1) /\ (a \o b)[j] = a[j]
           /\ ~(j <= i - 1) => j - (i - 1) \in 1..(n - i) /\ (a \o b)[j] = b[j - (i - 1)]
  <2>1. PICK k \in Nat, l \in Nat : k = i - 1 /\ l = n - i
    BY <1>7
  <2>2. a \in Seq(S) /\ b \in Seq(S) /\ Len(a) = k /\ Len(b) = l
    BY <1>5, <1>6, <2>1
  <2>3. a \o b \in Seq(S) /\ Len(a \o b) = k + l /\ Joins(a \o b, a, b, k, l)
    BY <2>2, Concatenated
  <2>4. k + l = n - 1
    BY <1>7, <2>1
  <2> QED
    BY <2>1, <2>3, <2>4 DEF Joins
<1>10. ASSUME NEW j \in 1..(n - 1)
       PROVE  Old(i, j) \in DOMAIN s /\ Old(i, j) # i /\ (a \o b)[j] = s[Old(i, j)]
  <2>1. CASE j < i
    <3>1. j \in 1..(i - 1) /\ Old(i, j) = j /\ j # i /\ j \in 1..n
      BY <1>1, <1>2, <2>1 DEF Old
    <3>2. (a \o b)[j] = a[j] /\ a[j] = s[j]
      BY <1>5, <1>9, <3>1
    <3> QED
      BY <1>1, <1>2, <3>1, <3>2
  <2>2. CASE ~(j < i)
    <3>1. Old(i, j) = j + 1 /\ j + 1 # i /\ j + 1 \in 1..n /\ ~(j <= i - 1)
      BY <1>1, <1>2, <2>2 DEF Old
    <3>2. j - (i - 1) \in 1..(n - i) /\ (a \o b)[j] = b[j - (i - 1)]
      BY <1>9, <3>1
    <3>3. b[j - (i - 1)] = s[i + (j - (i - 1))]
      BY <1>6, <3>2
    <3>4. i + (j - (i - 1)) = j + 1
      BY <1>1, <1>2
    <3> QED
      BY <1>1, <1>2, <3>1, <3>2, <3>3, <3>4
  <2> QED
    BY <2>1, <2>2
<1>11. \A j \in 1..(n - 1) :
         Old(i, j) \in DOMAIN s /\ Old(i, j) # i /\ RemoveAt(s, i)[j] = s[Old(i, j)]
  BY <1>8, <1>10
<1>12. RemoveAt(s, i) \in Seq(S) /\ Len(RemoveAt(s, i)) = n - 1
  BY <1>8, <1>9
<1> QED
  BY <1>1, <1>2, <1>7, <1>11, <1>12

\* The calls after an answer was heard: those that are left, then those made.
LEMMA Answered ==
    ASSUME IsCalls(calls), NEW i \in DOMAIN calls, NEW made, IsCalls(made),
           calls' = RemoveAt(calls, i) \o made
    PROVE  /\ IsCalls(calls')
           /\ Len(calls) - 1 \in Nat /\ Len(made) \in Nat /\ DOMAIN made = 1..Len(made)
           /\ Len(calls') = (Len(calls) - 1) + Len(made)
           /\ DOMAIN calls' = 1..((Len(calls) - 1) + Len(made))
           /\ \A j \in DOMAIN calls' :
                IF j <= Len(calls) - 1
                THEN Old(i, j) \in DOMAIN calls /\ Old(i, j) # i /\ calls'[j] = calls[Old(i, j)]
                ELSE j - (Len(calls) - 1) \in DOMAIN made /\ calls'[j] = made[j - (Len(calls) - 1)]
<1>1. PICK rest : rest = RemoveAt(calls, i)
  OBVIOUS
<1>2. PICK S : S = Range(calls) \cup Range(made)
  OBVIOUS
<1>3. calls \in Seq(S) /\ made \in Seq(S)
  BY <1>2, SeqMonotonic DEF IsCalls
<1>4. /\ rest \in Seq(S)
      /\ Len(calls) \in Nat /\ Len(calls) - 1 \in Nat
      /\ Len(rest) = Len(calls) - 1
      /\ \A j \in 1..(Len(calls) - 1) :
           Old(i, j) \in DOMAIN calls /\ Old(i, j) # i /\ rest[j] = calls[Old(i, j)]
  BY <1>1, <1>3, Removed
<1>5. PICK n \in Nat : n = Len(calls) - 1
  BY <1>4
<1>6. PICK k \in Nat : k = Len(made)
  BY <1>3, LenProperties
<1>7. DOMAIN made = 1..k
  BY <1>3, <1>6, LenProperties
<1>8. Len(rest) = n /\ rest \in Seq(S) /\ Len(made) = k /\ made \in Seq(S)
  BY <1>3, <1>4, <1>5, <1>6
<1>9. /\ rest \o made \in Seq(S)
      /\ Len(rest \o made) = n + k
      /\ DOMAIN (rest \o made) = 1..(n + k)
      /\ Joins(rest \o made, rest, made, n, k)
  BY <1>8, Concatenated
<1>10. ASSUME NEW j \in DOMAIN calls'
       PROVE  IF j <= n
              THEN Old(i, j) \in DOMAIN calls /\ Old(i, j) # i /\ calls'[j] = calls[Old(i, j)]
              ELSE j - n \in DOMAIN made /\ calls'[j] = made[j - n]
  <2>1. calls' = rest \o made
    BY <1>1
  <2>2. j \in 1..(n + k)
    BY <1>9, <2>1
  <2>3. CASE j <= n
    <3>1. j \in 1..n /\ calls'[j] = rest[j]
      BY <1>9, <2>1, <2>2, <2>3 DEF Joins
    <3>2. Old(i, j) \in DOMAIN calls /\ Old(i, j) # i /\ rest[j] = calls[Old(i, j)]
      BY <1>4, <1>5, <3>1
    <3> QED
      BY <2>3, <3>1, <3>2
  <2>4. CASE ~(j <= n)
    <3>1. j - n \in 1..k /\ calls'[j] = made[j - n]
      BY <1>9, <2>1, <2>2, <2>4 DEF Joins
    <3> QED
      BY <1>7, <2>4, <3>1
  <2> QED
    BY <2>3, <2>4
<1>11. calls' \in Seq(Range(calls'))
  BY <1>1, <1>9, SeqOfRange
<1>12. \A j \in DOMAIN calls' : DOMAIN calls'[j] = CallFields
  BY <1>10 DEF IsCalls
<1>13. Len(calls') = n + k /\ DOMAIN calls' = 1..(n + k)
  BY <1>1, <1>9
<1> QED
  BY <1>5, <1>6, <1>7, <1>10, <1>11, <1>12, <1>13 DEF IsCalls

\* The calls after some were made.
LEMMA Appended ==
    ASSUME IsCalls(calls), NEW made, IsCalls(made),
           calls' = calls \o made
    PROVE  /\ IsCalls(calls')
           /\ Len(calls) \in Nat /\ Len(made) \in Nat /\ DOMAIN made = 1..Len(made)
           /\ DOMAIN calls = 1..Len(calls)
           /\ DOMAIN calls' = 1..(Len(calls) + Len(made))
           /\ \A j \in DOMAIN calls' :
                IF j <= Len(calls) THEN j \in DOMAIN calls /\ calls'[j] = calls[j]
                ELSE j - Len(calls) \in DOMAIN made /\ calls'[j] = made[j - Len(calls)]
<1>1. PICK S : S = Range(calls) \cup Range(made)
  OBVIOUS
<1>2. calls \in Seq(S) /\ made \in Seq(S)
  BY <1>1, SeqMonotonic DEF IsCalls
<1>3. PICK n \in Nat, k \in Nat : n = Len(calls) /\ k = Len(made)
  BY <1>2, LenProperties
<1>4. DOMAIN calls = 1..n /\ DOMAIN made = 1..k
  BY <1>2, <1>3, LenProperties
<1>5. /\ calls \o made \in Seq(S)
      /\ Len(calls \o made) = n + k
      /\ DOMAIN (calls \o made) = 1..(n + k)
      /\ Joins(calls \o made, calls, made, n, k)
  BY <1>2, <1>3, Concatenated
<1>6. calls' \in Seq(S) /\ DOMAIN calls' = 1..(n + k)
  BY <1>5
<1>7. ASSUME NEW j \in DOMAIN calls'
      PROVE  IF j <= n THEN j \in DOMAIN calls /\ calls'[j] = calls[j]
             ELSE j - n \in DOMAIN made /\ calls'[j] = made[j - n]
  <2>1. j \in 1..(n + k)
    BY <1>6
  <2>2. CASE j <= n
    BY <1>4, <1>5, <2>1, <2>2 DEF Joins
  <2>3. CASE ~(j <= n)
    BY <1>4, <1>5, <2>1, <2>3 DEF Joins
  <2> QED
    BY <2>2, <2>3
<1>8. calls' \in Seq(Range(calls'))
  BY <1>6, SeqOfRange
<1>9. \A j \in DOMAIN calls' : DOMAIN calls'[j] = CallFields
  BY <1>7 DEF IsCalls
<1> QED
  BY <1>3, <1>4, <1>6, <1>7, <1>8, <1>9 DEF IsCalls

\* The calls after the server has handled one.
LEMMA Handled ==
    ASSUME IsCalls(calls), NEW i \in DOMAIN calls, Handle(i)
    PROVE  /\ IsCalls(calls') /\ DOMAIN calls' = DOMAIN calls
           /\ UNCHANGED <<page, leaving, token, ui>>
           /\ \A j \in DOMAIN calls :
                /\ calls'[j].kind = calls[j].kind /\ calls'[j].arg = calls[j].arg
                /\ calls'[j].nth = calls[j].nth
                /\ j # i => calls'[j] = calls[j]
           /\ calls[i].phase = "sent" /\ calls'[i].phase = "answered"
           /\ \E o \in Outcomes(calls[i]) : server' = o[1] /\ calls'[i].answer = o[2]
<1>1. PICK o \in Outcomes(calls[i]) :
        /\ server' = o[1]
        /\ calls' = [calls EXCEPT ![i].phase = "answered", ![i].answer = o[2]]
  BY DEF Handle
<1>2. PICK c : c = [calls[i] EXCEPT !.phase = "answered", !.answer = o[2]]
  OBVIOUS
<1>3. calls' = [calls EXCEPT ![i] = c]
  BY <1>1, <1>2
<1>4. DOMAIN calls[i] = CallFields
  BY DEF IsCalls
<1>5. /\ DOMAIN c = CallFields /\ c.kind = calls[i].kind /\ c.arg = calls[i].arg
      /\ c.nth = calls[i].nth /\ c.answer = o[2] /\ c.phase = "answered"
  BY <1>2, <1>4 DEF CallFields
<1>6. DOMAIN calls' = DOMAIN calls /\ calls'[i] = c /\ \A j \in DOMAIN calls : j # i => calls'[j] = calls[j]
  BY <1>3
<1>7. calls' \in Seq(Range(calls'))
  <2>1. PICK S : S = Range(calls) \cup {c}
    OBVIOUS
  <2>2. calls \in Seq(S) /\ c \in S
    BY <2>1, SeqMonotonic DEF IsCalls
  <2>3. i \in 1..Len(calls)
    BY <2>2, LenProperties
  <2>4. calls' \in Seq(S)
    BY <1>3, <2>2, <2>3, ExceptSeq
  <2> QED
    BY <2>4, SeqOfRange
<1>8. IsCalls(calls')
  BY <1>5, <1>6, <1>7 DEF IsCalls
<1> QED
  BY <1>1, <1>5, <1>6, <1>8 DEF Handle

-----------------------------------------------------------------------------
(* The tab: a running page has the fields of its script and its own calls. *)

Fields(p) ==
    CASE p = "login"         -> {"view", "busy"}
      [] p = "list"          -> {"view", "filter", "loading", "shown"}
      [] p = "notifications" -> {"view"}
      [] p = "create"        -> {"view", "catalog", "step", "nth", "selected", "form", "fields",
                                 "late", "submitting"}
      [] p = "detail"        -> {"view", "nth", "busy", "error", "panel", "stale", "got", "shown", "acted"}

Kinds(p) ==
    CASE p = "login"         -> {"login"}
      [] p = "list"          -> {"list"}
      [] p = "notifications" -> {"notes"}
      [] p = "create"        -> {"types", "schema", "create"}
      [] p = "detail"        -> Parts \cup {"names", "execute"}

Running == ui.view # "redirecting"

Runs(u, p) == u.view # "redirecting" /\ DOMAIN u = Fields(p)
Makes(s, p) == IsCalls(s) /\ \A i \in DOMAIN s : s[i].kind \in Kinds(p)

TabInv ==
    /\ leaving \in Pages \cup {""}
    /\ IsCalls(calls)
    /\ ~Running => calls = <<>>
    /\ Running => page \in Pages /\ Runs(ui, page) /\ Makes(calls, page)

\* A page without calls in flight.
LEMMA NoCall == IsCalls(<<>>) /\ DOMAIN <<>> = {} /\ Len(<<>>) = 0
<1>1. <<>> \in Seq({})
  OBVIOUS
<1>2. DOMAIN <<>> = {} /\ Len(<<>>) = 0
  OBVIOUS
<1>3. <<>> \in Seq(Range(<<>>))
  BY <1>1, SeqOfRange
<1> QED
  BY <1>2, <1>3 DEF IsCalls

\* What apiFetch puts in flight.
LEMMA CallIs ==
    ASSUME NEW kind, NEW arg, NEW nth
    PROVE  LET c == Call(kind, arg, nth)
           IN  DOMAIN c = CallFields /\ c.kind = kind /\ c.arg = arg /\ c.nth = nth /\ c.phase = "sent"
BY DEF Call, CallFields

\* One call in flight.
LEMMA OneCall ==
    ASSUME NEW c, DOMAIN c = CallFields
    PROVE  IsCalls(<<c>>) /\ Len(<<c>>) = 1 /\ DOMAIN <<c>> = {1} /\ <<c>>[1] = c
<1>1. Len(<<c>>) = 1 /\ DOMAIN <<c>> = {1} /\ <<c>>[1] = c
  OBVIOUS
<1>2. <<c>> \in Seq({c})
  OBVIOUS
<1>3. <<c>> \in Seq(Range(<<c>>))
  BY <1>2, SeqOfRange
<1> QED
  BY <1>1, <1>3 DEF IsCalls

\* A load of the request page makes one call for each part.
LEMMA LoadCalls ==
    ASSUME NEW nth
    PROVE  LET s == DetailCalls(nth)
           IN  /\ IsCalls(s) /\ DOMAIN s = 1..3
               /\ \A i \in 1..3 : s[i].kind \in Parts /\ s[i].nth = nth /\ s[i].phase = "sent"
               /\ \A i, j \in 1..3 : i # j => s[i].kind # s[j].kind
<1> DEFINE a == Call("card", Nothing, nth)
           b == Call("history", Nothing, nth)
           c == Call("actions", Nothing, nth)
<1>1. /\ DOMAIN a = CallFields /\ a.kind = "card" /\ a.nth = nth /\ a.phase = "sent"
      /\ DOMAIN b = CallFields /\ b.kind = "history" /\ b.nth = nth /\ b.phase = "sent"
      /\ DOMAIN c = CallFields /\ c.kind = "actions" /\ c.nth = nth /\ c.phase = "sent"
  BY CallIs
<1>2. DetailCalls(nth) = <<a, b, c>>
  BY DEF DetailCalls
<1> HIDE DEF a, b, c
<1>3. DOMAIN <<a, b, c>> = 1..3 /\ <<a, b, c>>[1] = a /\ <<a, b, c>>[2] = b /\ <<a, b, c>>[3] = c
  OBVIOUS
<1>4. <<a, b, c>> \in Seq(Range(<<a, b, c>>))
  <2>1. <<a, b, c>> \in Seq({a, b, c})
    OBVIOUS
  <2> QED
    BY <2>1, SeqOfRange
<1>5. \A i \in 1..3 : i = 1 \/ i = 2 \/ i = 3
  OBVIOUS
<1>6. IsCalls(<<a, b, c>>)
  BY <1>1, <1>3, <1>4, <1>5 DEF IsCalls
<1>7. \A i \in 1..3 : LET d == <<a, b, c>>[i] IN d.kind \in Parts /\ d.nth = nth /\ d.phase = "sent"
  BY <1>1, <1>3, <1>5 DEF Parts
<1>8. \A i, j \in 1..3 : i # j => <<a, b, c>>[i].kind # <<a, b, c>>[j].kind
  BY <1>1, <1>3, <1>5
<1> QED
  BY <1>2, <1>3, <1>6, <1>7, <1>8

\* A page that makes one call of a kind that is its own.
LEMMA MakesOne ==
    ASSUME NEW p, NEW kind \in Kinds(p), NEW arg, NEW nth
    PROVE  LET s == <<Call(kind, arg, nth)>>
           IN  Makes(s, p) /\ Len(s) = 1 /\ DOMAIN s = {1} /\ s[1] = Call(kind, arg, nth)
<1>1. PICK c : c = Call(kind, arg, nth)
  OBVIOUS
<1>2. DOMAIN c = CallFields /\ c.kind = kind
  BY <1>1, CallIs
<1>3. IsCalls(<<c>>) /\ Len(<<c>>) = 1 /\ DOMAIN <<c>> = {1} /\ <<c>>[1] = c
  BY <1>2, OneCall
<1> QED
  BY <1>1, <1>2, <1>3 DEF Makes

\* A page that loads runs its own script or leaves at once.
LEMMA Loaded ==
    ASSUME NEW p \in Pages, Load(p)
    PROVE  /\ page' = p /\ leaving' \in Pages \cup {""}
           /\ \/ ui' = [view |-> "redirecting"] /\ calls' = <<>>
              \/ ui' = Script(p) /\ calls' = FirstCalls(p)
           /\ Runs(Script(p), p) /\ Makes(FirstCalls(p), p)
<1>1. Runs(Script(p), p)
  BY DEF Pages, Script, Runs, Fields
<1>2. Makes(FirstCalls(p), p)
  <2>1. CASE p = "login"
    BY <2>1, NoCall DEF FirstCalls, Makes
  <2>2. CASE p = "list"
    <3>1. PICK arg : arg = [filter |-> ""]
      OBVIOUS
    <3>2. FirstCalls(p) = <<Call("list", arg, 0)>> /\ "list" \in Kinds(p)
      BY <2>2, <3>1 DEF FirstCalls, Kinds
    <3> QED
      BY <3>2, MakesOne
  <2>3. CASE p = "notifications"
    <3>1. FirstCalls(p) = <<Call("notes", Nothing, 0)>> /\ "notes" \in Kinds(p)
      BY <2>3 DEF FirstCalls, Kinds
    <3> QED
      BY <3>1, MakesOne
  <2>4. CASE p = "create"
    <3>1. FirstCalls(p) = <<Call("types", Nothing, 0)>> /\ "types" \in Kinds(p)
      BY <2>4 DEF FirstCalls, Kinds
    <3> QED
      BY <3>1, MakesOne
  <2>5. CASE p = "detail"
    <3>1. FirstCalls(p) = DetailCalls(1) /\ Parts \subseteq Kinds(p)
      BY <2>5 DEF FirstCalls, Kinds
    <3>2. IsCalls(DetailCalls(1)) /\ DOMAIN DetailCalls(1) = 1..3
      BY LoadCalls
    <3>3. \A i \in 1..3 : DetailCalls(1)[i].kind \in Parts
      BY LoadCalls
    <3> QED
      BY <3>1, <3>2, <3>3 DEF Makes
  <2> QED
    BY <2>1, <2>2, <2>3, <2>4, <2>5 DEF Pages
<1>3. leaving' \in Pages \cup {""}
  BY DEF Load, Pages
<1> QED
  BY <1>1, <1>2, <1>3 DEF Load

\* What a page may do with an answer.
Fine(h, p) == Runs(h.ui, p) /\ Makes(h.made, p) /\ h.target \in Pages \cup {""}

\* A handler that only changes what the page shows is fine.
LEMMA Shows ==
    ASSUME NEW p, Runs(ui, p), NEW script, DOMAIN script = DOMAIN ui, script.view # "redirecting"
    PROVE  Fine(Show(script), p)
BY NoCall DEF Show, Then, Fine, Makes, Runs

\* A handler that makes calls of its page is fine.
LEMMA Calls ==
    ASSUME NEW p, NEW script, Runs(script, p), NEW made, Makes(made, p)
    PROVE  Fine(Then(script, made, ""), p)
BY DEF Then, Fine

\* The handler of a login is fine.
LEMMA HearLoginFine ==
    ASSUME NEW c, NEW answer, Runs(ui, "login")
    PROVE  Fine(HearLogin(c, answer), "login")
<1>1. CASE Ok(answer)
  BY <1>1, NoCall DEF HearLogin, Then, Fine, Makes, Pages
<1>2. CASE ~Ok(answer)
  <2>1. PICK new : new = [ui EXCEPT !.view = "error", !.busy = FALSE]
    OBVIOUS
  <2>2. DOMAIN new = DOMAIN ui /\ new.view = "error"
    BY <2>1 DEF Runs, Fields
  <2> QED
    BY <1>2, <2>1, <2>2, Shows DEF HearLogin
<1> QED
  BY <1>1, <1>2

\* The handler of the list is fine.
LEMMA HearListFine ==
    ASSUME NEW c, NEW answer, Runs(ui, "list")
    PROVE  Fine(HearList(c, answer), "list")
<1>1. PICK new : /\ new = IF Ok(answer)
                           THEN [ui EXCEPT !.view = "rows", !.shown = answer.body.filter, !.loading = FALSE]
                           ELSE [ui EXCEPT !.view = "error", !.loading = FALSE]
  OBVIOUS
<1>2. DOMAIN new = DOMAIN ui /\ new.view # "redirecting"
  BY <1>1 DEF Runs, Fields
<1> QED
  BY <1>1, <1>2, Shows DEF HearList

\* The handler of the notifications is fine.
LEMMA HearNotesFine ==
    ASSUME NEW c, NEW answer, Runs(ui, "notifications")
    PROVE  Fine(HearNotes(c, answer), "notifications")
<1>1. PICK new : new = [ui EXCEPT !.view = IF Ok(answer) THEN "rows" ELSE "error"]
  OBVIOUS
<1>2. DOMAIN new = DOMAIN ui /\ new.view # "redirecting"
  BY <1>1 DEF Runs, Fields
<1> QED
  BY <1>1, <1>2, Shows DEF HearNotes

\* The handlers of the creation page are fine.
LEMMA HearCreatingFine ==
    ASSUME NEW c, NEW answer, Runs(ui, "create")
    PROVE  /\ Fine(HearTypes(c, answer), "create")
           /\ Fine(HearSchema(c, answer), "create")
           /\ Fine(HearCreate(c, answer), "create")
<1>1. Fine(HearTypes(c, answer), "create")
  <2>1. PICK new : new = IF ~Ok(answer) THEN [ui EXCEPT !.view = "error"]
                         ELSE IF answer.body.types = {} THEN [ui EXCEPT !.view = "empty"]
                         ELSE [ui EXCEPT !.view = "catalog", !.catalog = answer.body.types]
    OBVIOUS
  <2>2. DOMAIN new = DOMAIN ui /\ new.view # "redirecting"
    BY <2>1 DEF Runs, Fields
  <2> QED
    BY <2>1, <2>2, Shows DEF HearTypes
<1>2. Fine(HearSchema(c, answer), "create")
  <2>1. PICK new : new = IF Ok(answer)
                         THEN [ui EXCEPT !.form = "content", !.fields = c.arg.type, !.late = c.nth # ui.nth]
                         ELSE [ui EXCEPT !.form = IF @ = "content" THEN @ ELSE "error"]
    OBVIOUS
  <2>2. DOMAIN new = DOMAIN ui /\ new.view # "redirecting"
    BY <2>1 DEF Runs, Fields
  <2> QED
    BY <2>1, <2>2, Shows DEF HearSchema
<1>3. Fine(HearCreate(c, answer), "create")
  <2>1. CASE Ok(answer)
    BY <2>1, NoCall DEF HearCreate, Then, Fine, Makes, Pages
  <2>2. CASE ~Ok(answer)
    <3>1. PICK new : new = [ui EXCEPT !.submitting = FALSE]
      OBVIOUS
    <3>2. DOMAIN new = DOMAIN ui /\ new.view # "redirecting"
      BY <3>1 DEF Runs, Fields
    <3> QED
      BY <2>2, <3>1, <3>2, Shows DEF HearCreate
  <2> QED
    BY <2>1, <2>2
<1> QED
  BY <1>1, <1>2, <1>3

\* The handler of a part of the request page is fine, whether or not the load is current.
LEMMA HearPartFine ==
    ASSUME NEW c, NEW answer, Runs(ui, "detail")
    PROVE  Fine(HearPart(c, answer), "detail")
<1>1. PICK got : got = [p \in DOMAIN ui.got \cup {c.kind} |->
                          IF p = c.kind THEN answer.body.version ELSE ui.got[p]]
  OBVIOUS
<1>2. PICK new : new = [ui EXCEPT !.got = got]
  OBVIOUS
<1>3. DOMAIN new = DOMAIN ui /\ new.view = ui.view /\ new.view # "redirecting"
  BY <1>2 DEF Runs, Fields
<1>4. CASE c.nth # ui.nth
  <2>1. HearPart(c, answer) = Show(ui)
    BY <1>4 DEF HearPart
  <2> QED
    BY <2>1, Shows DEF Runs
<1>5. CASE c.nth = ui.nth /\ ~Ok(answer)
  <2>1. PICK old : old = [ui EXCEPT !.nth = @ + 1, !.busy = FALSE, !.error = ui.view = "shown",
                                    !.stale = ui.view = "shown",
                                    !.view = IF ui.view = "shown" THEN @ ELSE "error"]
    OBVIOUS
  <2>2. HearPart(c, answer) = Show(old)
    BY <1>5, <2>1 DEF HearPart
  <2>3. DOMAIN old = DOMAIN ui /\ old.view # "redirecting"
    BY <2>1 DEF Runs, Fields
  <2> QED
    BY <2>2, <2>3, Shows
<1>6. CASE c.nth = ui.nth /\ Ok(answer) /\ DOMAIN new.got # Parts
  <2>1. HearPart(c, answer) = Show(new)
    BY <1>1, <1>2, <1>6 DEF HearPart
  <2> QED
    BY <1>3, <2>1, Shows
<1>7. CASE c.nth = ui.nth /\ Ok(answer) /\ DOMAIN new.got = Parts /\ ui.view = "shown"
  <2>1. HearPart(c, answer) = Show(Rendered(new))
    BY <1>1, <1>2, <1>7 DEF HearPart
  <2>2. DOMAIN Rendered(new) = DOMAIN ui /\ Rendered(new).view # "redirecting"
    BY <1>3 DEF Rendered, Runs, Fields
  <2> QED
    BY <2>1, <2>2, Shows
<1>8. CASE c.nth = ui.nth /\ Ok(answer) /\ DOMAIN new.got = Parts /\ ui.view # "shown"
  <2>1. HearPart(c, answer) = Then(new, <<Call("names", Nothing, ui.nth)>>, "")
    BY <1>1, <1>2, <1>8 DEF HearPart
  <2>2. Makes(<<Call("names", Nothing, ui.nth)>>, "detail")
    <3>1. "names" \in Kinds("detail")
      BY DEF Kinds
    <3> QED
      BY <3>1, MakesOne
  <2> QED
    BY <1>3, <2>1, <2>2, Calls DEF Runs
<1> QED
  BY <1>4, <1>5, <1>6, <1>7, <1>8

\* The handler of the names is fine.
LEMMA HearNamesFine ==
    ASSUME NEW c, NEW answer, Runs(ui, "detail")
    PROVE  Fine(HearNames(c, answer), "detail")
<1>1. DOMAIN Rendered(ui) = DOMAIN ui /\ Rendered(ui).view # "redirecting"
  BY DEF Rendered, Runs, Fields
<1> QED
  BY <1>1, Shows DEF HearNames

\* The handler of an executed action is fine.
LEMMA HearExecuteFine ==
    ASSUME NEW c, NEW answer, Runs(ui, "detail")
    PROVE  Fine(HearExecute(c, answer), "detail")
<1>1. CASE Ok(answer)
  <2>1. PICK new : new = [ui EXCEPT !.nth = @ + 1, !.got = <<>>, !.acted = answer.body.version,
                                    !.panel = FALSE]
    OBVIOUS
  <2>2. HearExecute(c, answer) = Then(new, DetailCalls(ui.nth + 1), "")
    BY <1>1, <2>1 DEF HearExecute
  <2>3. Runs(new, "detail")
    BY <2>1 DEF Runs, Fields
  <2>4. Makes(DetailCalls(ui.nth + 1), "detail")
    <3>1. PICK s : s = DetailCalls(ui.nth + 1)
      OBVIOUS
    <3>2. IsCalls(s) /\ DOMAIN s = 1..3 /\ \A i \in 1..3 : s[i].kind \in Parts
      BY <3>1, LoadCalls
    <3>3. Parts \subseteq Kinds("detail")
      BY DEF Kinds
    <3> QED
      BY <3>1, <3>2, <3>3 DEF Makes
  <2> QED
    BY <2>2, <2>3, <2>4, Calls
<1>2. CASE ~Ok(answer)
  <2>1. PICK new : new = [ui EXCEPT !.busy = FALSE, !.error = TRUE]
    OBVIOUS
  <2>2. DOMAIN new = DOMAIN ui /\ new.view # "redirecting"
    BY <2>1 DEF Runs, Fields
  <2> QED
    BY <1>2, <2>1, <2>2, Shows DEF HearExecute
<1> QED
  BY <1>1, <1>2

\* Whatever a page hears, it stays itself or leaves.
LEMMA HeardFine ==
    ASSUME NEW c, page \in Pages, Runs(ui, page), c.kind \in Kinds(page), NEW answer
    PROVE  Fine(Heard(c, answer), page)
<1>1. CASE page = "login"
  <2>1. Heard(c, answer) = HearLogin(c, answer)
    BY <1>1 DEF Heard, Kinds, Parts
  <2> QED
    BY <1>1, <2>1, HearLoginFine
<1>2. CASE page = "list"
  <2>1. Heard(c, answer) = HearList(c, answer)
    BY <1>2 DEF Heard, Kinds, Parts
  <2> QED
    BY <1>2, <2>1, HearListFine
<1>3. CASE page = "notifications"
  <2>1. Heard(c, answer) = HearNotes(c, answer)
    BY <1>3 DEF Heard, Kinds, Parts
  <2> QED
    BY <1>3, <2>1, HearNotesFine
<1>4. CASE page = "create"
  <2>1. Heard(c, answer) \in {HearTypes(c, answer), HearSchema(c, answer), HearCreate(c, answer)}
    BY <1>4 DEF Heard, Kinds, Parts
  <2> QED
    BY <1>4, <2>1, HearCreatingFine
<1>5. CASE page = "detail"
  <2>1. Heard(c, answer) \in {HearPart(c, answer), HearNames(c, answer), HearExecute(c, answer)}
    BY <1>5 DEF Heard, Kinds, Parts
  <2> QED
    BY <1>5, <2>1, HearPartFine, HearNamesFine, HearExecuteFine
<1> QED
  BY <1>1, <1>2, <1>3, <1>4, <1>5 DEF Pages

\* A page hears the i-th call: its answer, or that it was lost.
Hears(i, answer) ==
    /\ \/ answer = Answer(0, Nothing)
       \/ calls[i].phase = "answered" /\ answer = calls[i].answer
    /\ React(i, answer, RemoveAt(calls, i))

\* The clicks on the page of a request: they execute an action, or only open,
\* fill or close the comment panel.
DetailClick == ClickAction \/ ConfirmComment \/ CancelComment

OfPanel(u) ==
    \/ u = [ui EXCEPT !.error = FALSE, !.panel = TRUE]
    \/ u = [ui EXCEPT !.error = TRUE]
    \/ u = [ui EXCEPT !.panel = FALSE, !.error = FALSE]

LEMMA DetailClicks ==
    ASSUME DetailClick
    PROVE  Idle /\ (Execute \/ \E u : OfPanel(u) /\ Handler(u, <<>>))
<1>1. CASE ClickAction
  BY <1>1 DEF ClickAction, OfPanel
<1>2. CASE ConfirmComment
  BY <1>2 DEF ConfirmComment, OfPanel
<1>3. CASE CancelComment
  BY <1>3 DEF CancelComment, OfPanel
<1> QED
  BY <1>1, <1>2, <1>3 DEF DetailClick

\* The clicks that change what the page shows.
PageClick ==
    \/ SubmitLogin \/ Retry \/ ShowSelectStep \/ SubmitForm \/ DetailClick
    \/ \E f \in Filters : ChooseFilter(f)
    \/ \E t \in Types : OpenFormForType(t)

\* Every step is one of six kinds.
LEMMA Steps ==
    ASSUME TabInv, [Next]_vars
    PROVE  \/ UNCHANGED <<page, ui, calls>> /\ leaving' \in Pages \cup {""}
           \/ \E p \in Pages : Load(p)
           \/ \E i \in DOMAIN calls : Handle(i)
           \/ \E i \in DOMAIN calls : \E answer : Hears(i, answer)
           \/ PageClick
<1>1. CASE Arrive
  BY <1>1 DEF Arrive, TabInv
<1>2. CASE Serve
  BY <1>2 DEF Serve
<1>3. CASE Listen
  BY <1>3 DEF Listen, Hear, Hears
<1>4. CASE \E i \in DOMAIN calls : Lose(i)
  BY <1>4 DEF Lose, Hears
<1>5. CASE Click
  <2>1. CASE LogOut
    BY <2>1 DEF LogOut, Pages
  <2>2. CASE \E p \in Pages : Visit(p)
    BY <2>2 DEF Visit
  <2> QED
    BY <1>5, <2>1, <2>2 DEF Click, PageClick, DetailClick
<1>6. CASE Event
  BY <1>6 DEF Event, TabInv
<1>7. CASE UNCHANGED vars
  BY <1>7 DEF vars, TabInv
<1> QED
  BY <1>1, <1>2, <1>3, <1>4, <1>5, <1>6, <1>7 DEF Next

\* The calls of a page stay its own when an answer is taken and calls are made.
LEMMA MakesAfter ==
    ASSUME NEW p, Makes(calls, p), NEW made, Makes(made, p),
           \/ \E i \in DOMAIN calls : calls' = RemoveAt(calls, i) \o made
           \/ calls' = calls \o made
    PROVE  Makes(calls', p)
<1>0. IsCalls(calls) /\ IsCalls(made)
  BY DEF Makes
<1>1. CASE \E i \in DOMAIN calls : calls' = RemoveAt(calls, i) \o made
  <2>1. PICK i \in DOMAIN calls : calls' = RemoveAt(calls, i) \o made
    BY <1>1
  <2>2. /\ IsCalls(calls')
        /\ \A j \in DOMAIN calls' :
             IF j <= Len(calls) - 1
             THEN Old(i, j) \in DOMAIN calls /\ Old(i, j) # i /\ calls'[j] = calls[Old(i, j)]
             ELSE j - (Len(calls) - 1) \in DOMAIN made /\ calls'[j] = made[j - (Len(calls) - 1)]
    BY <1>0, <2>1, Answered
  <2>3. ASSUME NEW j \in DOMAIN calls'
        PROVE  calls'[j].kind \in Kinds(p)
    BY <2>2, <2>3 DEF Makes
  <2> QED
    BY <2>2, <2>3 DEF Makes
<1>2. CASE calls' = calls \o made
  <2>1. /\ IsCalls(calls')
        /\ \A j \in DOMAIN calls' :
             IF j <= Len(calls) THEN j \in DOMAIN calls /\ calls'[j] = calls[j]
             ELSE j - Len(calls) \in DOMAIN made /\ calls'[j] = made[j - Len(calls)]
    BY <1>0, <1>2, Appended
  <2>2. ASSUME NEW j \in DOMAIN calls'
        PROVE  calls'[j].kind \in Kinds(p)
    BY <2>1, <2>2 DEF Makes
  <2> QED
    BY <2>1, <2>2 DEF Makes
<1> QED
  BY <1>1, <1>2

\* A page that hears a call is running, and goes on as Heard says.
LEMMA HearsFine ==
    ASSUME TabInv, NEW i \in DOMAIN calls, NEW answer, Hears(i, answer)
    PROVE  LET h == Heard(calls[i], answer)
           IN  /\ Running /\ page' = page /\ page \in Pages /\ leaving' \in Pages \cup {""}
               /\ Fine(h, page) /\ Makes(calls, page)
               /\ ui' = h.ui /\ calls' = RemoveAt(calls, i) \o h.made
<1>1. Running
  BY NoCall DEF TabInv
<1>2. page \in Pages /\ Runs(ui, page) /\ Makes(calls, page) /\ leaving \in Pages \cup {""}
  BY <1>1 DEF TabInv
<1>3. PICK h : h = Heard(calls[i], answer)
  OBVIOUS
<1>4. Fine(h, page)
  <2>1. calls[i].kind \in Kinds(page)
    BY <1>2 DEF Makes
  <2> QED
    BY <1>2, <1>3, <2>1, HeardFine
<1>5. /\ page' = page /\ ui' = h.ui /\ calls' = RemoveAt(calls, i) \o h.made
      /\ leaving' = IF SignedOut(calls[i], answer) THEN "login"
                    ELSE IF h.target # "" THEN h.target ELSE leaving
  BY <1>3 DEF Hears, React
<1>6. leaving' \in Pages \cup {""}
  BY <1>2, <1>4, <1>5 DEF Fine, Pages
<1> QED
  BY <1>1, <1>2, <1>3, <1>4, <1>5, <1>6

\* A click leaves a running page running, and makes calls of its own.
Clicked ==
    /\ Running /\ UNCHANGED <<page, leaving>>
    /\ DOMAIN ui' = DOMAIN ui /\ ui'.view # "redirecting"
    /\ \E made : Makes(made, page) /\ calls' = calls \o made

\* A click that changes the script and makes calls of its page.
LEMMA ClickedIs ==
    ASSUME TabInv, NEW script, NEW made, Handler(script, made), Running,
           DOMAIN script = DOMAIN ui, script.view # "redirecting", Makes(made, page)
    PROVE  Clicked
BY DEF Handler, Clicked

\* A chip or the retry button loads the list again.
LEMMA LoadsList ==
    ASSUME TabInv, page = "list", Running, NEW f, LoadList(f)
    PROVE  Clicked
<1>1. PICK script : script = [ui EXCEPT !.view = "loading", !.loading = TRUE, !.filter = f]
  OBVIOUS
<1>2. PICK made : made = <<Call("list", [filter |-> f], 0)>>
  OBVIOUS
<1>3. Makes(made, page)
  <2>1. PICK arg : arg = [filter |-> f]
    OBVIOUS
  <2>2. made = <<Call("list", arg, 0)>> /\ "list" \in Kinds(page)
    BY <1>2, <2>1 DEF Kinds
  <2> QED
    BY <2>2, MakesOne
<1>4. DOMAIN script = DOMAIN ui /\ script.view # "redirecting"
  BY <1>1 DEF TabInv, Runs, Fields
<1>5. Handler(script, made)
  BY <1>1, <1>2 DEF LoadList
<1> QED
  BY <1>3, <1>4, <1>5, ClickedIs

\* Every click does no more than that.
LEMMA ClicksFine ==
    ASSUME TabInv, PageClick
    PROVE  Clicked
<1>1. CASE SubmitLogin
  <2>1. Running /\ page = "login" /\ "login" \in Kinds(page)
    BY <1>1 DEF SubmitLogin, On, Running, Kinds
  <2>2. PICK script : script = [ui EXCEPT !.view = "form", !.busy = TRUE]
    OBVIOUS
  <2>3. PICK made : made = <<Call("login", Nothing, 0)>>
    OBVIOUS
  <2>4. DOMAIN script = DOMAIN ui /\ script.view # "redirecting"
    BY <2>1, <2>2 DEF TabInv, Runs, Fields
  <2>5. Handler(script, made) /\ Makes(made, page)
    BY <1>1, <2>1, <2>2, <2>3, MakesOne DEF SubmitLogin
  <2> QED
    BY <2>1, <2>4, <2>5, ClickedIs
<1>2. CASE Retry
  <2>1. CASE On("list") /\ LoadList(ui.filter)
    BY <2>1, LoadsList DEF On, Running
  <2>2. CASE On("notifications") /\ Handler([ui EXCEPT !.view = "loading"], <<Call("notes", Nothing, 0)>>)
    <3>1. Running /\ page = "notifications" /\ "notes" \in Kinds(page)
      BY <2>2 DEF On, Running, Kinds
    <3>2. PICK script, made : script = [ui EXCEPT !.view = "loading"] /\ made = <<Call("notes", Nothing, 0)>>
      OBVIOUS
    <3>3. DOMAIN script = DOMAIN ui /\ script.view # "redirecting"
      BY <3>1, <3>2 DEF TabInv, Runs, Fields
    <3>4. Handler(script, made) /\ Makes(made, page)
      BY <2>2, <3>1, <3>2, MakesOne
    <3> QED
      BY <3>1, <3>3, <3>4, ClickedIs
  <2>3. CASE On("create") /\ Handler([ui EXCEPT !.view = "loading"], <<Call("types", Nothing, 0)>>)
    <3>1. Running /\ page = "create" /\ "types" \in Kinds(page)
      BY <2>3 DEF On, Running, Kinds
    <3>2. PICK script, made : script = [ui EXCEPT !.view = "loading"] /\ made = <<Call("types", Nothing, 0)>>
      OBVIOUS
    <3>3. DOMAIN script = DOMAIN ui /\ script.view # "redirecting"
      BY <3>1, <3>2 DEF TabInv, Runs, Fields
    <3>4. Handler(script, made) /\ Makes(made, page)
      BY <2>3, <3>1, <3>2, MakesOne
    <3> QED
      BY <3>1, <3>3, <3>4, ClickedIs
  <2> QED
    BY <1>2, <2>1, <2>2, <2>3 DEF Retry
<1>3. CASE ShowSelectStep
  <2>1. Running /\ page = "create"
    BY <1>3 DEF ShowSelectStep, On, Running
  <2>2. PICK script : script = [ui EXCEPT !.step = "select", !.selected = NoType, !.form = "hidden",
                                          !.submitting = FALSE]
    OBVIOUS
  <2>3. DOMAIN script = DOMAIN ui /\ script.view # "redirecting"
    BY <2>1, <2>2 DEF TabInv, Runs, Fields, Running
  <2>4. Handler(script, <<>>) /\ Makes(<<>>, page)
    BY <1>3, <2>2, NoCall DEF ShowSelectStep, Makes
  <2> QED
    BY <2>1, <2>3, <2>4, ClickedIs
<1>4. CASE SubmitForm
  <2>1. Running /\ page = "create" /\ "create" \in Kinds(page)
    BY <1>4 DEF SubmitForm, On, Running, Kinds
  <2>2. PICK script, arg : script = [ui EXCEPT !.submitting = TRUE] /\ arg = [type |-> ui.selected]
    OBVIOUS
  <2>3. PICK made : made = <<Call("create", arg, ui.nth)>>
    OBVIOUS
  <2>4. DOMAIN script = DOMAIN ui /\ script.view # "redirecting"
    BY <2>1, <2>2 DEF TabInv, Runs, Fields, Running
  <2>5. Handler(script, made)
    BY <1>4, <2>2, <2>3 DEF SubmitForm
  <2>6. Makes(made, page)
    BY <2>1, <2>3, MakesOne
  <2> QED
    BY <2>1, <2>4, <2>5, <2>6, ClickedIs
<1>5. CASE DetailClick
  <2>1. Running /\ page = "detail" /\ "execute" \in Kinds(page)
    BY <1>5, DetailClicks DEF Idle, On, Running, Kinds
  <2>2. CASE Execute
    <3>1. PICK script : script = [ui EXCEPT !.busy = TRUE, !.error = FALSE]
      OBVIOUS
    <3>2. PICK made : made = <<Call("execute", Nothing, ui.nth)>>
      OBVIOUS
    <3>3. DOMAIN script = DOMAIN ui /\ script.view # "redirecting"
      BY <2>1, <3>1 DEF TabInv, Runs, Fields, Running
    <3>4. Handler(script, made)
      BY <2>2, <3>1, <3>2 DEF Execute
    <3>5. Makes(made, page)
      BY <2>1, <3>2, MakesOne
    <3> QED
      BY <2>1, <3>3, <3>4, <3>5, ClickedIs
  <2>3. ASSUME NEW u, OfPanel(u), Handler(u, <<>>)
        PROVE  Clicked
    <3>1. DOMAIN u = DOMAIN ui /\ u.view # "redirecting"
      BY <2>1, <2>3 DEF OfPanel, TabInv, Runs, Fields, Running
    <3>2. Makes(<<>>, page)
      BY NoCall DEF Makes
    <3> QED
      BY <2>1, <2>3, <3>1, <3>2, ClickedIs
  <2> QED
    BY <1>5, <2>2, <2>3, DetailClicks
<1>6. ASSUME NEW f \in Filters, ChooseFilter(f)
      PROVE  Clicked
  BY <1>6, LoadsList DEF ChooseFilter, On, Running
<1>7. ASSUME NEW t \in Types, OpenFormForType(t)
      PROVE  Clicked
  <2>1. Running /\ page = "create" /\ "schema" \in Kinds(page)
    BY <1>7 DEF OpenFormForType, On, Running, Kinds
  <2>2. PICK script, arg :
          /\ script = [ui EXCEPT !.step = "form", !.nth = @ + 1, !.selected = t, !.form = "loading",
                                  !.late = FALSE, !.submitting = FALSE]
          /\ arg = [type |-> t]
    OBVIOUS
  <2>3. PICK made : made = <<Call("schema", arg, ui.nth + 1)>>
    OBVIOUS
  <2>4. DOMAIN script = DOMAIN ui /\ script.view # "redirecting"
    BY <2>1, <2>2 DEF TabInv, Runs, Fields, Running
  <2>5. Handler(script, made)
    BY <1>7, <2>2, <2>3 DEF OpenFormForType
  <2>6. Makes(made, page)
    BY <2>1, <2>3, MakesOne
  <2> QED
    BY <2>1, <2>4, <2>5, <2>6, ClickedIs
<1> QED
  BY <1>1, <1>2, <1>3, <1>4, <1>5, <1>6, <1>7 DEF PageClick

\* Whatever page is loaded runs with the fields of its script, and every call in
\* flight is one that this page makes and knows how to hear.
\* On every page the script has its own variables and its own calls, and a page
\* that is being left has none (navigate away in each of the page scripts).
THEOREM TabInvariant == Spec => []TabInv
<1>1. ASSUME Init PROVE TabInv
  <2>1. ui.view = "redirecting" /\ calls = <<>> /\ leaving \in Pages
    BY <1>1 DEF Init
  <2> QED
    BY <2>1, NoCall DEF TabInv, Running
<1>2. TabInv /\ [Next]_vars => TabInv'
  <2> SUFFICES ASSUME TabInv, [Next]_vars PROVE TabInv'
    OBVIOUS
  <2>1. CASE UNCHANGED <<page, ui, calls>> /\ leaving' \in Pages \cup {""}
    BY <2>1 DEF TabInv, Running, Runs, Makes, IsCalls
  <2>2. ASSUME NEW p \in Pages, Load(p)
        PROVE  TabInv'
    <3>1. page' = p /\ leaving' \in Pages \cup {""}
      BY <2>2, Loaded
    <3>2. CASE ui' = [view |-> "redirecting"] /\ calls' = <<>>
      <4>1. ui'.view = "redirecting" /\ IsCalls(calls')
        BY <3>2, NoCall
      <4> QED
        BY <3>1, <3>2, <4>1 DEF TabInv, Running
    <3>3. CASE ui' = Script(p) /\ calls' = FirstCalls(p)
      <4>1. Runs(ui', p) /\ Makes(calls', p)
        BY <2>2, <3>3, Loaded
      <4> QED
        BY <3>1, <4>1 DEF TabInv, Running, Runs, Makes
    <3> QED
      BY <2>2, <3>2, <3>3, Loaded
  <2>3. ASSUME NEW i \in DOMAIN calls, Handle(i)
        PROVE  TabInv'
    <3>1. Running /\ page \in Pages /\ Runs(ui, page) /\ Makes(calls, page) /\ leaving \in Pages \cup {""}
      BY <2>3, NoCall DEF TabInv
    <3>2. /\ IsCalls(calls') /\ DOMAIN calls' = DOMAIN calls
          /\ UNCHANGED <<page, leaving, token, ui>>
          /\ \A j \in DOMAIN calls : calls'[j].kind = calls[j].kind
      BY <2>3, <3>1, Handled DEF Makes
    <3>3. Makes(calls', page)
      BY <3>1, <3>2 DEF Makes
    <3> QED
      BY <3>1, <3>2, <3>3 DEF TabInv, Running, Runs, Makes
  <2>4. ASSUME NEW i \in DOMAIN calls, NEW answer, Hears(i, answer)
        PROVE  TabInv'
    <3>1. PICK h : h = Heard(calls[i], answer)
      OBVIOUS
    <3>2. /\ page' = page /\ page \in Pages /\ leaving' \in Pages \cup {""}
          /\ Fine(h, page) /\ Makes(calls, page)
          /\ ui' = h.ui /\ calls' = RemoveAt(calls, i) \o h.made
      BY <2>4, <3>1, HearsFine
    <3>3. Runs(ui', page) /\ Makes(h.made, page)
      BY <3>2 DEF Fine
    <3>4. Makes(calls', page)
      BY <3>2, <3>3, MakesAfter
    <3> QED
      BY <3>2, <3>3, <3>4 DEF TabInv, Running, Runs, Makes
  <2>5. CASE PageClick
    <3>1. PICK made : /\ Running /\ UNCHANGED <<page, leaving>>
                      /\ DOMAIN ui' = DOMAIN ui /\ ui'.view # "redirecting"
                      /\ Makes(made, page) /\ calls' = calls \o made
      BY <2>5, ClicksFine DEF Clicked
    <3>2. page \in Pages /\ Runs(ui, page) /\ Makes(calls, page) /\ leaving \in Pages \cup {""}
      BY <3>1 DEF TabInv
    <3>3. Makes(calls', page)
      BY <3>1, <3>2, MakesAfter
    <3> QED
      BY <3>1, <3>2, <3>3 DEF TabInv, Running, Runs, Makes
  <2> QED
    BY <2>1, <2>2, <2>3, <2>4, <2>5, Steps
<1> QED
  BY <1>1, <1>2, PTL DEF Spec

-----------------------------------------------------------------------------
(* The list: at most one load is in flight, of the chip that is on.        *)

\* A list is answered with the rows that were asked for.
AsAsked(c) == c.phase = "answered" /\ Ok(c.answer) => c.answer.body = c.arg

ListInv ==
    page = "list" /\ Running =>
        /\ ui.loading => ui.view = "loading"
        /\ ~ui.loading => DOMAIN calls = {}
        /\ \A i, j \in DOMAIN calls : i = j
        /\ \A i \in DOMAIN calls : calls[i].arg = [filter |-> ui.filter] /\ AsAsked(calls[i])
        /\ ui.view = "rows" => ~ui.loading /\ ui.shown = ui.filter

\* The server answers the list with the rows of the filter it was asked for.
LEMMA ListAnswers ==
    ASSUME NEW c, c.kind = "list", NEW o \in Outcomes(c), Ok(o[2])
    PROVE  o[2].body = c.arg
<1>1. CASE o = <<server, Answer(401, Nothing)>> \/ o = <<server, Answer(403, Nothing)>>
  BY <1>1 DEF Answer, Ok
<1>2. CASE o = <<server, Read(c)>>
  <2>1. Read(c) = Answer(200, c.arg)
    BY DEF Read, Parts
  <2> QED
    BY <1>2, <2>1 DEF Answer
<1> QED
  BY <1>1, <1>2 DEF Outcomes

\* A load of the list that has just begun.
LEMMA ListLoads ==
    ASSUME NEW f, DOMAIN calls' = {1}, calls'[1] = Call("list", [filter |-> f], 0),
           ui'.view = "loading", ui'.loading, ui'.filter = f
    PROVE  ListInv'
<1>1. PICK arg : arg = [filter |-> f]
  OBVIOUS
<1>2. calls'[1].arg = arg /\ calls'[1].phase = "sent"
  BY <1>1, CallIs
<1>3. AsAsked(calls[1])'
  BY <1>2 DEF AsAsked
<1> QED
  BY <1>1, <1>2, <1>3 DEF ListInv

\* A list that has nothing in flight may be loaded.
LEMMA ListAsked ==
    ASSUME TabInv, ListInv, page = "list", Running, DOMAIN calls = {}, NEW f, LoadList(f)
    PROVE  ListInv'
<1>1. PICK c, made : c = Call("list", [filter |-> f], 0) /\ made = <<c>>
  OBVIOUS
<1>2. DOMAIN c = CallFields
  <2>1. PICK arg : arg = [filter |-> f]
    OBVIOUS
  <2> QED
    BY <1>1, <2>1, CallIs
<1>3. IsCalls(made) /\ Len(made) = 1 /\ DOMAIN made = {1} /\ made[1] = c
  BY <1>1, <1>2, OneCall
<1>4. calls' = calls \o made /\ ui' = [ui EXCEPT !.view = "loading", !.loading = TRUE, !.filter = f]
  BY <1>1 DEF LoadList, Handler
<1>5. /\ Len(calls) \in Nat /\ DOMAIN calls = 1..Len(calls)
      /\ DOMAIN calls' = 1..(Len(calls) + Len(made))
      /\ \A j \in DOMAIN calls' :
           IF j <= Len(calls) THEN j \in DOMAIN calls /\ calls'[j] = calls[j]
           ELSE j - Len(calls) \in DOMAIN made /\ calls'[j] = made[j - Len(calls)]
  BY <1>3, <1>4, Appended DEF TabInv
<1>6. Len(calls) = 0
  <2>1. PICK n \in Nat : n = Len(calls)
    BY <1>5
  <2>2. n # 0 => 1 \in 1..n
    BY <2>1
  <2> QED
    BY <1>5, <2>1, <2>2
<1>7. DOMAIN calls' = {1}
  BY <1>3, <1>5, <1>6
<1>8. calls'[1] = c
  <2>1. 1 \in DOMAIN calls' /\ 1 - 0 = 1 /\ ~(1 <= 0)
    BY <1>7
  <2> QED
    BY <1>3, <1>5, <1>6, <2>1
<1>9. ui'.view = "loading" /\ ui'.loading /\ ui'.filter = f
  BY <1>4 DEF TabInv, Runs, Fields
<1> QED
  BY <1>1, <1>7, <1>8, <1>9, ListLoads

\* A load of the list is the only call in flight, and of the chip that is on: a chip
\* that is clicked while one is running does nothing (requests.js:46).
THEOREM ListInvariant == Spec => []ListInv
<1>1. ASSUME Init PROVE ListInv
  BY <1>1 DEF Init, ListInv, Running
<1>2. ASSUME TabInv, ListInv, [Next]_vars PROVE ListInv'
  <2>1. CASE UNCHANGED <<page, ui, calls>>
    BY <1>2, <2>1 DEF ListInv, Running, AsAsked
  <2>2. ASSUME NEW p \in Pages, Load(p)
        PROVE  ListInv'
    <3>1. CASE ui' = [view |-> "redirecting"]
      BY <3>1 DEF ListInv, Running
    <3>2. CASE page' # "list"
      BY <3>2 DEF ListInv
    <3>3. CASE p = "list" /\ ui' = Script(p) /\ calls' = FirstCalls(p)
      <4>1. ui'.view = "loading" /\ ui'.loading /\ ui'.filter = ""
        BY <3>3 DEF Script
      <4>2. PICK c : c = Call("list", [filter |-> ""], 0)
        OBVIOUS
      <4>3. calls' = <<c>>
        BY <3>3, <4>2 DEF FirstCalls
      <4>4. DOMAIN calls' = {1} /\ calls'[1] = c
        BY <4>3
      <4> QED
        BY <4>1, <4>2, <4>4, ListLoads
    <3> QED
      BY <2>2, <3>1, <3>2, <3>3, Loaded
  <2>3. ASSUME NEW i \in DOMAIN calls, Handle(i)
        PROVE  ListInv'
    <3> SUFFICES ASSUME page = "list", Running PROVE ListInv'
      BY <2>3 DEF ListInv, Handle, Running
    <3>1. IsCalls(calls) /\ calls[i].kind = "list"
      BY <1>2 DEF TabInv, Makes, Kinds
    <3>2. /\ DOMAIN calls' = DOMAIN calls /\ UNCHANGED <<page, ui>>
          /\ \A j \in DOMAIN calls : calls'[j].arg = calls[j].arg
          /\ \A j \in DOMAIN calls : j = i
      BY <1>2, <2>3, <3>1, Handled DEF ListInv
    <3>3. PICK o \in Outcomes(calls[i]) : calls'[i].answer = o[2]
      BY <2>3, <3>1, Handled
    <3>4. Ok(o[2]) => o[2].body = calls[i].arg
      BY <3>1, ListAnswers
    <3>5. AsAsked(calls[i])'
      BY <3>2, <3>3, <3>4 DEF AsAsked
    <3> QED
      BY <1>2, <3>2, <3>5 DEF ListInv, Running
  <2>4. ASSUME NEW i \in DOMAIN calls, NEW answer, Hears(i, answer)
        PROVE  ListInv'
    <3>1. PICK h : h = Heard(calls[i], answer)
      OBVIOUS
    <3>2. /\ Running /\ page' = page /\ Makes(calls, page) /\ Runs(ui, page)
          /\ ui' = h.ui /\ calls' = RemoveAt(calls, i) \o h.made
      BY <1>2, <2>4, <3>1, HearsFine DEF TabInv
    <3> SUFFICES ASSUME page = "list" PROVE ListInv'
      BY <3>2 DEF ListInv
    <3>3. /\ ui.loading /\ calls[i].arg = [filter |-> ui.filter] /\ AsAsked(calls[i])
          /\ \A j \in DOMAIN calls : j = i
      BY <1>2, <3>2 DEF ListInv
    <3>4. h = HearList(calls[i], answer)
      BY <3>1, <3>2 DEF Makes, Kinds, Heard, Parts
    <3>5. h.made = <<>>
      BY <3>4 DEF HearList, Show, Then
    <3>6. DOMAIN calls' = {}
      <4>1. IsCalls(calls) /\ IsCalls(h.made)
        BY <3>2, <3>5, NoCall DEF Makes
      <4>2. \A j \in DOMAIN calls' :
              IF j <= Len(calls) - 1
              THEN Old(i, j) \in DOMAIN calls /\ Old(i, j) # i
              ELSE j - (Len(calls) - 1) \in DOMAIN h.made
        BY <3>2, <4>1, Answered
      <4>3. DOMAIN h.made = {}
        BY <3>5, NoCall
      <4> QED
        BY <3>3, <4>2, <4>3
    <3>7. CASE Ok(answer)
      <4>1. answer = calls[i].answer /\ calls[i].phase = "answered"
        BY <2>4, <3>7 DEF Hears, Ok, Answer
      <4>2. answer.body.filter = ui.filter
        BY <3>3, <3>7, <4>1 DEF AsAsked
      <4>3. ui' = [ui EXCEPT !.view = "rows", !.shown = answer.body.filter, !.loading = FALSE]
        BY <3>2, <3>4, <3>7 DEF HearList, Show, Then
      <4>4. ui'.view = "rows" /\ ui'.shown = ui.filter /\ ui'.filter = ui.filter /\ ~ui'.loading
        BY <3>2, <4>2, <4>3 DEF Runs, Fields
      <4> QED
        BY <3>6, <4>4 DEF ListInv
    <3>8. CASE ~Ok(answer)
      <4>1. ui' = [ui EXCEPT !.view = "error", !.loading = FALSE]
        BY <3>2, <3>4, <3>8 DEF HearList, Show, Then
      <4>2. ui'.view = "error" /\ ~ui'.loading
        BY <3>2, <4>1 DEF Runs, Fields
      <4> QED
        BY <3>6, <4>2 DEF ListInv
    <3> QED
      BY <3>7, <3>8
  <2>5. CASE PageClick
    <3>1. Running /\ page' = page
      BY <1>2, <2>5, ClicksFine DEF Clicked
    <3> SUFFICES ASSUME page = "list" PROVE ListInv'
      BY <3>1 DEF ListInv
    <3>2. ASSUME NEW f, LoadList(f), ~ui.loading
          PROVE  ListInv'
      BY <1>2, <3>1, <3>2, ListAsked DEF ListInv
    <3>3. CASE Retry
      BY <1>2, <3>1, <3>2, <3>3 DEF Retry, On, ListInv
    <3>4. CASE \E f \in Filters : ChooseFilter(f)
      BY <3>2, <3>4 DEF ChooseFilter
    <3> QED
      BY <2>5, <3>3, <3>4 DEF PageClick, SubmitLogin, ShowSelectStep, SubmitForm,
                  DetailClick, ClickAction, ConfirmComment, CancelComment, Idle, OpenFormForType, On
  <2> QED
    BY <1>2, <2>1, <2>2, <2>3, <2>4, <2>5, Steps
<1> QED
  BY <1>1, <1>2, TabInvariant, PTL DEF Spec

\* The rows of the list are those of the chip that is on: they are only shown
\* when the one load in flight has been heard, and it was made for that chip.
THEOREM RowsOfTheChip == Spec => []ListMatchesFilter
<1>1. ListInv => ListMatchesFilter
  BY DEF ListInv, ListMatchesFilter, On, Running
<1> QED
  BY <1>1, ListInvariant, PTL

-----------------------------------------------------------------------------
(* The form: a schema asked for the selection that is open is of the type  *)
(* that is selected.                                                       *)

OfSelection(c) ==
    /\ c.nth \in Nat /\ c.nth <= ui.nth
    /\ c.kind = "schema" /\ c.nth = ui.nth /\ ui.step = "form" => c.arg.type = ui.selected

CreateInv ==
    page = "create" /\ Running =>
        /\ ui.nth \in Nat
        /\ \A i \in DOMAIN calls : OfSelection(calls[i])
        /\ ui.step = "form" /\ ui.form = "content" /\ ~ui.late => ui.fields = ui.selected

\* A call in flight was in flight before, or was made just now.
LEMMA OldOrMade ==
    ASSUME IsCalls(calls), NEW made, IsCalls(made),
           \/ \E i \in DOMAIN calls : calls' = RemoveAt(calls, i) \o made
           \/ calls' = calls \o made
    PROVE  \A j \in DOMAIN calls' : \/ \E k \in DOMAIN calls : calls'[j] = calls[k]
                                   \/ \E k \in DOMAIN made : calls'[j] = made[k]
<1>1. CASE \E i \in DOMAIN calls : calls' = RemoveAt(calls, i) \o made
  <2>1. PICK i \in DOMAIN calls : calls' = RemoveAt(calls, i) \o made
    BY <1>1
  <2>2. \A j \in DOMAIN calls' :
          IF j <= Len(calls) - 1
          THEN Old(i, j) \in DOMAIN calls /\ Old(i, j) # i /\ calls'[j] = calls[Old(i, j)]
          ELSE j - (Len(calls) - 1) \in DOMAIN made /\ calls'[j] = made[j - (Len(calls) - 1)]
    BY <2>1, Answered
  <2> QED
    BY <2>2
<1>2. CASE calls' = calls \o made
  <2>1. \A j \in DOMAIN calls' :
          IF j <= Len(calls) THEN j \in DOMAIN calls /\ calls'[j] = calls[j]
          ELSE j - Len(calls) \in DOMAIN made /\ calls'[j] = made[j - Len(calls)]
    BY <1>2, Appended
  <2> QED
    BY <2>1
<1> QED
  BY <1>1, <1>2

\* A step that opens no other form and renders no schema.
LEMMA SameSelection ==
    ASSUME CreateInv, page = "create", Running, page' = page, ui'.view # "redirecting",
           ui'.nth = ui.nth, ui'.fields = ui.fields, ui'.late = ui.late,
           \/ ui'.step = ui.step /\ ui'.selected = ui.selected
           \/ ui'.step = "select",
           ui'.form = ui.form \/ ui'.form # "content",
           \A j \in DOMAIN calls' :
              \/ \E k \in DOMAIN calls : /\ calls'[j].kind = calls[k].kind /\ calls'[j].arg = calls[k].arg
                                        /\ calls'[j].nth = calls[k].nth
              \/ calls'[j].kind # "schema" /\ calls'[j].nth \in {0, ui.nth}
    PROVE  CreateInv'
<1>1. ui.nth \in Nat /\ \A i \in DOMAIN calls : OfSelection(calls[i])
  BY DEF CreateInv
<1>2. ASSUME NEW j \in DOMAIN calls'
      PROVE  OfSelection(calls[j])'
  <2>1. CASE \E k \in DOMAIN calls : /\ calls'[j].kind = calls[k].kind /\ calls'[j].arg = calls[k].arg
                                      /\ calls'[j].nth = calls[k].nth
    <3>1. PICK k \in DOMAIN calls : /\ calls'[j].kind = calls[k].kind /\ calls'[j].arg = calls[k].arg
                                   /\ calls'[j].nth = calls[k].nth
      BY <2>1
    <3>2. OfSelection(calls[k])
      BY <1>1
    <3> QED
      BY <3>1, <3>2 DEF OfSelection
  <2>2. CASE calls'[j].kind # "schema" /\ calls'[j].nth \in {0, ui.nth}
    BY <1>1, <2>2 DEF OfSelection
  <2> QED
    BY <1>2, <2>1, <2>2
<1>3. ui'.step = "form" /\ ui'.form = "content" /\ ~ui'.late => ui'.fields = ui'.selected
  BY DEF CreateInv
<1> QED
  BY <1>1, <1>2, <1>3 DEF CreateInv

\* A schema asked for the selection that is open is of the type that is selected, and the
\* form shows its fields unless it was put back by a late answer (request-create-select.js).
THEOREM CreateInvariant == Spec => []CreateInv
<1>1. ASSUME Init PROVE CreateInv
  BY <1>1 DEF Init, CreateInv, Running
<1>2. ASSUME TabInv, CreateInv, [Next]_vars PROVE CreateInv'
  <2>1. CASE UNCHANGED <<page, ui, calls>>
    BY <1>2, <2>1 DEF CreateInv, Running, OfSelection
  <2>2. ASSUME NEW p \in Pages, Load(p)
        PROVE  CreateInv'
    <3>1. CASE ui' = [view |-> "redirecting"]
      BY <3>1 DEF CreateInv, Running
    <3>2. CASE page' # "create"
      BY <3>2 DEF CreateInv
    <3>3. CASE p = "create" /\ ui' = Script(p) /\ calls' = FirstCalls(p)
      <4>1. ui'.nth = 0 /\ ui'.step = "select"
        BY <3>3 DEF Script
      <4>2. PICK c : c = Call("types", Nothing, 0)
        OBVIOUS
      <4>3. calls' = <<c>>
        BY <3>3, <4>2 DEF FirstCalls
      <4>4. DOMAIN calls' = {1} /\ calls'[1] = c /\ c.nth = 0 /\ c.kind = "types"
        BY <4>2, <4>3, CallIs
      <4> QED
        BY <4>1, <4>4 DEF CreateInv, OfSelection
    <3> QED
      BY <2>2, <3>1, <3>2, <3>3, Loaded
  <2>3. ASSUME NEW i \in DOMAIN calls, Handle(i)
        PROVE  CreateInv'
    <3> SUFFICES ASSUME page = "create", Running PROVE CreateInv'
      BY <2>3 DEF CreateInv, Handle, Running
    <3>1. IsCalls(calls)
      BY <1>2 DEF TabInv
    <3>2. /\ DOMAIN calls' = DOMAIN calls /\ UNCHANGED <<page, ui>>
          /\ \A j \in DOMAIN calls :
               /\ calls'[j].kind = calls[j].kind /\ calls'[j].arg = calls[j].arg
               /\ calls'[j].nth = calls[j].nth
      BY <2>3, <3>1, Handled
    <3> QED
      BY <1>2, <3>2, SameSelection DEF Running
  <2>4. ASSUME NEW i \in DOMAIN calls, NEW answer, Hears(i, answer)
        PROVE  CreateInv'
    <3>1. PICK h, c : h = Heard(c, answer) /\ c = calls[i]
      OBVIOUS
    <3>2. /\ Running /\ page' = page /\ Makes(calls, page) /\ Runs(ui, page)
          /\ ui' = h.ui /\ calls' = RemoveAt(calls, i) \o h.made
          /\ IsCalls(calls) /\ ui'.view # "redirecting"
      BY <1>2, <2>4, <3>1, HearsFine DEF TabInv, Fine, Runs
    <3> SUFFICES ASSUME page = "create" PROVE CreateInv'
      BY <3>2 DEF CreateInv
    <3>3. h \in {HearTypes(c, answer), HearSchema(c, answer), HearCreate(c, answer)}
      BY <3>1, <3>2 DEF Makes, Kinds, Heard, Parts
    <3>4. h.made = <<>>
      <4>1. HearTypes(c, answer).made = <<>>
        BY DEF HearTypes, Show, Then
      <4>2. HearSchema(c, answer).made = <<>>
        BY DEF HearSchema, Show, Then
      <4>3. HearCreate(c, answer).made = <<>>
        BY DEF HearCreate, Show, Then
      <4> QED
        BY <3>3, <4>1, <4>2, <4>3
    <3>5. \A j \in DOMAIN calls' : \E k \in DOMAIN calls : calls'[j] = calls[k]
      BY <3>2, <3>4, NoCall, OldOrMade
    <3>6. CASE h = HearTypes(c, answer)
      <4>1. /\ ui'.nth = ui.nth /\ ui'.fields = ui.fields /\ ui'.late = ui.late
            /\ ui'.step = ui.step /\ ui'.selected = ui.selected /\ ui'.form = ui.form
        BY <3>2, <3>6 DEF HearTypes, Show, Then, Runs, Fields
      <4> QED
        BY <1>2, <3>2, <3>5, <4>1, SameSelection
    <3>7. CASE h = HearCreate(c, answer)
      <4>1. /\ ui'.nth = ui.nth /\ ui'.fields = ui.fields /\ ui'.late = ui.late
            /\ ui'.step = ui.step /\ ui'.selected = ui.selected /\ ui'.form = ui.form
        BY <3>2, <3>7 DEF HearCreate, Show, Then, Runs, Fields
      <4> QED
        BY <1>2, <3>2, <3>5, <4>1, SameSelection
    <3>8. CASE c.kind = "schema" /\ ~Ok(answer)
      <4>1. ui' = [ui EXCEPT !.form = IF @ = "content" THEN @ ELSE "error"]
        BY <3>1, <3>2, <3>8 DEF Heard, HearSchema, Show, Then, Parts
      <4>2. /\ ui'.nth = ui.nth /\ ui'.fields = ui.fields /\ ui'.late = ui.late
            /\ ui'.step = ui.step /\ ui'.selected = ui.selected
            /\ ui'.form = ui.form \/ ui'.form # "content"
        BY <3>2, <4>1 DEF Runs, Fields
      <4> QED
        BY <1>2, <3>2, <3>5, <4>2, SameSelection
    <3>9. CASE c.kind = "schema" /\ Ok(answer)
      <4>1. ui' = [ui EXCEPT !.form = "content", !.fields = c.arg.type, !.late = c.nth # ui.nth]
        BY <3>1, <3>2, <3>9 DEF Heard, HearSchema, Show, Then, Parts
      <4>2. /\ ui'.nth = ui.nth /\ ui'.step = ui.step /\ ui'.selected = ui.selected
            /\ ui'.fields = c.arg.type /\ ui'.late = (c.nth # ui.nth)
        BY <3>2, <4>1 DEF Runs, Fields
      <4>3. OfSelection(c) /\ ui.nth \in Nat /\ \A k \in DOMAIN calls : OfSelection(calls[k])
        BY <1>2, <3>1, <3>2 DEF CreateInv
      <4>4. ASSUME NEW j \in DOMAIN calls' PROVE OfSelection(calls[j])'
        <5>1. PICK k \in DOMAIN calls : calls'[j] = calls[k]
          BY <3>5
        <5> QED
          BY <4>2, <4>3, <5>1 DEF OfSelection
      <4>5. ui'.step = "form" /\ ~ui'.late => ui'.fields = ui'.selected
        BY <3>9, <4>2, <4>3 DEF OfSelection
      <4> QED
        BY <4>2, <4>3, <4>4, <4>5 DEF CreateInv
    <3>10. c.kind = "schema" \/ h = HearTypes(c, answer) \/ h = HearCreate(c, answer)
      BY <3>1, <3>2 DEF Makes, Kinds, Heard, Parts
    <3> QED
      BY <3>6, <3>7, <3>8, <3>9, <3>10
  <2>5. CASE PageClick
    <3>1. Running /\ page' = page /\ Runs(ui, page) /\ IsCalls(calls) /\ ui'.view # "redirecting"
      BY <1>2, <2>5, ClicksFine DEF Clicked, TabInv
    <3> SUFFICES ASSUME page = "create" PROVE CreateInv'
      BY <3>1 DEF CreateInv
    <3>2. ASSUME NEW script, NEW c, Handler(script, <<c>>), DOMAIN c = CallFields
          PROVE  /\ ui' = script
                 /\ \A j \in DOMAIN calls' : (\E k \in DOMAIN calls : calls'[j] = calls[k]) \/ calls'[j] = c
      <4>1. ui' = script /\ calls' = calls \o <<c>>
        BY <3>2 DEF Handler
      <4>2. IsCalls(<<c>>) /\ DOMAIN <<c>> = {1} /\ <<c>>[1] = c
        BY <3>2, OneCall
      <4> QED
        BY <3>1, <4>1, <4>2, OldOrMade
    <3>3. CASE Retry
      <4>1. PICK c : c = Call("types", Nothing, 0)
        OBVIOUS
      <4>2. c.kind = "types" /\ c.nth = 0 /\ DOMAIN c = CallFields
        BY <4>1, CallIs
      <4>3. Handler([ui EXCEPT !.view = "loading"], <<c>>)
        BY <3>3, <4>1 DEF Retry, On
      <4>4. /\ ui' = [ui EXCEPT !.view = "loading"]
            /\ \A j \in DOMAIN calls' : (\E k \in DOMAIN calls : calls'[j] = calls[k]) \/ calls'[j] = c
        BY <3>2, <4>2, <4>3
      <4>5. /\ ui'.nth = ui.nth /\ ui'.fields = ui.fields /\ ui'.late = ui.late
            /\ ui'.step = ui.step /\ ui'.selected = ui.selected /\ ui'.form = ui.form
        BY <3>1, <4>4 DEF Runs, Fields
      <4> QED
        BY <1>2, <3>1, <4>2, <4>4, <4>5, SameSelection
    <3>4. CASE ShowSelectStep
      <4>1. /\ ui' = [ui EXCEPT !.step = "select", !.selected = NoType, !.form = "hidden", !.submitting = FALSE]
            /\ calls' = calls \o <<>>
        BY <3>4 DEF ShowSelectStep, Handler
      <4>2. \A j \in DOMAIN calls' : \E k \in DOMAIN calls : calls'[j] = calls[k]
        BY <3>1, <4>1, NoCall, OldOrMade
      <4>3. /\ ui'.nth = ui.nth /\ ui'.fields = ui.fields /\ ui'.late = ui.late
            /\ ui'.step = "select" /\ ui'.form # "content"
        BY <3>1, <4>1 DEF Runs, Fields
      <4> QED
        BY <1>2, <3>1, <4>2, <4>3, SameSelection
    <3>5. CASE SubmitForm
      <4>1. PICK arg : arg = [type |-> ui.selected]
        OBVIOUS
      <4>2. PICK c : c = Call("create", arg, ui.nth)
        OBVIOUS
      <4>3. c.kind = "create" /\ c.nth = ui.nth /\ DOMAIN c = CallFields
        BY <4>2, CallIs
      <4>4. Handler([ui EXCEPT !.submitting = TRUE], <<c>>)
        BY <3>5, <4>1, <4>2 DEF SubmitForm
      <4>5. /\ ui' = [ui EXCEPT !.submitting = TRUE]
            /\ \A j \in DOMAIN calls' : (\E k \in DOMAIN calls : calls'[j] = calls[k]) \/ calls'[j] = c
        BY <3>2, <4>3, <4>4
      <4>6. /\ ui'.nth = ui.nth /\ ui'.fields = ui.fields /\ ui'.late = ui.late
            /\ ui'.step = ui.step /\ ui'.selected = ui.selected /\ ui'.form = ui.form
        BY <3>1, <4>5 DEF Runs, Fields
      <4> QED
        BY <1>2, <3>1, <4>3, <4>5, <4>6, SameSelection
    <3>6. ASSUME NEW t \in Types, OpenFormForType(t)
          PROVE  CreateInv'
      <4>1. PICK arg, script :
              /\ arg = [type |-> t]
              /\ script = [ui EXCEPT !.step = "form", !.nth = @ + 1, !.selected = t, !.form = "loading",
                                      !.late = FALSE, !.submitting = FALSE]
        OBVIOUS
      <4>2. PICK c : c = Call("schema", arg, ui.nth + 1)
        OBVIOUS
      <4>3. c.kind = "schema" /\ c.nth = ui.nth + 1 /\ c.arg.type = t /\ DOMAIN c = CallFields
        BY <4>1, <4>2, CallIs
      <4>4. Handler(script, <<c>>)
        BY <3>6, <4>1, <4>2 DEF OpenFormForType
      <4>5. /\ ui' = script
            /\ \A j \in DOMAIN calls' : (\E k \in DOMAIN calls : calls'[j] = calls[k]) \/ calls'[j] = c
        BY <3>2, <4>3, <4>4
      <4>6. ui'.nth = ui.nth + 1 /\ ui'.selected = t /\ ui'.form = "loading"
        BY <3>1, <4>1, <4>5 DEF Runs, Fields
      <4>7. ui.nth \in Nat /\ \A k \in DOMAIN calls : OfSelection(calls[k])
        BY <1>2, <3>1 DEF CreateInv
      <4>8. ASSUME NEW j \in DOMAIN calls' PROVE OfSelection(calls[j])'
        <5>1. CASE calls'[j] = c
          BY <4>3, <4>6, <4>7, <5>1 DEF OfSelection
        <5>2. ASSUME NEW k \in DOMAIN calls, calls'[j] = calls[k]
              PROVE  OfSelection(calls[j])'
          BY <4>6, <4>7, <5>2 DEF OfSelection
        <5> QED
          BY <4>5, <5>1, <5>2
      <4> QED
        BY <4>6, <4>7, <4>8 DEF CreateInv
    <3> QED
      BY <2>5, <3>3, <3>4, <3>5, <3>6 DEF PageClick, SubmitLogin, DetailClick, ClickAction, ConfirmComment,
                  CancelComment, Idle, ChooseFilter, On
  <2> QED
    BY <1>2, <2>1, <2>2, <2>3, <2>4, <2>5, Steps
<1> QED
  BY <1>1, <1>2, TabInvariant, PTL DEF Spec

\* The form shows the fields of the selected type, unless it was rendered by an
\* answer to an earlier selection.
THEOREM FormOfTheType == Spec => []FormFollowsSelection
<1>1. CreateInv => FormFollowsSelection
  BY DEF CreateInv, FormFollowsSelection, On, Running
<1> QED
  BY <1>1, CreateInvariant, PTL

-----------------------------------------------------------------------------
(* The page of a request: of the load that is current each part is asked   *)
(* for once, and what comes of it is as new as the last action.            *)

Current(c, u) == c.kind \in Parts /\ c.nth = u.nth
Came(c) == c.phase = "answered" /\ Ok(c.answer)

\* What is shown is as new as the last action, unless a load has failed since.
UpToDate(u) == ~u.stale => \A p \in Parts : u.shown[p] \in Nat /\ u.acted <= u.shown[p]

\* What a call c may be while the script is at u and the request at version v.
Fits(c, u, v) ==
    /\ c.nth \in Nat /\ c.nth <= u.nth
    /\ Current(c, u) => c.kind \notin DOMAIN u.got
    /\ Current(c, u) /\ Came(c) => c.answer.body.version \in Nat /\ u.acted <= c.answer.body.version
    /\ c.kind = "names" => u.view # "shown" /\ DOMAIN u.got = Parts
    /\ c.kind = "execute" => u.view = "shown" /\ u.busy /\ UpToDate(u)
    /\ c.kind = "execute" /\ Came(c) => c.answer.body.version \in Nat /\ c.answer.body.version <= v

\* What else is in flight with c.
Excludes(c, d, u) ==
    /\ c.kind = d.kind => c.kind \notin {"names", "execute"} /\ ~(Current(c, u) /\ Current(d, u))
    /\ c.kind = "execute" => ~Current(d, u)

Versions(u, v) ==
    /\ u.nth \in Nat /\ u.acted \in Nat /\ u.acted <= v
    /\ \A p \in DOMAIN u.got : p \in Parts /\ u.got[p] \in Nat /\ u.acted <= u.got[p]
    /\ u.view = "shown" /\ ~u.busy => UpToDate(u)

AtRest(u) == u.view = "shown" /\ ~u.busy

Detail(u, s, v) ==
    /\ Versions(u, v)
    /\ \A i \in DOMAIN s : Fits(s[i], u, v)
    /\ \A i, j \in DOMAIN s : i # j => Excludes(s[i], s[j], u)
    /\ AtRest(u) => \A i \in DOMAIN s : ~Current(s[i], u)

VersionOK == "version" \in DOMAIN server /\ server.version \in Nat

DetailInv ==
    /\ VersionOK
    /\ page = "detail" /\ Running => Detail(ui, calls, server.version)

\* The calls in flight are those at K from before and those made now.
Sourced(K, made) ==
    /\ \A j \in DOMAIN calls' : \/ \E a \in K : calls'[j] = calls[a]
                              \/ \E m \in DOMAIN made : calls'[j] = made[m]
    /\ \A j, k \in DOMAIN calls' : j # k =>
         \/ \E a, b \in K : a # b /\ calls'[j] = calls[a] /\ calls'[k] = calls[b]
         \/ \E a \in K : \E m \in DOMAIN made : calls'[j] = calls[a] /\ calls'[k] = made[m]
         \/ \E a \in K : \E m \in DOMAIN made : calls'[j] = made[m] /\ calls'[k] = calls[a]
         \/ \E m, n \in DOMAIN made : m # n /\ calls'[j] = made[m] /\ calls'[k] = made[n]

\* After an answer was taken: the calls from before but that one, and those made.
LEMMA SourcedAnswered ==
    ASSUME IsCalls(calls), NEW i \in DOMAIN calls, NEW made, IsCalls(made),
           calls' = RemoveAt(calls, i) \o made
    PROVE  Sourced(DOMAIN calls \ {i}, made)
<1>1. PICK n \in Nat, k \in Nat : n = Len(calls) - 1 /\ k = Len(made)
  BY Answered
<1>2. /\ DOMAIN calls' = 1..(n + k)
      /\ \A j \in DOMAIN calls' :
           IF j <= n
           THEN Old(i, j) \in DOMAIN calls /\ Old(i, j) # i /\ calls'[j] = calls[Old(i, j)]
           ELSE j - n \in DOMAIN made /\ calls'[j] = made[j - n]
  BY <1>1, Answered
<1>3. i \in Nat
  <2>1. DOMAIN calls = 1..Len(calls)
    BY LenProperties DEF IsCalls
  <2> QED
    BY <2>1
<1>4. ASSUME NEW j \in DOMAIN calls', NEW l \in DOMAIN calls', j # l
      PROVE  (Old(i, j) # Old(i, l)) /\ j - n # l - n
  BY <1>2, <1>3, <1>4 DEF Old
<1>5. \A j \in DOMAIN calls' : \/ \E a \in DOMAIN calls \ {i} : calls'[j] = calls[a]
                              \/ \E m \in DOMAIN made : calls'[j] = made[m]
  BY <1>2
<1>6. ASSUME NEW j \in DOMAIN calls', NEW l \in DOMAIN calls', j # l
      PROVE  \/ \E a, b \in DOMAIN calls \ {i} : a # b /\ calls'[j] = calls[a] /\ calls'[l] = calls[b]
             \/ \E a \in DOMAIN calls \ {i} : \E m \in DOMAIN made : calls'[j] = calls[a] /\ calls'[l] = made[m]
             \/ \E a \in DOMAIN calls \ {i} : \E m \in DOMAIN made : calls'[j] = made[m] /\ calls'[l] = calls[a]
             \/ \E m, o \in DOMAIN made : m # o /\ calls'[j] = made[m] /\ calls'[l] = made[o]
  <2>1. CASE j <= n /\ l <= n
    BY <1>2, <1>4, <1>6, <2>1
  <2>2. CASE j <= n /\ ~(l <= n)
    BY <1>2, <2>2
  <2>3. CASE ~(j <= n) /\ l <= n
    BY <1>2, <2>3
  <2>4. CASE ~(j <= n) /\ ~(l <= n)
    BY <1>2, <1>4, <1>6, <2>4
  <2> QED
    BY <2>1, <2>2, <2>3, <2>4
<1> QED
  BY <1>5, <1>6 DEF Sourced

\* After a click: all calls from before, and those made.
LEMMA SourcedAppended ==
    ASSUME IsCalls(calls), NEW made, IsCalls(made), calls' = calls \o made
    PROVE  Sourced(DOMAIN calls, made)
<1>1. PICK n \in Nat, k \in Nat : n = Len(calls) /\ k = Len(made)
  BY Appended
<1>2. /\ DOMAIN calls' = 1..(n + k)
      /\ \A j \in DOMAIN calls' :
           IF j <= n THEN j \in DOMAIN calls /\ calls'[j] = calls[j]
           ELSE j - n \in DOMAIN made /\ calls'[j] = made[j - n]
  BY <1>1, Appended
<1>3. ASSUME NEW j \in DOMAIN calls', NEW l \in DOMAIN calls', j # l
      PROVE  j - n # l - n
  BY <1>2, <1>3
<1>4. \A j \in DOMAIN calls' : \/ \E a \in DOMAIN calls : calls'[j] = calls[a]
                              \/ \E m \in DOMAIN made : calls'[j] = made[m]
  BY <1>2
<1>5. ASSUME NEW j \in DOMAIN calls', NEW l \in DOMAIN calls', j # l
      PROVE  \/ \E a, b \in DOMAIN calls : a # b /\ calls'[j] = calls[a] /\ calls'[l] = calls[b]
             \/ \E a \in DOMAIN calls : \E m \in DOMAIN made : calls'[j] = calls[a] /\ calls'[l] = made[m]
             \/ \E a \in DOMAIN calls : \E m \in DOMAIN made : calls'[j] = made[m] /\ calls'[l] = calls[a]
             \/ \E m, o \in DOMAIN made : m # o /\ calls'[j] = made[m] /\ calls'[l] = made[o]
  <2>1. CASE j <= n /\ l <= n
    BY <1>2, <1>5, <2>1
  <2>2. CASE j <= n /\ ~(l <= n)
    BY <1>2, <2>2
  <2>3. CASE ~(j <= n) /\ l <= n
    BY <1>2, <2>3
  <2>4. CASE ~(j <= n) /\ ~(l <= n)
    BY <1>2, <1>3, <1>5, <2>4
  <2> QED
    BY <2>1, <2>2, <2>3, <2>4
<1> QED
  BY <1>4, <1>5 DEF Sourced

\* What is to be shown of a step that keeps the calls at K and makes some.
LEMMA DetailNext ==
    ASSUME NEW K \in SUBSET DOMAIN calls, NEW made, Sourced(K, made), NEW v, Versions(ui', v),
           \A a \in K : Fits(calls[a], ui', v),
           \A m \in DOMAIN made : Fits(made[m], ui', v),
           \A a, b \in K : a # b => Excludes(calls[a], calls[b], ui'),
           \A a \in K : \A m \in DOMAIN made :
              Excludes(calls[a], made[m], ui') /\ Excludes(made[m], calls[a], ui'),
           \A m, n \in DOMAIN made : m # n => Excludes(made[m], made[n], ui'),
           AtRest(ui') => /\ \A a \in K : ~Current(calls[a], ui')
                          /\ \A m \in DOMAIN made : ~Current(made[m], ui')
    PROVE  Detail(ui', calls', v)
<1>1. \A j \in DOMAIN calls' : Fits(calls'[j], ui', v)
  BY DEF Sourced
<1>2. \A j, k \in DOMAIN calls' : j # k => Excludes(calls'[j], calls'[k], ui')
  BY DEF Sourced
<1>3. AtRest(ui') => \A j \in DOMAIN calls' : ~Current(calls'[j], ui')
  BY DEF Sourced
<1> QED
  BY <1>1, <1>2, <1>3 DEF Detail

\* The version of the request never falls, and only handling a call makes it rise
\* together with an answer.
LEMMA VersionStep ==
    ASSUME VersionOK, [Next]_vars
    PROVE  VersionOK' /\ server.version <= server'.version
<1>1. CASE server' = server
  BY <1>1 DEF VersionOK
<1>2. ASSUME NEW i \in DOMAIN calls, Handle(i)
      PROVE  VersionOK' /\ server.version <= server'.version
  <2>1. PICK o \in Outcomes(calls[i]) : server' = o[1]
    BY <1>2 DEF Handle
  <2>2. \/ o[1] = server \/ o[1] = [server EXCEPT !.issued = @ + 1]
        \/ o[1] = [server EXCEPT !.version = @ + 1]
    BY <2>1 DEF Outcomes, LogIn, CreateDraft, ExecuteAction
  <2> QED
    BY <2>1, <2>2 DEF VersionOK
<1>3. CASE Event
  <2>1. \/ server' = [server EXCEPT !.expired = server.issued]
        \/ server' = [server EXCEPT !.active = ~@]
        \/ server' = [server EXCEPT !.version = @ + 1]
        \/ \E r \in Roles : server' = [server EXCEPT !.role = r]
        \/ \E t \in Types : server' = [server EXCEPT !.types = (@ \cup {t}) \ (@ \cap {t})]
    BY <1>3 DEF Event
  <2> QED
    BY <2>1 DEF VersionOK
<1> QED
  BY <1>1, <1>2, <1>3 DEF Next, vars, Arrive, Serve, Listen, Hear, Lose, React, Click

\* A part is read at the version of the server; an executed action makes a new one.
LEMMA DetailAnswers ==
    ASSUME VersionOK, NEW c, NEW o \in Outcomes(c), Ok(o[2])
    PROVE  /\ c.kind \in Parts => o[1] = server /\ o[2].body.version = server.version
           /\ c.kind = "execute" => /\ o[1].version = server.version + 1
                                    /\ o[2].body.version = server.version + 1
<1>1. ASSUME c.kind \in Parts
      PROVE  o[1] = server /\ o[2].body.version = server.version
  <2>1. CASE o = <<server, Answer(401, Nothing)>> \/ o = <<server, Answer(403, Nothing)>>
    BY <2>1 DEF Answer, Ok
  <2>2. CASE o = <<server, Read(c)>>
    <3>1. Read(c) \in {Answer(200, [version |-> server.version]), Answer(404, Nothing)}
      BY <1>1 DEF Read, Parts
    <3>2. Read(c) = Answer(200, [version |-> server.version])
      BY <2>2, <3>1 DEF Answer, Ok
    <3> QED
      BY <2>2, <3>2 DEF Answer
  <2> QED
    BY <1>1, <2>1, <2>2 DEF Outcomes, Parts
<1>2. ASSUME c.kind = "execute"
      PROVE  o[1].version = server.version + 1 /\ o[2].body.version = server.version + 1
  <2>1. CASE o = <<server, Answer(401, Nothing)>> \/ o = <<server, Answer(403, Nothing)>>
             \/ o = <<server, Answer(409, Nothing)>>
    BY <2>1 DEF Answer, Ok
  <2>2. CASE o = <<[server EXCEPT !.version = @ + 1], Answer(200, [version |-> server.version + 1])>>
    BY <2>2 DEF Answer, VersionOK
  <2> QED
    BY <1>2, <2>1, <2>2 DEF Outcomes, ExecuteAction
<1> QED
  BY <1>1, <1>2

\* Calls that were of the current load stay so, or none of them is of the next.
LEMMA ExcludesKept ==
    ASSUME NEW v, Detail(ui, calls, v), NEW u, u.nth = ui.nth \/ u.nth = ui.nth + 1
    PROVE  /\ \A a, b \in DOMAIN calls : a # b => Excludes(calls[a], calls[b], u)
           /\ u.nth # ui.nth => \A a \in DOMAIN calls : ~Current(calls[a], u)
           /\ u.nth = ui.nth => \A a \in DOMAIN calls : Current(calls[a], u) <=> Current(calls[a], ui)
<1>1. ui.nth \in Nat /\ \A a \in DOMAIN calls : calls[a].nth \in Nat /\ calls[a].nth <= ui.nth
  BY DEF Detail, Versions, Fits
<1>2. u.nth # ui.nth => \A a \in DOMAIN calls : ~Current(calls[a], u)
  BY <1>1 DEF Current
<1>3. u.nth = ui.nth => \A a \in DOMAIN calls : Current(calls[a], u) <=> Current(calls[a], ui)
  BY DEF Current
<1>4. \A a, b \in DOMAIN calls : a # b => Excludes(calls[a], calls[b], ui)
  BY DEF Detail
<1>5. ASSUME NEW a \in DOMAIN calls, NEW b \in DOMAIN calls, a # b
      PROVE  Excludes(calls[a], calls[b], u)
  BY <1>2, <1>3, <1>4, <1>5 DEF Excludes
<1> QED
  BY <1>2, <1>3, <1>5

\* The i-th call was heard and no call is made.
LEMMA DetailDropped ==
    ASSUME NEW v, Detail(ui, calls, v), IsCalls(calls), NEW i \in DOMAIN calls,
           calls' = RemoveAt(calls, i) \o <<>>,
           ui'.nth = ui.nth \/ ui'.nth = ui.nth + 1, Versions(ui', v),
           \A a \in DOMAIN calls \ {i} : Fits(calls[a], ui', v),
           AtRest(ui') => \A a \in DOMAIN calls \ {i} : ~Current(calls[a], ui')
    PROVE  Detail(ui', calls', v)
<1>1. DOMAIN <<>> = {} /\ IsCalls(<<>>)
  BY NoCall
<1>2. Sourced(DOMAIN calls \ {i}, <<>>)
  BY <1>1, SourcedAnswered
<1>3. \A a, b \in DOMAIN calls \ {i} : a # b => Excludes(calls[a], calls[b], ui')
  BY ExcludesKept
<1> QED
  BY <1>1, <1>2, <1>3, DetailNext

\* What a handler leaves behind, by its parts.
LEMMA ThenIs ==
    ASSUME NEW u, NEW made
    PROVE  /\ Show(u).ui = u /\ Show(u).made = <<>>
           /\ Then(u, made, "").ui = u /\ Then(u, made, "").made = made
BY DEF Show, Then

\* A part that arrives keeps the page right: the last one of a load shows it or asks
\* for the names.
LEMMA HearPartKeeps ==
    ASSUME NEW v \in Nat, Detail(ui, calls, v), Runs(ui, "detail"), IsCalls(calls),
           NEW i \in DOMAIN calls, calls[i].kind \in Parts, NEW answer,
           Ok(answer) => answer = calls[i].answer /\ calls[i].phase = "answered",
           ui' = HearPart(calls[i], answer).ui,
           calls' = RemoveAt(calls, i) \o HearPart(calls[i], answer).made
    PROVE  Detail(ui', calls', v)
<1>1. PICK c, got, new :
        /\ c = calls[i]
        /\ got = [p \in DOMAIN ui.got \cup {c.kind} |-> IF p = c.kind THEN answer.body.version ELSE ui.got[p]]
        /\ new = [ui EXCEPT !.got = got]
  OBVIOUS
<1>0. ui' = HearPart(c, answer).ui /\ calls' = RemoveAt(calls, i) \o HearPart(c, answer).made
  BY <1>1
<1>2. /\ DOMAIN new = DOMAIN ui /\ new.got = got /\ new.view = ui.view /\ new.nth = ui.nth
      /\ new.acted = ui.acted /\ new.busy = ui.busy /\ new.stale = ui.stale /\ new.shown = ui.shown
  BY <1>1 DEF Runs, Fields
<1>3. /\ Versions(ui, v) /\ Fits(c, ui, v)
      /\ \A a \in DOMAIN calls : Fits(calls[a], ui, v)
      /\ \A a \in DOMAIN calls \ {i} : Excludes(calls[a], c, ui) /\ Excludes(c, calls[a], ui)
      /\ AtRest(ui) => \A a \in DOMAIN calls : ~Current(calls[a], ui)
  BY <1>1 DEF Detail
<1>4. CASE c.nth # ui.nth
  <2>1. HearPart(c, answer) = Show(ui)
    BY <1>4 DEF HearPart
  <2>2. ui' = ui /\ calls' = RemoveAt(calls, i) \o <<>>
    BY <1>0, <2>1, ThenIs
  <2> QED
    BY <1>3, <2>2, DetailDropped
<1>5. CASE c.nth = ui.nth /\ ~Ok(answer)
  <2>1. PICK old : old = [ui EXCEPT !.nth = @ + 1, !.busy = FALSE, !.error = ui.view = "shown",
                                    !.stale = ui.view = "shown",
                                    !.view = IF ui.view = "shown" THEN @ ELSE "error"]
    OBVIOUS
  <2>2. HearPart(c, answer) = Show(old)
    BY <1>5, <2>1 DEF HearPart
  <2>3. ui' = old /\ calls' = RemoveAt(calls, i) \o <<>>
    BY <1>0, <2>2, ThenIs
  <2>4. /\ ui'.nth = ui.nth + 1 /\ ui'.busy = FALSE /\ ui'.error = (ui.view = "shown")
        /\ ui'.stale = (ui.view = "shown")
        /\ ui'.view = (IF ui.view = "shown" THEN ui.view ELSE "error")
        /\ ui'.got = ui.got /\ ui'.acted = ui.acted /\ ui'.shown = ui.shown
    BY <2>1, <2>3 DEF Runs, Fields
  <2>5. Versions(ui', v)
    <3>1. /\ ui.nth \in Nat /\ ui.acted \in Nat /\ ui.acted <= v
          /\ \A p \in DOMAIN ui.got : p \in Parts /\ ui.got[p] \in Nat /\ ui.acted <= ui.got[p]
      BY <1>3 DEF Versions
    <3>2. ui'.view = "shown" => UpToDate(ui')
      BY <2>4 DEF UpToDate
    <3>3. ui'.nth \in Nat
      BY <2>4, <3>1
    <3>4. /\ ui'.acted \in Nat /\ ui'.acted <= v
          /\ \A p \in DOMAIN ui'.got : p \in Parts /\ ui'.got[p] \in Nat /\ ui'.acted <= ui'.got[p]
      BY <2>4, <3>1
    <3> QED
      BY <3>2, <3>3, <3>4 DEF Versions
  <2>6. Current(c, ui)
    BY <1>1, <1>5 DEF Current
  <2>7. \A a \in DOMAIN calls : ~Current(calls[a], ui')
    <3>1. ui.nth \in Nat
      BY <1>3 DEF Versions
    <3>2. ui'.nth = ui.nth + 1
      BY <2>4
    <3>3. ui'.nth # ui.nth
      BY <3>1, <3>2
    <3> QED
      BY <3>2, <3>3, ExcludesKept
  <2>8. ASSUME NEW a \in DOMAIN calls \ {i}
        PROVE  Fits(calls[a], ui', v)
    <3>1. calls[a].kind # "execute"
      BY <1>3, <2>6, <2>8 DEF Excludes
    <3>2. calls[a].kind # "names"
      BY <1>1, <1>3, <2>6, <2>8 DEF Fits
    <3>3. calls[a].nth \in Nat /\ calls[a].nth <= ui.nth /\ ui.nth \in Nat
      BY <1>3, <2>8 DEF Fits, Versions
    <3> QED
      BY <2>4, <2>7, <2>8, <3>1, <3>2, <3>3 DEF Fits
  <2> QED
    BY <2>3, <2>4, <2>5, <2>7, <2>8, DetailDropped
<1>6. CASE c.nth = ui.nth /\ Ok(answer)
  <2>1. Current(c, ui) /\ Came(c) /\ answer = c.answer
    BY <1>1, <1>6 DEF Current, Came
  <2>2. /\ c.kind \in Parts /\ c.kind \notin DOMAIN ui.got
        /\ answer.body.version \in Nat /\ ui.acted <= answer.body.version
    BY <1>1, <1>3, <2>1 DEF Fits
  <2>3. DOMAIN got = DOMAIN ui.got \cup {c.kind}
    BY <1>1
  <2>4. \A p \in DOMAIN got : p \in Parts /\ got[p] \in Nat /\ ui.acted <= got[p]
    BY <1>1, <1>3, <2>2, <2>3 DEF Versions
  <2>5. ~AtRest(ui)
    BY <1>1, <1>3, <2>1
  <2>6. \A a \in DOMAIN calls \ {i} :
          /\ calls[a].kind \notin {"names", "execute"}
          /\ Current(calls[a], ui) => calls[a].kind \notin DOMAIN got
    <3>1. ASSUME NEW a \in DOMAIN calls \ {i} PROVE calls[a].kind # "names"
      BY <1>1, <1>3, <2>1, <2>2, <3>1 DEF Fits
    <3>2. ASSUME NEW a \in DOMAIN calls \ {i} PROVE calls[a].kind # "execute"
      BY <1>3, <2>1, <3>2 DEF Excludes
    <3>3. ASSUME NEW a \in DOMAIN calls \ {i}, Current(calls[a], ui) PROVE calls[a].kind \notin DOMAIN got
      <4>1. calls[a].kind # c.kind
        BY <1>3, <2>1, <3>3 DEF Excludes
      <4>2. calls[a].kind \notin DOMAIN ui.got
        BY <1>3, <3>3 DEF Fits
      <4> QED
        BY <2>3, <4>1, <4>2
    <3> QED
      BY <3>1, <3>2, <3>3
  \* The script after this part, however it goes on, has these fields.
  <2> DEFINE Loading(u) == /\ u.nth = ui.nth /\ u.got = got /\ u.acted = ui.acted
  <2>7. ASSUME NEW u, Loading(u), NEW a \in DOMAIN calls \ {i}
        PROVE  Fits(calls[a], u, v)
    <3>1. Fits(calls[a], ui, v) /\ calls[a].kind \notin {"names", "execute"}
      BY <1>3, <2>6, <2>7
    <3>2. Current(calls[a], u) => Current(calls[a], ui)
      BY <2>7 DEF Current
    <3> QED
      BY <2>6, <2>7, <3>1, <3>2 DEF Fits
  <2>8. CASE DOMAIN got # Parts
    <3>1. HearPart(c, answer) = Show(new)
      BY <1>1, <1>2, <1>6, <2>8 DEF HearPart
    <3>2. ui' = new /\ calls' = RemoveAt(calls, i) \o <<>>
      BY <1>0, <3>1, ThenIs
    <3>3. Loading(ui') /\ ~AtRest(ui')
      BY <1>2, <2>5, <3>2 DEF AtRest
    <3>4. Versions(ui', v)
      BY <1>2, <1>3, <2>4, <3>2 DEF Versions, UpToDate
    <3>5. \A a \in DOMAIN calls \ {i} : Fits(calls[a], ui', v)
      BY <2>7, <3>3
    <3> HIDE DEF Loading
    <3> QED
      BY <1>2, <3>2, <3>3, <3>4, <3>5, DetailDropped
  <2>9. CASE DOMAIN got = Parts /\ ui.view = "shown"
    <3>1. HearPart(c, answer) = Show(Rendered(new))
      BY <1>1, <1>2, <1>6, <2>9 DEF HearPart
    <3>2. ui' = Rendered(new) /\ calls' = RemoveAt(calls, i) \o <<>>
      BY <1>0, <3>1, ThenIs
    <3>3. /\ ui'.nth = ui.nth /\ ui'.acted = ui.acted /\ ui'.got = got /\ ui'.shown = got
          /\ ui'.view = "shown"
      BY <1>2, <3>2 DEF Rendered, Runs, Fields
    <3>4. Versions(ui', v)
      BY <1>3, <2>4, <2>9, <3>3 DEF Versions, UpToDate
    <3>5. \A a \in DOMAIN calls \ {i} : Fits(calls[a], ui', v)
      BY <2>7, <3>3
    <3>6. ASSUME NEW a \in DOMAIN calls \ {i} PROVE ~Current(calls[a], ui')
      BY <2>6, <2>9, <3>3, <3>6 DEF Current
    <3> HIDE DEF Loading
    <3> QED
      BY <3>2, <3>3, <3>4, <3>5, <3>6, DetailDropped
  <2>10. CASE DOMAIN got = Parts /\ ui.view # "shown"
    <3>1. PICK d, made : d = Call("names", Nothing, ui.nth) /\ made = <<d>>
      OBVIOUS
    <3>2. HearPart(c, answer) = Then(new, made, "")
      BY <1>1, <1>2, <1>6, <2>10, <3>1 DEF HearPart
    <3>3. ui' = new /\ calls' = RemoveAt(calls, i) \o made
      <4>1. Then(new, made, "").ui = new /\ Then(new, made, "").made = made
        BY DEF Then
      <4> QED
        BY <1>0, <3>2, <4>1
    <3>4. d.kind = "names" /\ d.nth = ui.nth /\ d.phase = "sent" /\ DOMAIN d = CallFields
      BY <3>1, CallIs
    <3>5. IsCalls(made) /\ DOMAIN made = {1} /\ made[1] = d
      BY <3>1, <3>4, OneCall
    <3>6. Sourced(DOMAIN calls \ {i}, made)
      BY <3>3, <3>5, SourcedAnswered
    <3>7. Loading(ui') /\ ~AtRest(ui') /\ ui'.view # "shown"
      BY <1>2, <2>10, <3>3 DEF AtRest
    <3>8. Versions(ui', v)
      BY <1>2, <1>3, <2>4, <3>3 DEF Versions, UpToDate
    <3>9. \A a \in DOMAIN calls \ {i} : Fits(calls[a], ui', v)
      BY <2>7, <3>7
    <3>10. d.kind \notin Parts
      BY <3>4 DEF Parts
    <3>11. Fits(d, ui', v)
      <4>1. ui.nth \in Nat
        BY <1>3 DEF Versions
      <4> QED
        BY <2>10, <3>4, <3>7, <3>10, <4>1 DEF Fits, Current
    <3>12. \A a, b \in DOMAIN calls \ {i} : a # b => Excludes(calls[a], calls[b], ui')
      BY <3>7, ExcludesKept
    <3>13. \A a \in DOMAIN calls \ {i} : Excludes(calls[a], d, ui') /\ Excludes(d, calls[a], ui')
      BY <2>6, <3>4, <3>10 DEF Excludes, Current
    <3> HIDE DEF Loading
    <3> QED
      BY <3>5, <3>6, <3>7, <3>8, <3>9, <3>11, <3>12, <3>13, DetailNext
  <2> QED
    BY <2>8, <2>9, <2>10
<1> QED
  BY <1>4, <1>5, <1>6

\* The names that arrive, or fail to, show what was got.
LEMMA HearNamesKeeps ==
    ASSUME NEW v \in Nat, Detail(ui, calls, v), Runs(ui, "detail"), IsCalls(calls),
           NEW i \in DOMAIN calls, calls[i].kind = "names", NEW answer,
           ui' = HearNames(calls[i], answer).ui,
           calls' = RemoveAt(calls, i) \o HearNames(calls[i], answer).made
    PROVE  Detail(ui', calls', v)
<1>1. ui' = Rendered(ui) /\ calls' = RemoveAt(calls, i) \o <<>>
  BY ThenIs DEF HearNames
<1>2. /\ ui'.nth = ui.nth /\ ui'.acted = ui.acted /\ ui'.got = ui.got /\ ui'.shown = ui.got
      /\ ui'.view = "shown"
  BY <1>1 DEF Rendered, Runs, Fields
<1>3. DOMAIN ui.got = Parts /\ ui.view # "shown"
  BY DEF Detail, Fits
<1>4. Versions(ui', v)
  <2>1. Versions(ui, v)
    BY DEF Detail
  <2> QED
    BY <1>2, <1>3, <2>1 DEF Versions, UpToDate
<1>5. ASSUME NEW a \in DOMAIN calls \ {i}
      PROVE  ~Current(calls[a], ui) /\ calls[a].kind \notin {"names", "execute"}
  <2>1. Fits(calls[a], ui, v) /\ Excludes(calls[i], calls[a], ui)
    BY <1>5 DEF Detail
  <2> QED
    BY <1>3, <2>1 DEF Fits, Excludes, Current
<1>6. ASSUME NEW a \in DOMAIN calls \ {i}
      PROVE  ~Current(calls[a], ui') /\ Fits(calls[a], ui', v)
  <2>1. Fits(calls[a], ui, v)
    BY <1>6 DEF Detail
  <2>2. ~Current(calls[a], ui')
    BY <1>2, <1>5, <1>6 DEF Current
  <2> QED
    BY <1>2, <1>5, <1>6, <2>1, <2>2 DEF Fits
<1> QED
  BY <1>1, <1>2, <1>4, <1>6, DetailDropped

\* An executed action begins the next load, a refused one shows its error.
LEMMA HearExecuteKeeps ==
    ASSUME NEW v \in Nat, Detail(ui, calls, v), Runs(ui, "detail"), IsCalls(calls),
           NEW i \in DOMAIN calls, calls[i].kind = "execute", NEW answer,
           Ok(answer) => answer = calls[i].answer /\ calls[i].phase = "answered",
           ui' = HearExecute(calls[i], answer).ui,
           calls' = RemoveAt(calls, i) \o HearExecute(calls[i], answer).made
    PROVE  Detail(ui', calls', v)
<1>1. Versions(ui, v) /\ Fits(calls[i], ui, v) /\ ui.nth \in Nat
  BY DEF Detail, Versions
<1>2. ui.view = "shown" /\ ui.busy
  BY <1>1 DEF Fits
<1>3. ASSUME NEW a \in DOMAIN calls \ {i}
      PROVE  /\ ~Current(calls[a], ui) /\ calls[a].kind \notin {"names", "execute"}
             /\ calls[a].nth \in Nat /\ calls[a].nth <= ui.nth
  <2>1. Fits(calls[a], ui, v) /\ Excludes(calls[i], calls[a], ui)
    BY <1>3 DEF Detail
  <2>2. calls[a].kind # "names"
    BY <1>2, <2>1 DEF Fits
  <2> QED
    BY <2>1, <2>2 DEF Fits, Excludes
<1>4. CASE ~Ok(answer)
  <2>1. PICK new : new = [ui EXCEPT !.busy = FALSE, !.error = TRUE]
    OBVIOUS
  <2>2. HearExecute(calls[i], answer) = Show(new)
    BY <1>4, <2>1 DEF HearExecute
  <2>3. ui' = new /\ calls' = RemoveAt(calls, i) \o <<>>
    <3>1. Show(new).ui = new /\ Show(new).made = <<>>
      BY DEF Show, Then
    <3> QED
      BY <2>2, <3>1
  <2>4. /\ ui'.nth = ui.nth /\ ui'.acted = ui.acted /\ ui'.got = ui.got
        /\ ui'.stale = ui.stale /\ ui'.shown = ui.shown
    BY <2>1, <2>3 DEF Runs, Fields
  <2>5. Versions(ui', v)
    BY <1>1, <2>4 DEF Versions, Fits, UpToDate
  <2>6. \A a \in DOMAIN calls \ {i} : ~Current(calls[a], ui')
    BY <1>3, <2>4 DEF Current
  <2>7. \A a \in DOMAIN calls \ {i} : Fits(calls[a], ui', v)
    BY <1>3, <2>4, <2>6 DEF Fits
  <2> QED
    BY <2>3, <2>4, <2>5, <2>6, <2>7, DetailDropped
<1>5. CASE Ok(answer)
  <2>1. PICK new, made : /\ new = [ui EXCEPT !.nth = @ + 1, !.got = <<>>, !.acted = answer.body.version,
                                              !.panel = FALSE]
                         /\ made = DetailCalls(ui.nth + 1)
    OBVIOUS
  <2>2. HearExecute(calls[i], answer) = Then(new, made, "")
    BY <1>5, <2>1 DEF HearExecute
  <2>3. ui' = new /\ calls' = RemoveAt(calls, i) \o made
    <3>1. Then(new, made, "").ui = new /\ Then(new, made, "").made = made
      BY DEF Then
    <3> QED
      BY <2>2, <3>1
  <2>4. /\ ui'.nth = ui.nth + 1 /\ ui'.got = <<>> /\ ui'.acted = answer.body.version
        /\ ui'.view = ui.view /\ ui'.busy = ui.busy
    BY <2>1, <2>3 DEF Runs, Fields
  <2>5. answer.body.version \in Nat /\ answer.body.version <= v
    BY <1>1, <1>5 DEF Fits, Came
  <2>6. DOMAIN ui'.got = {}
    BY <2>4
  <2>7. Versions(ui', v)
    BY <1>1, <1>2, <2>4, <2>5, <2>6 DEF Versions
  <2>8. ~AtRest(ui')
    BY <1>2, <2>4 DEF AtRest
  <2>9. /\ IsCalls(made) /\ DOMAIN made = 1..3
        /\ \A m \in 1..3 : made[m].kind \in Parts /\ made[m].nth = ui.nth + 1 /\ made[m].phase = "sent"
        /\ \A m, n \in 1..3 : m # n => made[m].kind # made[n].kind
    BY <2>1, LoadCalls
  <2>10. Sourced(DOMAIN calls \ {i}, made)
    BY <2>3, <2>9, SourcedAnswered
  <2>11. ASSUME NEW m \in DOMAIN made
         PROVE  Fits(made[m], ui', v) /\ made[m].kind \in Parts /\ made[m].kind \notin {"names", "execute"}
    <3>1. made[m].kind \in Parts /\ made[m].nth = ui.nth + 1 /\ made[m].phase = "sent"
      BY <2>9, <2>11
    <3>2. made[m].kind \notin {"names", "execute"}
      BY <3>1 DEF Parts
    <3>3. made[m].nth = ui'.nth /\ made[m].nth \in Nat /\ made[m].nth <= ui'.nth
      BY <1>1, <2>4, <3>1
    <3> QED
      BY <2>6, <3>1, <3>2, <3>3 DEF Fits, Came
  <2>12. \A a \in DOMAIN calls : ~Current(calls[a], ui')
    <3>1. ui'.nth = ui.nth + 1
      BY <2>4
    <3>2. ui'.nth # ui.nth
      BY <1>1, <3>1
    <3> QED
      BY <3>1, <3>2, ExcludesKept
  <2>13. ASSUME NEW a \in DOMAIN calls \ {i}
         PROVE  Fits(calls[a], ui', v)
    <3>1. calls[a].nth \in Nat /\ calls[a].nth <= ui'.nth
      BY <1>1, <1>3, <2>4, <2>13
    <3> QED
      BY <1>3, <2>12, <2>13, <3>1 DEF Fits
  <2>14. \A a, b \in DOMAIN calls \ {i} : a # b => Excludes(calls[a], calls[b], ui')
    BY <2>4, ExcludesKept
  <2>15. ASSUME NEW a \in DOMAIN calls \ {i}, NEW m \in DOMAIN made
         PROVE  Excludes(calls[a], made[m], ui') /\ Excludes(made[m], calls[a], ui')
    <3>1. made[m].kind \notin {"names", "execute"} /\ calls[a].kind \notin {"names", "execute"}
      BY <1>3, <2>11, <2>15
    <3>2. ~Current(calls[a], ui')
      BY <2>12, <2>15
    <3> QED
      BY <3>1, <3>2 DEF Excludes
  <2>16. ASSUME NEW m \in DOMAIN made, NEW n \in DOMAIN made, m # n
         PROVE  Excludes(made[m], made[n], ui')
    <3>1. made[m].kind # made[n].kind /\ made[m].kind # "execute"
      BY <2>9, <2>11, <2>16
    <3> QED
      BY <3>1 DEF Excludes
  <2> QED
    BY <2>7, <2>8, <2>10, <2>11, <2>13, <2>14, <2>15, <2>16, DetailNext
<1> QED
  BY <1>4, <1>5

\* An action is executed alone, while no load is current.
LEMMA ExecuteKeeps ==
    ASSUME NEW v \in Nat, Detail(ui, calls, v), Runs(ui, "detail"), IsCalls(calls), Idle, Execute
    PROVE  Detail(ui', calls', v)
<1>1. PICK c : c = Call("execute", Nothing, ui.nth)
  OBVIOUS
<1>2. c.kind = "execute" /\ c.nth = ui.nth /\ c.phase = "sent" /\ DOMAIN c = CallFields
  BY <1>1, CallIs
<1>3. PICK made : made = <<c>>
  OBVIOUS
<1>4. IsCalls(made) /\ DOMAIN made = {1} /\ made[1] = c
  BY <1>2, <1>3, OneCall
<1>5. /\ ui.view = "shown" /\ ~ui.busy /\ calls' = calls \o made
      /\ ui' = [ui EXCEPT !.busy = TRUE, !.error = FALSE]
  BY <1>1, <1>3 DEF Idle, Execute, Handler
<1>6. /\ ui'.busy /\ ui'.view = "shown" /\ ui'.nth = ui.nth /\ ui'.got = ui.got /\ ui'.acted = ui.acted
      /\ ui'.stale = ui.stale /\ ui'.shown = ui.shown
  BY <1>5 DEF Runs, Fields
<1>7. Versions(ui', v) /\ ~AtRest(ui') /\ ui.nth \in Nat
  BY <1>6 DEF Detail, Versions, AtRest
<1>8. Sourced(DOMAIN calls, made)
  BY <1>4, <1>5, SourcedAppended
<1>9. ASSUME NEW a \in DOMAIN calls
      PROVE  /\ ~Current(calls[a], ui) /\ ~Current(calls[a], ui')
             /\ calls[a].kind \notin {"names", "execute"} /\ Fits(calls[a], ui', v)
  <2>1. Fits(calls[a], ui, v) /\ ~Current(calls[a], ui)
    BY <1>5, <1>9 DEF Detail, AtRest
  <2>2. ~Current(calls[a], ui')
    BY <1>6, <2>1 DEF Current
  <2>3. calls[a].kind \notin {"names", "execute"}
    BY <1>5, <2>1 DEF Fits
  <2> QED
    BY <1>6, <2>1, <2>2, <2>3 DEF Fits
<1>10. c.kind \notin Parts
  BY <1>2 DEF Parts
<1>11. Fits(c, ui', v)
  <2>1. UpToDate(ui')
    BY <1>5, <1>6 DEF Detail, Versions, UpToDate
  <2> QED
    BY <1>2, <1>6, <1>7, <1>10, <2>1 DEF Fits, Current, Came
<1>12. \A a, b \in DOMAIN calls : a # b => Excludes(calls[a], calls[b], ui')
  BY <1>6, ExcludesKept
<1>13. \A a \in DOMAIN calls : Excludes(calls[a], c, ui') /\ Excludes(c, calls[a], ui')
  BY <1>2, <1>9 DEF Excludes
<1> QED
  BY <1>4, <1>7, <1>8, <1>9, <1>11, <1>12, <1>13, DetailNext

\* The comment panel touches neither what is shown nor what is in flight.
LEMMA PanelKeeps ==
    ASSUME NEW v \in Nat, Detail(ui, calls, v), Runs(ui, "detail"), IsCalls(calls),
           NEW u, OfPanel(u), Handler(u, <<>>)
    PROVE  Detail(ui', calls', v)
<1>1. ui' = u /\ calls' = calls \o <<>>
  BY DEF Handler
<1>2. /\ ui'.view = ui.view /\ ui'.nth = ui.nth /\ ui'.busy = ui.busy /\ ui'.stale = ui.stale
      /\ ui'.got = ui.got /\ ui'.shown = ui.shown /\ ui'.acted = ui.acted
  BY <1>1 DEF OfPanel, Runs, Fields
<1>3. DOMAIN <<>> = {} /\ IsCalls(<<>>)
  BY NoCall
<1>4. Sourced(DOMAIN calls, <<>>)
  BY <1>1, <1>3, SourcedAppended
<1>5. Versions(ui', v)
  BY <1>2 DEF Detail, Versions, UpToDate
<1>6. \A a \in DOMAIN calls : Fits(calls[a], ui', v) /\ (AtRest(ui') => ~Current(calls[a], ui'))
  BY <1>2 DEF Detail, Fits, Current, UpToDate, AtRest
<1>7. \A a, b \in DOMAIN calls : a # b => Excludes(calls[a], calls[b], ui')
  BY <1>2, ExcludesKept
<1> QED
  BY <1>3, <1>4, <1>5, <1>6, <1>7, DetailNext

\* The request may have moved on when the page does nothing, or a call is handled.
LEMMA HandleKeeps ==
    ASSUME VersionOK, Detail(ui, calls, server.version), Runs(ui, "detail"), Makes(calls, "detail"),
           NEW i \in DOMAIN calls, Handle(i), server'.version \in Nat, server.version <= server'.version
    PROVE  Detail(ui', calls', server'.version)
<1>1. /\ IsCalls(calls)
      /\ DOMAIN calls' = DOMAIN calls /\ ui' = ui
      /\ \A j \in DOMAIN calls :
           /\ calls'[j].kind = calls[j].kind /\ calls'[j].nth = calls[j].nth
           /\ j # i => calls'[j] = calls[j]
  BY Handled DEF Makes
<1>2. PICK o \in Outcomes(calls[i]) : server' = o[1] /\ calls'[i].answer = o[2]
  BY <1>1, Handled
<1>3. Versions(ui, server.version) /\ server.version \in Nat
  BY DEF Detail, VersionOK
<1>4. Versions(ui', server'.version)
  <2>1. ui.acted \in Nat /\ ui.acted <= server'.version
    BY <1>3 DEF Versions
  <2> QED
    BY <1>1, <1>3, <2>1 DEF Versions
<1>5. \A j \in DOMAIN calls : Current(calls'[j], ui') <=> Current(calls[j], ui)
  BY <1>1 DEF Current
<1>6. ASSUME NEW j \in DOMAIN calls
      PROVE  Fits(calls'[j], ui', server'.version)
  <2>1. Fits(calls[j], ui, server.version)
    BY <1>6 DEF Detail
  <2>2. CASE j # i
    <3>1. calls'[j] = calls[j] /\ ui' = ui
      BY <1>1, <1>6, <2>2
    <3>2. Fits(calls[j], ui, server'.version)
      BY <1>3, <2>1 DEF Fits
    <3> QED
      BY <3>1, <3>2
  <2>3. CASE j = i
    <3>1. Came(calls'[i]) => Ok(o[2])
      BY <1>2 DEF Came
    <3>2. Current(calls[i], ui) /\ Came(calls'[i])
             => calls'[i].answer.body.version \in Nat /\ ui.acted <= calls'[i].answer.body.version
      BY <1>2, <1>3, <3>1, DetailAnswers DEF Current, Versions
    <3>3. calls[i].kind = "execute" /\ Came(calls'[i])
             => /\ calls'[i].answer.body.version \in Nat
                /\ calls'[i].answer.body.version <= server'.version
      BY <1>2, <1>3, <3>1, DetailAnswers
    <3> QED
      BY <1>1, <1>5, <2>1, <2>3, <3>2, <3>3 DEF Fits
  <2> QED
    BY <2>2, <2>3
<1>7. ASSUME NEW j \in DOMAIN calls, NEW k \in DOMAIN calls, j # k
      PROVE  Excludes(calls'[j], calls'[k], ui')
  <2>1. Excludes(calls[j], calls[k], ui)
    BY <1>7 DEF Detail
  <2> QED
    BY <1>1, <1>5, <1>7, <2>1 DEF Excludes
<1>8. AtRest(ui') => \A j \in DOMAIN calls : ~Current(calls'[j], ui')
  BY <1>1, <1>5 DEF Detail
<1> QED
  BY <1>1, <1>4, <1>6, <1>7, <1>8 DEF Detail

\* A page that has just loaded.
LEMMA DetailLoads ==
    ASSUME ui' = Script("detail"), calls' = FirstCalls("detail"), NEW v \in Nat
    PROVE  Detail(ui', calls', v)
<1>1. /\ ui'.nth = 1 /\ ui'.view = "loading" /\ ui'.acted = 0 /\ ui'.got = <<>>
  BY DEF Script
<1>2. DOMAIN ui'.got = {}
  BY <1>1
<1>3. calls' = DetailCalls(1)
  BY DEF FirstCalls
<1>4. /\ DOMAIN calls' = 1..3
      /\ \A i \in 1..3 : calls'[i].kind \in Parts /\ calls'[i].nth = 1 /\ calls'[i].phase = "sent"
      /\ \A i, j \in 1..3 : i # j => calls'[i].kind # calls'[j].kind
  BY <1>3, LoadCalls
<1>5. \A i \in 1..3 : calls'[i].kind \notin {"names", "execute"}
  BY <1>4 DEF Parts
<1>6. Versions(ui', v)
  BY <1>1, <1>2 DEF Versions
<1>7. \A i \in DOMAIN calls' : Fits(calls'[i], ui', v)
  BY <1>1, <1>2, <1>4, <1>5 DEF Fits, Came
<1>8. \A i, j \in DOMAIN calls' : i # j => Excludes(calls'[i], calls'[j], ui')
  BY <1>4, <1>5 DEF Excludes
<1>9. ~AtRest(ui')
  BY <1>1 DEF AtRest
<1> QED
  BY <1>6, <1>7, <1>8, <1>9 DEF Detail

\* What is right at one version of the request is right at a later one.
LEMMA DetailWaits ==
    ASSUME NEW v \in Nat, NEW w \in Nat, v <= w, Detail(ui, calls, v)
    PROVE  Detail(ui, calls, w)
<1>1. Versions(ui, w)
  BY DEF Detail, Versions
<1>2. ASSUME NEW i \in DOMAIN calls PROVE Fits(calls[i], ui, w)
  BY <1>2 DEF Detail, Fits
<1> QED
  BY <1>1, <1>2 DEF Detail

\* Each part of the current load is asked once, and what arrives of it is as new as the
\* last action that the page has executed (loadDetail and executeAction, request-detail.js).
THEOREM DetailInvariant == Spec => []DetailInv
<1>1. ASSUME Init PROVE DetailInv
  <2>1. ~Running
    BY <1>1 DEF Init, Running
  <2>2. VersionOK
    BY <1>1 DEF Init, VersionOK
  <2> QED
    BY <2>1, <2>2 DEF DetailInv
<1>2. ASSUME TabInv, DetailInv, [Next]_vars PROVE DetailInv'
  <2>1. VersionOK /\ VersionOK' /\ server.version <= server'.version
    BY <1>2, VersionStep DEF DetailInv
  <2>2. server.version \in Nat /\ server'.version \in Nat
    BY <2>1 DEF VersionOK
  <2>3. CASE UNCHANGED <<page, ui, calls>>
    <3>1. Running' <=> Running
      BY <2>3 DEF Running
    <3>2. page = "detail" /\ Running => Detail(ui, calls, server'.version)
      BY <1>2, <2>1, <2>2, DetailWaits DEF DetailInv
    <3> QED
      BY <2>1, <2>3, <3>1, <3>2 DEF DetailInv
  <2>4. ASSUME NEW p \in Pages, Load(p)
        PROVE  DetailInv'
    <3>1. CASE ui' = [view |-> "redirecting"]
      BY <2>1, <3>1 DEF DetailInv, Running
    <3>2. CASE page' # "detail"
      BY <2>1, <3>2 DEF DetailInv
    <3>3. CASE p = "detail" /\ ui' = Script(p) /\ calls' = FirstCalls(p)
      BY <2>1, <2>2, <3>3, DetailLoads DEF DetailInv
    <3> QED
      BY <2>4, <3>1, <3>2, <3>3, Loaded
  <2>5. ASSUME NEW i \in DOMAIN calls, Handle(i)
        PROVE  DetailInv'
    <3> SUFFICES ASSUME page = "detail", Running PROVE DetailInv'
      BY <2>1, <2>5 DEF DetailInv, Handle, Running
    <3>1. Runs(ui, "detail") /\ Makes(calls, "detail") /\ Detail(ui, calls, server.version)
      BY <1>2 DEF TabInv, DetailInv
    <3>2. Detail(ui', calls', server'.version)
      BY <2>1, <2>2, <2>5, <3>1, HandleKeeps
    <3> QED
      BY <2>1, <3>2 DEF DetailInv
  <2>6. ASSUME NEW i \in DOMAIN calls, NEW answer, Hears(i, answer)
        PROVE  DetailInv'
    <3>1. PICK h, c : h = Heard(c, answer) /\ c = calls[i]
      OBVIOUS
    <3>2. /\ Running /\ page' = page /\ Makes(calls, page) /\ Runs(ui, page)
          /\ ui' = h.ui /\ calls' = RemoveAt(calls, i) \o h.made
      BY <1>2, <2>6, <3>1, HearsFine DEF TabInv
    <3> SUFFICES ASSUME page = "detail" PROVE DetailInv'
      BY <2>1, <3>2 DEF DetailInv
    <3>3. Runs(ui, "detail") /\ IsCalls(calls) /\ c.kind \in Parts \cup {"names", "execute"}
      BY <3>1, <3>2 DEF Makes, Kinds
    <3>4. server' = server /\ (Ok(answer) => answer = calls[i].answer /\ calls[i].phase = "answered")
      <4>1. server' = server
        BY <2>6 DEF Hears, React
      <4>2. answer = Answer(0, Nothing) \/ (answer = calls[i].answer /\ calls[i].phase = "answered")
        BY <2>6 DEF Hears
      <4>3. ~Ok(Answer(0, Nothing))
        BY DEF Ok, Answer
      <4> QED
        BY <4>1, <4>2, <4>3
    <3>5. Detail(ui, calls, server.version)
      BY <1>2, <3>2 DEF DetailInv
    <3>6. CASE c.kind \in Parts
      <4>1. h = HearPart(calls[i], answer)
        BY <3>1, <3>6 DEF Heard, Parts
      <4> QED
        BY <2>1, <2>2, <3>1, <3>2, <3>3, <3>4, <3>5, <3>6, <4>1, HearPartKeeps DEF DetailInv
    <3>7. CASE c.kind = "names"
      <4>1. h = HearNames(calls[i], answer)
        BY <3>1, <3>7 DEF Heard, Parts
      <4> QED
        BY <2>1, <2>2, <3>1, <3>2, <3>3, <3>4, <3>5, <3>7, <4>1, HearNamesKeeps DEF DetailInv
    <3>8. CASE c.kind = "execute"
      <4>1. h = HearExecute(calls[i], answer)
        BY <3>1, <3>8 DEF Heard, Parts
      <4> QED
        BY <2>1, <2>2, <3>1, <3>2, <3>3, <3>4, <3>5, <3>8, <4>1, HearExecuteKeeps DEF DetailInv
    <3> QED
      BY <3>3, <3>6, <3>7, <3>8
  <2>7. CASE PageClick
    <3>1. Running /\ page' = page
      BY <1>2, <2>7, ClicksFine DEF Clicked
    <3> SUFFICES ASSUME page = "detail" PROVE DetailInv'
      BY <2>1, <3>1 DEF DetailInv
    <3>2. DetailClick
      BY <2>7 DEF PageClick, SubmitLogin, Retry, ShowSelectStep, SubmitForm, ChooseFilter,
                  OpenFormForType, On
    <3>3. Runs(ui, "detail") /\ IsCalls(calls) /\ Detail(ui, calls, server.version)
      BY <1>2, <3>1 DEF TabInv, DetailInv
    <3>4. Detail(ui', calls', server.version)
      BY <2>2, <3>2, <3>3, DetailClicks, ExecuteKeeps, PanelKeeps
    <3>5. Detail(ui', calls', server'.version)
      BY <2>1, <2>2, <3>4 DEF Detail, Versions, Fits
    <3> QED
      BY <2>1, <3>5 DEF DetailInv
  <2> QED
    BY <1>2, <2>3, <2>4, <2>5, <2>6, <2>7, Steps
<1> QED
  BY <1>1, <1>2, TabInvariant, PTL DEF Spec

\* After an action was executed and its page has loaded again, card, history and
\* actions are all as new as that action, in whatever order the answers of the
\* loads come in, and whatever is lost or refused.
THEOREM ReadsOwnWrites == Spec => []ReadYourWrites
<1>1. ASSUME DetailInv PROVE ReadYourWrites
  <2> SUFFICES ASSUME On("detail"), ui.view = "shown", ~ui.busy, ~ui.stale, NEW p \in Parts
               PROVE  ui.shown[p] >= ui.acted
    BY DEF ReadYourWrites
  <2>1. Versions(ui, server.version)
    BY <1>1 DEF DetailInv, Detail, On, Running
  <2>2. ui.shown[p] \in Nat /\ ui.acted \in Nat /\ ui.acted <= ui.shown[p]
    BY <2>1 DEF Versions, UpToDate
  <2> QED
    BY <2>2
<1> QED
  BY <1>1, DetailInvariant, PTL

-----------------------------------------------------------------------------
(* The submissions: a form that may still be submitted is one selection    *)
(* that has no POST of its own in flight.                                  *)

Posts == {i \in DOMAIN calls : calls[i].kind = "create"}

MayPost(u) == u.step = "form" /\ ~u.submitting

Paid(u, k) == u.nth \in Nat /\ k <= u.nth /\ (MayPost(u) => k + 1 <= u.nth)

PostsInv == page = "create" /\ Running => Paid(ui, Cardinality(Posts))

\* The calls that create a request are finitely many.
LEMMA PostsFinite ==
    ASSUME IsCalls(calls)
    PROVE  /\ Len(calls) \in Nat /\ DOMAIN calls = 1..Len(calls)
           /\ IsFiniteSet(Posts) /\ Cardinality(Posts) \in Nat
<1>1. Len(calls) \in Nat /\ DOMAIN calls = 1..Len(calls)
  BY LenProperties DEF IsCalls
<1>2. PICK n \in Nat : n = Len(calls)
  BY <1>1
<1>3. IsFiniteSet(1..n)
  BY FS_Interval
<1>4. Posts \in SUBSET (1..n)
  BY <1>1, <1>2 DEF Posts
<1>5. IsFiniteSet(Posts)
  BY <1>3, <1>4, FS_Subset
<1> QED
  BY <1>1, <1>5, FS_CardinalityType

\* Hearing the i-th call takes it out of the submissions, if it is one.
LEMMA PostsHeard ==
    ASSUME IsCalls(calls), NEW i \in DOMAIN calls, calls' = RemoveAt(calls, i) \o <<>>
    PROVE  /\ Cardinality(Posts') \in Nat
           /\ Cardinality(Posts') <= Cardinality(Posts)
           /\ calls[i].kind = "create" => Cardinality(Posts') + 1 <= Cardinality(Posts)
<1>1. IsFiniteSet(Posts) /\ Cardinality(Posts) \in Nat /\ DOMAIN calls = 1..Len(calls) /\ Len(calls) \in Nat
  BY PostsFinite
<1>2. /\ DOMAIN calls' = 1..(Len(calls) - 1)
      /\ \A j \in DOMAIN calls' :
           Old(i, j) \in DOMAIN calls /\ Old(i, j) # i /\ calls'[j] = calls[Old(i, j)]
  <2>1. PICK none : none = <<>>
    OBVIOUS
  <2>2. IsCalls(none) /\ DOMAIN none = {} /\ Len(none) = 0 /\ calls' = RemoveAt(calls, i) \o none
    BY <2>1, NoCall
  <2>3. /\ Len(calls) - 1 \in Nat
        /\ DOMAIN calls' = 1..((Len(calls) - 1) + Len(none))
        /\ \A j \in DOMAIN calls' :
             IF j <= Len(calls) - 1
             THEN Old(i, j) \in DOMAIN calls /\ Old(i, j) # i /\ calls'[j] = calls[Old(i, j)]
             ELSE j - (Len(calls) - 1) \in DOMAIN none /\ calls'[j] = none[j - (Len(calls) - 1)]
    BY <2>2, Answered
  <2> QED
    BY <2>2, <2>3
<1>3. PICK rest : rest = Posts \ {i}
  OBVIOUS
<1>4. IsFiniteSet(rest) /\ Cardinality(rest) = IF i \in Posts THEN Cardinality(Posts) - 1 ELSE Cardinality(Posts)
  BY <1>1, <1>3, FS_RemoveElement
<1>5. PICK now : now = Posts'
  OBVIOUS
<1>6. PICK f : f = [j \in now |-> Old(i, j)]
  OBVIOUS
<1>7. f \in [now -> rest]
  BY <1>2, <1>3, <1>5, <1>6 DEF Posts
<1>8. ASSUME NEW a \in now, NEW b \in now, f[a] = f[b]
      PROVE  a = b
  <2>1. a \in Nat /\ b \in Nat /\ i \in Nat
    BY <1>1, <1>2, <1>5 DEF Posts
  <2> QED
    BY <1>6, <1>8, <2>1 DEF Old
<1>9. f \in Injection(now, rest)
  BY <1>7, <1>8, Fun_IsInj
<1>10. IsFiniteSet(now) /\ Cardinality(now) <= Cardinality(rest)
  BY <1>4, <1>9, FS_Injection
<1>11. Cardinality(now) \in Nat
  BY <1>10, FS_CardinalityType
<1>12. calls[i].kind = "create" <=> i \in Posts
  BY DEF Posts
<1> QED
  BY <1>1, <1>4, <1>5, <1>10, <1>11, <1>12

\* Making a call adds one submission, if it is one.
LEMMA PostsMade ==
    ASSUME IsCalls(calls), NEW c, DOMAIN c = CallFields, calls' = calls \o <<c>>
    PROVE  Cardinality(Posts') = IF c.kind = "create" THEN Cardinality(Posts) + 1 ELSE Cardinality(Posts)
<1>1. PICK n \in Nat : n = Len(calls)
  BY PostsFinite
<1>2. DOMAIN calls = 1..n /\ IsFiniteSet(Posts)
  BY <1>1, PostsFinite
<1>3. PICK made : made = <<c>>
  OBVIOUS
<1>4. IsCalls(made) /\ DOMAIN made = {1} /\ made[1] = c /\ Len(made) = 1
  BY <1>3, OneCall
<1>5. /\ DOMAIN calls' = 1..(n + 1)
      /\ \A j \in DOMAIN calls' :
           IF j <= n THEN j \in DOMAIN calls /\ calls'[j] = calls[j]
           ELSE j - n \in {1} /\ calls'[j] = made[j - n]
  BY <1>1, <1>3, <1>4, Appended
<1>6. calls'[n + 1] = c /\ \A j \in 1..n : calls'[j] = calls[j]
  <2>1. n + 1 \in DOMAIN calls' /\ ~(n + 1 <= n) /\ (n + 1) - n = 1
    BY <1>5
  <2>2. calls'[n + 1] = c
    BY <1>4, <1>5, <2>1
  <2>3. \A j \in 1..n : j \in DOMAIN calls' /\ j <= n
    BY <1>5
  <2> QED
    BY <1>5, <2>2, <2>3
<1>7. DOMAIN calls' = (1..n) \cup {n + 1}
  BY <1>5
<1>8. CASE c.kind = "create"
  <2>1. Posts' = Posts \cup {n + 1}
    BY <1>2, <1>6, <1>7, <1>8 DEF Posts
  <2>2. n + 1 \notin Posts
    BY <1>2 DEF Posts
  <2>3. Cardinality(Posts \cup {n + 1}) = Cardinality(Posts) + 1
    BY <1>2, <2>2, FS_AddElement
  <2> QED
    BY <1>8, <2>1, <2>3
<1>9. CASE c.kind # "create"
  <2>1. Posts' = Posts
    BY <1>2, <1>6, <1>7, <1>9 DEF Posts
  <2> QED
    BY <1>9, <2>1
<1> QED
  BY <1>8, <1>9

\* Every POST in flight, and the one that the open form may still make, is paid for by a
\* selection of its own (request-create-select.js).
THEOREM PostsInvariant == Spec => []PostsInv
<1>1. ASSUME Init PROVE PostsInv
  BY <1>1 DEF Init, PostsInv, Running
<1>2. ASSUME TabInv, PostsInv, [Next]_vars PROVE PostsInv'
  <2>1. CASE UNCHANGED <<page, ui, calls>>
    BY <1>2, <2>1 DEF PostsInv, Running, Posts
  <2>2. ASSUME NEW p \in Pages, Load(p)
        PROVE  PostsInv'
    <3>1. CASE ui' = [view |-> "redirecting"]
      BY <3>1 DEF PostsInv, Running
    <3>2. CASE page' # "create"
      BY <3>2 DEF PostsInv
    <3>3. CASE p = "create" /\ ui' = Script(p) /\ calls' = FirstCalls(p)
      <4>1. ui'.nth = 0 /\ ui'.step = "select"
        BY <3>3 DEF Script
      <4>2. PICK c : c = Call("types", Nothing, 0)
        OBVIOUS
      <4>3. DOMAIN calls' = {1} /\ calls'[1] = c /\ c.kind = "types"
        BY <3>3, <4>2, CallIs DEF FirstCalls
      <4>4. Posts' = {}
        BY <4>3 DEF Posts
      <4>5. Cardinality(Posts') = 0
        BY <4>4, FS_EmptySet
      <4> QED
        BY <4>1, <4>5 DEF PostsInv, Paid, MayPost
    <3> QED
      BY <2>2, <3>1, <3>2, <3>3, Loaded
  <2>3. ASSUME NEW i \in DOMAIN calls, Handle(i)
        PROVE  PostsInv'
    <3>1. IsCalls(calls)
      BY <1>2 DEF TabInv
    <3>2. /\ DOMAIN calls' = DOMAIN calls /\ UNCHANGED <<page, ui>>
          /\ \A j \in DOMAIN calls : calls'[j].kind = calls[j].kind
      BY <2>3, <3>1, Handled
    <3>3. Posts' = Posts
      BY <3>2 DEF Posts
    <3> QED
      BY <1>2, <3>2, <3>3 DEF PostsInv, Running
  <2>4. ASSUME NEW i \in DOMAIN calls, NEW answer, Hears(i, answer)
        PROVE  PostsInv'
    <3>1. PICK h, c : h = Heard(c, answer) /\ c = calls[i]
      OBVIOUS
    <3>2. /\ Running /\ page' = page /\ Makes(calls, page) /\ Runs(ui, page)
          /\ ui' = h.ui /\ calls' = RemoveAt(calls, i) \o h.made
          /\ IsCalls(calls)
      BY <1>2, <2>4, <3>1, HearsFine DEF TabInv
    <3> SUFFICES ASSUME page = "create" PROVE PostsInv'
      BY <3>2 DEF PostsInv
    <3>3. h \in {HearTypes(c, answer), HearSchema(c, answer), HearCreate(c, answer)}
      BY <3>1, <3>2 DEF Makes, Kinds, Heard, Parts
    <3>4. h.made = <<>>
      <4>1. HearTypes(c, answer).made = <<>>
        BY DEF HearTypes, Show, Then
      <4>2. HearSchema(c, answer).made = <<>>
        BY DEF HearSchema, Show, Then
      <4>3. HearCreate(c, answer).made = <<>>
        BY DEF HearCreate, Show, Then
      <4> QED
        BY <3>3, <4>1, <4>2, <4>3
    <3>5. PICK k, l : k = Cardinality(Posts) /\ l = Cardinality(Posts')
      OBVIOUS
    <3>6. /\ k \in Nat /\ l \in Nat /\ l <= k
          /\ c.kind = "create" => l + 1 <= k
      BY <3>1, <3>2, <3>4, <3>5, PostsFinite, PostsHeard
    <3>7. Paid(ui, k)
      BY <1>2, <3>2, <3>5 DEF PostsInv
    <3>8. CASE c.kind = "create"
      <4>1. h = HearCreate(c, answer)
        BY <3>1, <3>8 DEF Heard, Parts
      <4>2. ui'.nth = ui.nth
        BY <3>2, <4>1 DEF HearCreate, Show, Then, Runs, Fields
      <4>3. Paid(ui', l)
        BY <3>6, <3>7, <3>8, <4>2 DEF Paid
      <4> QED
        BY <3>5, <4>3 DEF PostsInv
    <3>9. CASE c.kind # "create"
      <4>1. h \in {HearTypes(c, answer), HearSchema(c, answer)}
        BY <3>1, <3>2, <3>9 DEF Makes, Kinds, Heard, Parts
      <4>2. /\ HearTypes(c, answer).ui.nth = ui.nth /\ HearTypes(c, answer).ui.step = ui.step
            /\ HearTypes(c, answer).ui.submitting = ui.submitting
        BY <3>2 DEF HearTypes, Show, Then, Runs, Fields
      <4>3. /\ HearSchema(c, answer).ui.nth = ui.nth /\ HearSchema(c, answer).ui.step = ui.step
            /\ HearSchema(c, answer).ui.submitting = ui.submitting
        BY <3>2 DEF HearSchema, Show, Then, Runs, Fields
      <4>4. ui'.nth = ui.nth /\ ui'.step = ui.step /\ ui'.submitting = ui.submitting
        BY <3>2, <4>1, <4>2, <4>3
      <4>5. Paid(ui', l)
        BY <3>6, <3>7, <4>4 DEF Paid, MayPost
      <4> QED
        BY <3>5, <4>5 DEF PostsInv
    <3> QED
      BY <3>8, <3>9
  <2>5. CASE PageClick
    <3>1. Running /\ page' = page /\ Runs(ui, page) /\ IsCalls(calls)
      BY <1>2, <2>5, ClicksFine DEF Clicked, TabInv
    <3> SUFFICES ASSUME page = "create" PROVE PostsInv'
      BY <3>1 DEF PostsInv
    <3>2. Paid(ui, Cardinality(Posts)) /\ Cardinality(Posts) \in Nat
      BY <1>2, <3>1, PostsFinite DEF PostsInv
    <3>3. ASSUME NEW c, DOMAIN c = CallFields, calls' = calls \o <<c>>
          PROVE  Cardinality(Posts') = IF c.kind = "create" THEN Cardinality(Posts) + 1 ELSE Cardinality(Posts)
      BY <3>1, <3>3, PostsMade
    <3>4. CASE Retry
      <4>1. PICK c : c = Call("types", Nothing, 0)
        OBVIOUS
      <4>2. c.kind = "types" /\ DOMAIN c = CallFields
        BY <4>1, CallIs
      <4>3. ui' = [ui EXCEPT !.view = "loading"] /\ calls' = calls \o <<c>> /\ ui.step = "select"
        BY <3>4, <4>1 DEF Retry, On, Handler
      <4>4. Cardinality(Posts') = Cardinality(Posts)
        BY <3>3, <4>2, <4>3
      <4>5. ui'.nth = ui.nth /\ ui'.step = "select"
        BY <3>1, <4>3 DEF Runs, Fields
      <4> QED
        BY <3>2, <4>4, <4>5 DEF PostsInv, Paid, MayPost
    <3>5. CASE ShowSelectStep
      <4>1. /\ ui' = [ui EXCEPT !.step = "select", !.selected = NoType, !.form = "hidden", !.submitting = FALSE]
            /\ calls' = calls \o <<>>
        BY <3>5 DEF ShowSelectStep, Handler
      <4>2. calls' = calls
        BY <3>1, <4>1, ConcatEmptySeq DEF IsCalls
      <4>3. Posts' = Posts
        BY <4>2 DEF Posts
      <4>4. ui'.nth = ui.nth /\ ui'.step = "select"
        BY <3>1, <4>1 DEF Runs, Fields
      <4> QED
        BY <3>2, <4>3, <4>4 DEF PostsInv, Paid, MayPost
    <3>6. CASE SubmitForm
      <4>1. PICK arg : arg = [type |-> ui.selected]
        OBVIOUS
      <4>2. PICK c : c = Call("create", arg, ui.nth)
        OBVIOUS
      <4>3. c.kind = "create" /\ DOMAIN c = CallFields
        BY <4>2, CallIs
      <4>4. ui' = [ui EXCEPT !.submitting = TRUE] /\ calls' = calls \o <<c>> /\ MayPost(ui)
        BY <3>6, <4>1, <4>2 DEF SubmitForm, Handler, MayPost
      <4>5. Cardinality(Posts') = Cardinality(Posts) + 1
        BY <3>3, <4>3, <4>4
      <4>6. ui'.nth = ui.nth /\ ui'.submitting
        BY <3>1, <4>4 DEF Runs, Fields
      <4> QED
        BY <3>2, <4>4, <4>5, <4>6 DEF PostsInv, Paid, MayPost
    <3>7. ASSUME NEW t \in Types, OpenFormForType(t)
          PROVE  PostsInv'
      <4>1. PICK arg : arg = [type |-> t]
        OBVIOUS
      <4>2. PICK c : c = Call("schema", arg, ui.nth + 1)
        OBVIOUS
      <4>3. c.kind = "schema" /\ DOMAIN c = CallFields
        BY <4>2, CallIs
      <4>4. /\ ui' = [ui EXCEPT !.step = "form", !.nth = @ + 1, !.selected = t, !.form = "loading",
                                !.late = FALSE, !.submitting = FALSE]
            /\ calls' = calls \o <<c>>
        BY <3>7, <4>1, <4>2 DEF OpenFormForType, Handler
      <4>5. Cardinality(Posts') = Cardinality(Posts)
        BY <3>3, <4>3, <4>4
      <4>6. ui'.nth = ui.nth + 1
        BY <3>1, <4>4 DEF Runs, Fields
      <4> QED
        BY <3>2, <4>5, <4>6 DEF PostsInv, Paid
    <3> QED
      BY <2>5, <3>4, <3>5, <3>6, <3>7 DEF PageClick, SubmitLogin, DetailClick, ClickAction, ConfirmComment,
                  CancelComment, Idle, ChooseFilter, On
  <2> QED
    BY <1>2, <2>1, <2>2, <2>3, <2>4, <2>5, Steps
<1> QED
  BY <1>1, <1>2, TabInvariant, PTL DEF Spec

\* However often the form is submitted, given up and opened again, no more POSTs
\* are in flight than selections were made.
THEOREM PostsOfSelections == Spec => []SubmissionsBounded
<1>1. PostsInv => SubmissionsBounded
  BY DEF PostsInv, SubmissionsBounded, Paid, Posts, On, Running
<1> QED
  BY <1>1, PostsInvariant, PTL
=============================================================================
