-------------------------- MODULE OrderActionsProofs --------------------------
(***************************************************************************)
(* The OMS is told of each request at most once, and what the exchange     *)
(* did; each request is accounted for; the order of requests and the reach *)
(* of a cancel-all.  For every set of orders and of web sockets, every     *)
(* number of requests and of lost connections.                             *)
(***************************************************************************)
EXTENDS OrderActions, FiniteSetTheorems, SequenceTheorems, TLAPS

OfOrder == Kind \X Orders \X (1 .. MaxVersion)

HttpAnswer   == [request : Requests,
                 result : {"ok", "code", "limit", "client", "server", "network", "unreadable"}]
TopicAnswer == {a \in [topic : Kind \cup {"error"}, id : {"P", "M", "C"} \X Orders \X (1 .. MaxVersion)] :
                   a.topic # "error" => a.id[1] = Prefix(a.topic)}

\* The request an answer on link l is about.
About(l, a) == IF l = "rest" THEN a.request
               ELSE <<IF a.topic = "error" THEN ParseId(a.id) ELSE a.topic, a.id[2], a.id[3]>>

LEMMA Shape ==
  ASSUME NEW r \in OfOrder
  PROVE  /\ r = <<r[1], r[2], r[3]>> /\ r[1] \in Kind /\ r[2] \in Orders /\ r[3] \in 1 .. MaxVersion
         /\ r \in Requests /\ r[1] # "cancel_all" /\ r[2] # "all"
<1>1. r = <<r[1], r[2], r[3]>> /\ r[1] \in Kind /\ r[2] \in Orders /\ r[3] \in 1 .. MaxVersion
  BY DEF OfOrder
<1>2. r \in Requests  BY DEF OfOrder, Requests
<1>3. r[1] # "cancel_all"  BY <1>1 DEF Kind
<1>4. r[2] # "all"  BY <1>1, ActionsAssumption
<1> QED BY <1>1, <1>2, <1>3, <1>4

LEMMA ShapeAll ==
  ASSUME NEW r \in Requests, r \notin OfOrder
  PROVE  r = <<"cancel_all", "all", r[3]>> /\ r[3] \in 1 .. MaxCancelAll /\ r[1] = "cancel_all" /\ r[2] = "all"
BY DEF OfOrder, Requests

\* The id of a request comes back as the request it was made of.
LEMMA IdsName ==
  ASSUME NEW c \in Sockets, NEW r \in OfOrder, NEW yes \in BOOLEAN, NEW a \in Answers(c, r, yes)
  PROVE  /\ a \in TopicAnswer /\ About(c, a) = r
         /\ a.id = Encoded(r).id
         /\ yes <=> a.topic # "error"
<1>1. c # "rest"  BY ActionsAssumption
<1>2. a = [topic |-> IF yes THEN r[1] ELSE "error", id |-> Encoded(r).id]
  BY <1>1 DEF Answers
<1>3. Encoded(r).id = <<Prefix(r[1]), r[2], r[3]>>  BY DEF Encoded
<1>4. /\ r = <<r[1], r[2], r[3]>> /\ r[1] \in {"create", "modify", "cancel"} /\ r[2] \in Orders
      /\ r[3] \in 1 .. MaxVersion
  BY Shape DEF Kind
<1>5. a.id = <<Prefix(r[1]), r[2], r[3]>> /\ a.topic = (IF yes THEN r[1] ELSE "error")
  BY <1>2, <1>3
<1>6. Prefix(r[1]) \in {"P", "M", "C"}  BY <1>4 DEF Prefix
<1>7. ParseId(a.id) = r[1]  BY <1>4, <1>5 DEF ParseId, Prefix
<1>8. About(c, a) = r  BY <1>1, <1>4, <1>5, <1>7 DEF About
<1>9. a \in TopicAnswer
  <2>1. a.id \in {"P", "M", "C"} \X Orders \X (1 .. MaxVersion)  BY <1>4, <1>5, <1>6
  <2>2. a.topic \in Kind \cup {"error"}  BY <1>4, <1>5 DEF Kind
  <2>3. a.topic # "error" => a.id[1] = Prefix(a.topic)  BY <1>5
  <2> QED BY <1>2, <2>1, <2>2, <2>3 DEF TopicAnswer
<1>10. yes <=> a.topic # "error"  BY <1>4, <1>5
<1> QED BY <1>2, <1>8, <1>9, <1>10

LEMMA IdsKnown ==
  ASSUME NEW c \in Sockets, NEW a \in TopicAnswer
  PROVE  About(c, a) \in OfOrder /\ Encoded(About(c, a)).id = a.id /\ About(c, a)[1] # "undefined"
<1>1. c # "rest"  BY ActionsAssumption
<1>2. /\ a.id \in {"P", "M", "C"} \X Orders \X (1 .. MaxVersion)
      /\ a.topic \in {"create", "modify", "cancel", "error"}
      /\ a.topic # "error" => a.id[1] = Prefix(a.topic)
  BY DEF TopicAnswer, Kind
<1>3. a.id = <<a.id[1], a.id[2], a.id[3]>> /\ a.id[1] \in {"P", "M", "C"} /\ a.id[2] \in Orders
      /\ a.id[3] \in 1 .. MaxVersion
  BY <1>2
<1> DEFINE kind == IF a.topic = "error" THEN ParseId(a.id) ELSE a.topic
<1>4. kind \in {"create", "modify", "cancel"} /\ Prefix(kind) = a.id[1]
  <2>1. CASE a.topic = "error"  BY <1>3, <2>1 DEF ParseId, Prefix
  <2>2. CASE a.topic # "error"  BY <1>2, <2>2
  <2> QED BY <2>1, <2>2
<1>5. About(c, a) = <<kind, a.id[2], a.id[3]>>  BY <1>1 DEF About
<1> HIDE DEF kind
<1>6. About(c, a) \in OfOrder  BY <1>3, <1>4, <1>5 DEF OfOrder, Kind
<1>7. Encoded(About(c, a)).id = a.id  BY <1>3, <1>4, <1>5 DEF Encoded
<1> QED BY <1>4, <1>5, <1>6, <1>7

LEMMA HttpSays ==
  ASSUME NEW r \in Requests, NEW yes \in BOOLEAN, NEW a \in Answers("rest", r, yes)
  PROVE  /\ a \in HttpAnswer /\ About("rest", a) = r /\ a.request = r
         /\ a.result = "ok" => yes
         /\ ~LateServer /\ a.result \in {"code", "limit", "client", "server"} => ~yes
<1>1. PICK x \in Results(yes) : a = [request |-> r, result |-> x]  BY DEF Answers
<1>2. a.request = r /\ a.result = x  BY <1>1
<1>3. x \in {"ok", "code", "limit", "client", "server", "network", "unreadable"}
  BY DEF Results
<1>4. a \in HttpAnswer  BY <1>1, <1>3 DEF HttpAnswer
<1>5. x = "ok" => yes  BY DEF Results
<1>6. ~LateServer /\ x \in {"code", "limit", "client", "server"} => ~yes  BY DEF Results
<1> QED BY <1>2, <1>4, <1>5, <1>6 DEF About

-----------------------------------------------------------------------------
(* The two queues of a link *)

AskedOn(l)   == IF l = "rest" THEN Requests ELSE OfOrder
AnswersOn(l) == IF l = "rest" THEN HttpAnswer ELSE TopicAnswer

Items(q)     == {q[i] : i \in DOMAIN q}
Abouts(l, a) == {About(l, a[i]) : i \in DOMAIN a}

\* A request is in one place of link l, asked q and answered a, and not yet told.
OneLink(l, q, a, done) ==
  /\ \A i, j \in DOMAIN q : q[i] = q[j] => i = j
  /\ \A i, j \in DOMAIN a : About(l, a[i]) = About(l, a[j]) => i = j
  /\ Items(q) \cap Abouts(l, a) = {}
  /\ Items(q) \cap done = {} /\ Abouts(l, a) \cap done = {}

LEMMA EmptyQueue ==
  DOMAIN <<>> = {} /\ Items(<<>>) = {} /\ \A l : Abouts(l, <<>>) = {}
<1>1. DOMAIN <<>> = {}  OBVIOUS
<1>2. Items(<<>>) = {}  BY <1>1 DEF Items
<1>3. \A l : Abouts(l, <<>>) = {}  BY <1>1 DEF Abouts
<1> QED BY <1>1, <1>2, <1>3

LEMMA AboutRequest ==
  ASSUME NEW l \in Links, NEW a \in AnswersOn(l)
  PROVE  About(l, a) \in AskedOn(l) /\ About(l, a) \in Requests
<1>1. CASE l = "rest"  BY <1>1 DEF About, AnswersOn, AskedOn, HttpAnswer
<1>2. CASE l # "rest"
  <2>1. l \in Sockets /\ a \in TopicAnswer  BY <1>2 DEF Links, AnswersOn
  <2>2. About(l, a) \in OfOrder  BY <2>1, IdsKnown
  <2> QED BY <1>2, <2>2, Shape DEF AskedOn
<1> QED BY <1>1, <1>2

LEMMA AskedIsRequest ==
  ASSUME NEW l \in Links
  PROVE  AskedOn(l) \subseteq Requests
BY Shape DEF AskedOn

LEMMA Appended ==
  ASSUME NEW S, NEW q \in Seq(S), NEW e \in S
  PROVE  /\ Append(q, e) \in Seq(S)
         /\ Len(q) \in Nat /\ DOMAIN q = 1 .. Len(q) /\ DOMAIN Append(q, e) = 1 .. Len(q) + 1
         /\ \A i \in 1 .. Len(q) : Append(q, e)[i] = q[i]
         /\ Append(q, e)[Len(q) + 1] = e
         /\ Items(Append(q, e)) = Items(q) \cup {e}
<1>1. /\ Append(q, e) \in Seq(S) /\ Len(Append(q, e)) = Len(q) + 1
      /\ \A i \in 1 .. Len(q) : Append(q, e)[i] = q[i]
      /\ Append(q, e)[Len(q) + 1] = e
  BY AppendProperties
<1>2. Len(q) \in Nat /\ DOMAIN q = 1 .. Len(q)  BY LenProperties
<1>3. DOMAIN Append(q, e) = 1 .. Len(q) + 1  BY <1>1, LenProperties
<1> DEFINE b == Append(q, e)
<1> HIDE DEF b
<1>4. Items(b) \subseteq Items(q) \cup {e}
  <2>1. SUFFICES ASSUME NEW i \in DOMAIN b PROVE b[i] \in Items(q) \cup {e}
    BY DEF Items
  <2>2. CASE i = Len(q) + 1  BY <1>1, <2>2 DEF b
  <2>3. CASE i # Len(q) + 1
    <3>1. i \in 1 .. Len(q)  BY <1>2, <1>3, <2>3 DEF b
    <3> QED BY <1>1, <1>2, <3>1 DEF b, Items
  <2> QED BY <2>2, <2>3
<1>5. Items(q) \subseteq Items(b)
  <2>1. SUFFICES ASSUME NEW i \in DOMAIN q PROVE q[i] \in Items(b)
    BY DEF Items
  <2>2. i \in DOMAIN b /\ b[i] = q[i]  BY <1>1, <1>2, <1>3 DEF b
  <2> QED BY <2>2 DEF Items
<1>6. e \in Items(b)
  <2>1. Len(q) + 1 \in DOMAIN b /\ b[Len(q) + 1] = e  BY <1>1, <1>2, <1>3 DEF b
  <2> QED BY <2>1 DEF Items
<1> QED BY <1>1, <1>2, <1>3, <1>4, <1>5, <1>6 DEF b

LEMMA Shortened ==
  ASSUME NEW S, NEW q \in Seq(S), q # <<>>
  PROVE  /\ Tail(q) \in Seq(S) /\ Head(q) \in S /\ Head(q) = q[1]
         /\ Len(q) \in Nat /\ Len(q) >= 1 /\ DOMAIN q = 1 .. Len(q)
         /\ DOMAIN Tail(q) = 1 .. Len(q) - 1
         /\ \A i \in 1 .. Len(q) - 1 : Tail(q)[i] = q[i + 1]
         /\ Items(q) = Items(Tail(q)) \cup {Head(q)}
<1>1. /\ Head(q) \in S /\ Tail(q) \in Seq(S) /\ Len(Tail(q)) = Len(q) - 1
      /\ \A i \in 1 .. Len(Tail(q)) : Tail(q)[i] = q[i + 1]
  BY HeadTailProperties
<1>2. Len(q) \in Nat /\ DOMAIN q = 1 .. Len(q)  BY LenProperties
<1>3. Len(q) >= 1  BY <1>2, EmptySeq
<1>4. Head(q) = q[1]  BY HeadTailProperties
<1>5. DOMAIN Tail(q) = 1 .. Len(q) - 1  BY <1>1, LenProperties
<1> DEFINE b == Tail(q)
           e == Head(q)
<1> HIDE DEF b, e
<1>6. Items(q) \subseteq Items(b) \cup {e}
  <2>1. SUFFICES ASSUME NEW i \in DOMAIN q PROVE q[i] \in Items(b) \cup {e}
    BY DEF Items
  <2>2. CASE i = 1  BY <1>4, <2>2 DEF e
  <2>3. CASE i # 1
    <3>1. i - 1 \in DOMAIN b /\ (i - 1) + 1 = i  BY <1>2, <1>3, <1>5, <2>3 DEF b
    <3>2. b[i - 1] = q[i]  BY <1>1, <1>5, <3>1, <1>2, <1>3 DEF b
    <3> QED BY <3>1, <3>2 DEF Items
  <2> QED BY <2>2, <2>3
<1>7. Items(b) \subseteq Items(q)
  <2>1. SUFFICES ASSUME NEW i \in DOMAIN b PROVE b[i] \in Items(q)
    BY DEF Items
  <2>2. i + 1 \in DOMAIN q /\ b[i] = q[i + 1]  BY <1>1, <1>2, <1>3, <1>5 DEF b
  <2> QED BY <2>2 DEF Items
<1>8. e \in Items(q)
  <2>1. 1 \in DOMAIN q /\ q[1] = e  BY <1>2, <1>3, <1>4 DEF e
  <2> QED BY <2>1 DEF Items
<1> QED BY <1>1, <1>2, <1>3, <1>4, <1>5, <1>6, <1>7, <1>8 DEF b, e

\* What the answers are about.
LEMMA AboutsOf ==
  ASSUME NEW l \in Links, NEW a \in Seq(AnswersOn(l)), NEW x \in AnswersOn(l)
  PROVE  /\ Abouts(l, Append(a, x)) = Abouts(l, a) \cup {About(l, x)}
         /\ a # <<>> => Abouts(l, a) = Abouts(l, Tail(a)) \cup {About(l, Head(a))}
<1>1. \A b : Abouts(l, b) = {About(l, y) : y \in Items(b)}  BY DEF Abouts, Items
<1>2. Items(Append(a, x)) = Items(a) \cup {x}  BY Appended
<1>3. a # <<>> => Items(a) = Items(Tail(a)) \cup {Head(a)}  BY Shortened
<1> HIDE DEF Abouts
<1> QED BY <1>1, <1>2, <1>3

LEMMA LinkSend ==
  ASSUME NEW l \in Links, NEW q \in Seq(Requests), NEW a \in Seq(AnswersOn(l)), NEW done,
         OneLink(l, q, a, done), NEW r \in Requests,
         r \notin Items(q), r \notin Abouts(l, a), r \notin done
  PROVE  OneLink(l, Append(q, r), a, done)
<1> DEFINE b == Append(q, r)
<1>1. /\ Len(q) \in Nat /\ DOMAIN q = 1 .. Len(q) /\ DOMAIN b = 1 .. Len(q) + 1
      /\ \A i \in 1 .. Len(q) : b[i] = q[i]
      /\ b[Len(q) + 1] = r /\ Items(b) = Items(q) \cup {r}
  BY Appended
<1> HIDE DEF b
<1>2. ASSUME NEW i \in DOMAIN b, NEW j \in DOMAIN b, b[i] = b[j] PROVE i = j
  <2>1. \A k \in 1 .. Len(q) : b[k] # r  BY <1>1 DEF Items
  <2>2. CASE i = Len(q) + 1 \/ j = Len(q) + 1  BY <1>1, <1>2, <2>1, <2>2
  <2>3. CASE i # Len(q) + 1 /\ j # Len(q) + 1
    <3>1. i \in 1 .. Len(q) /\ j \in 1 .. Len(q)  BY <1>1, <2>3
    <3> QED BY <1>1, <1>2, <3>1 DEF OneLink
  <2> QED BY <2>2, <2>3
<1>3. Items(b) \cap Abouts(l, a) = {} /\ Items(b) \cap done = {}  BY <1>1 DEF OneLink
<1> QED BY <1>2, <1>3 DEF OneLink, b

LEMMA LinkHandle ==
  ASSUME NEW l \in Links, NEW q \in Seq(Requests), NEW a \in Seq(AnswersOn(l)), NEW done,
         OneLink(l, q, a, done), q # <<>>, NEW x \in AnswersOn(l), About(l, x) = Head(q)
  PROVE  OneLink(l, Tail(q), Append(a, x), done) /\ Head(q) \notin Items(Tail(q))
<1> DEFINE b == Append(a, x)
           t == Tail(q)
<1>1. /\ Len(a) \in Nat /\ DOMAIN a = 1 .. Len(a) /\ DOMAIN b = 1 .. Len(a) + 1
      /\ \A i \in 1 .. Len(a) : b[i] = a[i]
      /\ b[Len(a) + 1] = x
  BY Appended
<1>2. Abouts(l, b) = Abouts(l, a) \cup {Head(q)}  BY AboutsOf
<1>3. /\ Len(q) \in Nat /\ Len(q) >= 1 /\ DOMAIN q = 1 .. Len(q) /\ Head(q) = q[1]
      /\ DOMAIN t = 1 .. Len(q) - 1 /\ \A i \in 1 .. Len(q) - 1 : t[i] = q[i + 1]
      /\ Items(q) = Items(t) \cup {Head(q)}
  BY Shortened
<1> HIDE DEF b, t
<1>4. ASSUME NEW i \in DOMAIN t, NEW j \in DOMAIN t, t[i] = t[j] PROVE i = j
  <2>1. i + 1 \in DOMAIN q /\ j + 1 \in DOMAIN q /\ t[i] = q[i + 1] /\ t[j] = q[j + 1]
    BY <1>3
  <2>2. i + 1 = j + 1  BY <1>4, <2>1 DEF OneLink
  <2> QED BY <1>3, <2>2
<1>5. Head(q) \notin Items(t)
  <2>1. SUFFICES ASSUME NEW i \in DOMAIN t, t[i] = q[1] PROVE FALSE  BY <1>3 DEF Items
  <2>2. i + 1 \in DOMAIN q /\ 1 \in DOMAIN q /\ t[i] = q[i + 1] /\ i + 1 # 1  BY <1>3
  <2> QED BY <2>1, <2>2 DEF OneLink
<1>6. ASSUME NEW i \in DOMAIN b, NEW j \in DOMAIN b, About(l, b[i]) = About(l, b[j]) PROVE i = j
  <2>1. \A k \in 1 .. Len(a) : About(l, a[k]) # About(l, x)
    <3>1. Head(q) \in Items(q)  BY <1>3
    <3>2. Head(q) \notin Abouts(l, a)  BY <3>1 DEF OneLink
    <3> QED BY <1>1, <3>2 DEF Abouts
  <2>2. CASE i = Len(a) + 1 \/ j = Len(a) + 1  BY <1>1, <1>6, <2>1, <2>2
  <2>3. CASE i # Len(a) + 1 /\ j # Len(a) + 1
    <3>1. i \in 1 .. Len(a) /\ j \in 1 .. Len(a)  BY <1>1, <2>3
    <3>2. b[i] = a[i] /\ b[j] = a[j]  BY <1>1, <3>1
    <3> QED BY <1>1, <1>6, <3>1, <3>2 DEF OneLink
  <2> QED BY <2>2, <2>3
<1>7. /\ Items(t) \cap Abouts(l, b) = {} /\ Items(t) \cap done = {} /\ Abouts(l, b) \cap done = {}
  BY <1>2, <1>3, <1>5 DEF OneLink
<1> QED BY <1>4, <1>5, <1>6, <1>7 DEF OneLink, b, t

LEMMA LinkTold ==
  ASSUME NEW l \in Links, NEW q \in Seq(Requests), NEW a \in Seq(AnswersOn(l)),
         NEW done, NEW now,
         OneLink(l, q, a, done), a # <<>>, now \subseteq done \cup {About(l, Head(a))}
  PROVE  OneLink(l, q, Tail(a), now) /\ About(l, Head(a)) \notin Abouts(l, Tail(a))
<1> DEFINE t == Tail(a)
           e == Head(a)
<1>1. /\ Len(a) \in Nat /\ Len(a) >= 1 /\ DOMAIN a = 1 .. Len(a) /\ e = a[1] /\ e \in AnswersOn(l)
      /\ DOMAIN t = 1 .. Len(a) - 1 /\ \A i \in 1 .. Len(a) - 1 : t[i] = a[i + 1]
  BY Shortened
<1>2. Abouts(l, a) = Abouts(l, t) \cup {About(l, e)}  BY <1>1, AboutsOf
<1> HIDE DEF t, e
<1>3. ASSUME NEW i \in DOMAIN t, NEW j \in DOMAIN t, About(l, t[i]) = About(l, t[j]) PROVE i = j
  <2>1. i + 1 \in DOMAIN a /\ j + 1 \in DOMAIN a /\ t[i] = a[i + 1] /\ t[j] = a[j + 1]
    BY <1>1
  <2>2. i + 1 = j + 1  BY <1>3, <2>1 DEF OneLink
  <2> QED BY <1>1, <2>2
<1>4. About(l, e) \notin Abouts(l, t)
  <2>1. SUFFICES ASSUME NEW i \in DOMAIN t, About(l, t[i]) = About(l, e) PROVE FALSE
    BY DEF Abouts
  <2>2. i + 1 \in DOMAIN a /\ 1 \in DOMAIN a /\ t[i] = a[i + 1] /\ i + 1 # 1  BY <1>1
  <2> QED BY <1>1, <2>1, <2>2 DEF OneLink
<1>5. /\ Items(q) \cap Abouts(l, t) = {} /\ Items(q) \cap now = {} /\ Abouts(l, t) \cap now = {}
  BY <1>2, <1>4 DEF OneLink, e
<1> QED BY <1>3, <1>4, <1>5 DEF OneLink, t, e

\* A connection lost: what was asked or answered over REST is now answered alike.
LEMMA LinkLost ==
  ASSUME NEW q \in Seq(Requests), NEW a \in Seq(HttpAnswer), NEW done,
         OneLink("rest", q, a, done)
  PROVE  LET waiting == [i \in DOMAIN a |-> a[i].request]
             open    == waiting \o q
             failed  == [i \in DOMAIN open |-> [request |-> open[i], result |-> "network"]]
         IN  /\ failed \in Seq(HttpAnswer)
             /\ Abouts("rest", failed) = Abouts("rest", a) \cup Items(q)
             /\ OneLink("rest", <<>>, failed, done)
             /\ \A x \in Items(failed) : x.result = "network"
<1> DEFINE waiting == [i \in DOMAIN a |-> a[i].request]
           open    == waiting \o q
           failed  == [i \in DOMAIN open |-> [request |-> open[i], result |-> "network"]]
<1>1. /\ Len(a) \in Nat /\ DOMAIN a = 1 .. Len(a) /\ Len(q) \in Nat /\ DOMAIN q = 1 .. Len(q)
      /\ \A i \in 1 .. Len(a) : a[i] \in HttpAnswer
  BY LenProperties, ElementOfSeq
<1>2. \A i \in 1 .. Len(a) : a[i].request \in Requests  BY <1>1 DEF HttpAnswer
<1>3. waiting \in Seq(Requests) /\ Len(waiting) = Len(a) /\ DOMAIN waiting = 1 .. Len(a)
  BY <1>1, <1>2
<1>4. \A i \in 1 .. Len(a) : waiting[i] = About("rest", a[i])  BY <1>1 DEF About
<1> HIDE DEF waiting
<1>5. /\ open \in Seq(Requests) /\ Len(open) = Len(a) + Len(q)
      /\ \A i \in 1 .. Len(a) + Len(q) :
           open[i] = IF i <= Len(a) THEN waiting[i] ELSE q[i - Len(a)]
  <2>1. /\ waiting \o q \in Seq(Requests) /\ Len(waiting \o q) = Len(waiting) + Len(q)
        /\ \A i \in 1 .. Len(waiting) + Len(q) :
             (waiting \o q)[i] = IF i <= Len(waiting) THEN waiting[i] ELSE q[i - Len(waiting)]
    BY <1>3, ConcatProperties
  <2> QED BY <1>3, <2>1
<1>6. DOMAIN open = 1 .. Len(a) + Len(q)  BY <1>5, LenProperties
<1> HIDE DEF open
<1>7. \A i \in 1 .. Len(a) : i \in DOMAIN open /\ open[i] = About("rest", a[i])
  BY <1>1, <1>4, <1>5, <1>6
<1>8. \A i \in 1 .. Len(q) : i + Len(a) \in DOMAIN open /\ open[i + Len(a)] = q[i]
  BY <1>1, <1>5, <1>6
<1>9. \A i \in DOMAIN open : \/ i \in 1 .. Len(a)
                             \/ i - Len(a) \in 1 .. Len(q) /\ open[i] = q[i - Len(a)]
  BY <1>1, <1>5, <1>6
<1>10. \A i \in DOMAIN open : open[i] \in Requests  BY <1>5, <1>6, ElementOfSeq
<1>11. \A i \in DOMAIN open : /\ failed[i] \in HttpAnswer /\ failed[i].result = "network"
                              /\ About("rest", failed[i]) = open[i]
  BY <1>10 DEF HttpAnswer, About
<1>12. DOMAIN failed = DOMAIN open  OBVIOUS
<1>13. failed \in Seq(HttpAnswer)
  <2>1. Len(a) + Len(q) \in Nat  BY <1>1
  <2> QED BY <1>6, <1>11, <2>1
<1> HIDE DEF failed
<1>14. Abouts("rest", failed) = Items(open)  BY <1>11, <1>12 DEF Abouts, Items
<1>15. Items(open) = Abouts("rest", a) \cup Items(q)
  <2>1. Abouts("rest", a) \subseteq Items(open)  BY <1>1, <1>7 DEF Abouts, Items
  <2>2. Items(q) \subseteq Items(open)
    <3>1. SUFFICES ASSUME NEW i \in 1 .. Len(q) PROVE q[i] \in Items(open)
      BY <1>1 DEF Items
    <3> QED BY <1>8 DEF Items
  <2>3. Items(open) \subseteq Abouts("rest", a) \cup Items(q)
    <3>1. SUFFICES ASSUME NEW i \in DOMAIN open PROVE open[i] \in Abouts("rest", a) \cup Items(q)
      BY DEF Items
    <3>2. CASE i \in 1 .. Len(a)  BY <1>1, <1>7, <3>2 DEF Abouts
    <3>3. CASE i \notin 1 .. Len(a)  BY <1>1, <1>9, <3>3 DEF Items
    <3> QED BY <3>2, <3>3
  <2> QED BY <2>1, <2>2, <2>3
<1>16. ASSUME NEW i \in DOMAIN open, NEW j \in DOMAIN open, open[i] = open[j] PROVE i = j
  <2>1. CASE i \in 1 .. Len(a) /\ j \in 1 .. Len(a)
    BY <1>1, <1>7, <1>16, <2>1 DEF OneLink
  <2>2. CASE i \in 1 .. Len(a) /\ j \notin 1 .. Len(a)
    <3>1. open[i] \in Abouts("rest", a) /\ open[j] \in Items(q)
      BY <1>1, <1>7, <1>9, <2>2 DEF Abouts, Items
    <3> QED BY <1>16, <3>1 DEF OneLink
  <2>3. CASE i \notin 1 .. Len(a) /\ j \in 1 .. Len(a)
    <3>1. open[j] \in Abouts("rest", a) /\ open[i] \in Items(q)
      BY <1>1, <1>7, <1>9, <2>3 DEF Abouts, Items
    <3> QED BY <1>16, <3>1 DEF OneLink
  <2>4. CASE i \notin 1 .. Len(a) /\ j \notin 1 .. Len(a)
    <3>1. i - Len(a) = j - Len(a)  BY <1>1, <1>9, <1>16, <2>4 DEF OneLink
    <3>2. i \in Int /\ j \in Int  BY <1>1, <1>6
    <3> QED BY <1>1, <3>1, <3>2
  <2> QED BY <2>1, <2>2, <2>3, <2>4
<1>17. \A i, j \in DOMAIN failed : About("rest", failed[i]) = About("rest", failed[j]) => i = j
  BY <1>11, <1>12, <1>16
<1>18. Items(<<>>) = {} /\ DOMAIN <<>> = {}  BY EmptyQueue
<1>19. Abouts("rest", failed) \cap done = {}  BY <1>14, <1>15 DEF OneLink
<1>20. OneLink("rest", <<>>, failed, done)  BY <1>17, <1>18, <1>19 DEF OneLink
<1>21. \A x \in Items(failed) : x.result = "network"  BY <1>11, <1>12 DEF Items
<1> QED BY <1>13, <1>14, <1>15, <1>20, <1>21 DEF failed, open, waiting

-----------------------------------------------------------------------------
(* The invariant *)

Queues ==
  /\ request = [l \in Links |-> request[l]] /\ response = [l \in Links |-> response[l]]
  /\ \A l \in Links : request[l] \in Seq(AskedOn(l)) /\ response[l] \in Seq(AnswersOn(l))

\* Each request took one link, on the way out or back it is in one place of it, and
\* it is told once.  New requests are new.
Placed ==
  /\ \A l \in Links : OneLink(l, request[l], response[l], Answered)
  /\ \A l \in Links : \A r \in Items(request[l]) \cup Abouts(l, response[l]) : <<r, l>> \in sent
  /\ Answered \subseteq Sent
  /\ \A s, t \in sent : s[1] = t[1] => s = t
  /\ \A s, t \in told : s[1] = t[1] => s = t
  /\ \A s \in sent : /\ s[2] \in Routes(s[1])
                     /\ s[1][2] \in Orders => s[1][3] <= version[s[1][2]]

Refused == {"code", "limit", "client", "server"}

\* What an answer says of its request is true.
Says(l, a, executed) ==
  IF l = "rest"
  THEN /\ a.result = "ok" => About(l, a) \in executed
       /\ ~LateServer /\ a.result \in Refused => About(l, a) \notin executed
  ELSE a.topic # "error" <=> About(l, a) \in executed

Truthful ==
  /\ applied \subseteq Sent
  /\ \A l \in Links : Items(request[l]) \cap applied = {}
  /\ \A l \in Links : \A a \in Items(response[l]) : Says(l, a, applied)
  /\ ToldTheTruth

\* A request is on its link, told, lost with its socket, or executed over REST.
Found ==
  \A s \in sent :
    \/ s[1] \in Answered \/ s[1] \in orphans
    \/ s[1] \in Items(request[s[2]]) \/ s[1] \in Abouts(s[2], response[s[2]])
    \/ s[2] = "rest" /\ s[1] \in applied

ActionsInv == TypeOK /\ Queues /\ Placed /\ Truthful /\ Found

-----------------------------------------------------------------------------
(* What the steps do *)

\* The OMS makes request r, and link l takes it.
Makes(r, l) ==
  /\ l \in Links /\ l \in Routes(r) /\ r \in AskedOn(l) /\ r \notin Sent
  /\ request' = [request EXCEPT ![l] = Append(@, r)]
  /\ sent' = sent \cup {<<r, l>>}
  /\ version' \in [Orders -> 0 .. MaxVersion]
  /\ \A o \in Orders : version[o] <= version'[o]
  /\ r[2] \in Orders => version[r[2]] < r[3] /\ r[3] <= version'[r[2]]
  /\ r[1] = "create" => r[3] = 1
  /\ \/ r[2] \in Orders /\ before' = before
     \/ /\ r = <<"cancel_all", "all", r[3]>> /\ r[3] \in 1 .. MaxCancelAll
        /\ before' = [before EXCEPT ![r[3]] = {o \in Orders : version[o] > 0}]
        /\ version' = version
  /\ UNCHANGED <<ws_api, ready, response, told, exchange, orphans, drops>>

\* The gateway takes the next answer of link l.
Takes(l) ==
  /\ l \in Links /\ response[l] # <<>>
  /\ response' = [response EXCEPT ![l] = Tail(@)]
  /\ LET a == Head(response[l])
     IN  \/ l = "rest" /\ a.result = "ok" /\ told' = told
         \/ \E v \in Verdicts :
              /\ told' = told \cup {<<About(l, a), v>>}
              /\ v = "accepted" => l # "rest" /\ a.topic # "error"
              /\ v = "rejected" /\ About(l, a)[1] # "cancel_all" =>
                   IF l = "rest" THEN a.result \in Refused ELSE a.topic = "error"
  /\ UNCHANGED <<ws_api, ready, request, version, exchange, hist, drops>>

LEMMA RouteIsLink ==
  ASSUME TypeOK, NEW r, NEW l \in Routes(r)
  PROVE  l \in Links /\ (l = "rest" \/ r[1] # "cancel_all")
BY DEF Routes, Links

\* A request with a version beyond those so far is new.
LEMMA NewVersion ==
  ASSUME ActionsInv, NEW o \in Orders, NEW k \in Kind, NEW v \in 1 .. MaxVersion, version[o] < v
  PROVE  <<k, o, v>> \notin Sent /\ <<k, o, v>> \in OfOrder
<1>1. <<k, o, v>> \in OfOrder  BY DEF OfOrder
<1>2. version[o] \in Nat  BY DEF ActionsInv, TypeOK
<1>3. ASSUME NEW s \in sent, s[1] = <<k, o, v>> PROVE FALSE
  <2>1. s[1][2] = o /\ s[1][3] = v  BY <1>3
  <2>2. v <= version[o]  BY <2>1 DEF ActionsInv, Placed
  <2> QED BY <1>2, <2>2
<1> QED BY <1>1, <1>3 DEF Sent

LEMMA OmsMakes ==
  ASSUME ActionsInv, Oms, UNCHANGED ws_api
  PROVE  \E r \in Requests, l \in Links : Makes(r, l)
<1>1. /\ TypeOK /\ MaxVersion \in Nat /\ MaxVersion >= 1
      /\ version \in [Orders -> 0 .. MaxVersion]
  BY ActionsAssumption DEF ActionsInv, TypeOK
<1>2. ASSUME NEW o \in Orders, NEW k \in Kind, NEW v \in 1 .. MaxVersion, version[o] < v, k = "create" => v = 1,
             version' = [version EXCEPT ![o] = v], Send(<<k, o, v>>), before' = before
      PROVE  \E r \in Requests, l \in Links : Makes(r, l)
  <2> DEFINE r == <<k, o, v>>
  <2>1. r \notin Sent /\ r \in OfOrder  BY <1>2, NewVersion
  <2>2. r \in Requests /\ r[1] = k /\ r[2] = o /\ r[3] = v  BY <2>1, Shape
  <2> HIDE DEF r
  <2>3. PICK l \in Routes(r) \cap ready :
          /\ request' = [request EXCEPT ![l] = Append(@, r)]
          /\ sent' = sent \cup {<<r, l>>}
          /\ UNCHANGED <<ready, response, told, exchange, orphans, drops>>
    BY <1>2 DEF Send, r
  <2>4. l \in Links  BY <1>1, <2>3, RouteIsLink
  <2>5. r \in AskedOn(l)  BY <2>1, <2>2 DEF AskedOn
  <2>6. version' \in [Orders -> 0 .. MaxVersion] /\ version'[o] = v
    BY <1>1, <1>2
  <2>7. \A p \in Orders : version[p] <= version'[p]  BY <1>1, <1>2
  <2>8. v <= v  OBVIOUS
  <2>9. Makes(r, l)  BY <1>2, <2>1, <2>2, <2>3, <2>4, <2>5, <2>6, <2>7, <2>8 DEF Makes
  <2> QED BY <2>2, <2>4, <2>9
<1>3. CASE \E o \in Orders : CreateOrder(o)
  <2>1. PICK o \in Orders : CreateOrder(o)  BY <1>3
  <2>2. /\ version[o] < 1 /\ version' = [version EXCEPT ![o] = 1]
        /\ Send(<<"create", o, 1>>) /\ before' = before
    BY <2>1 DEF CreateOrder
  <2>3. "create" \in Kind /\ 1 \in 1 .. MaxVersion  BY <1>1 DEF Kind
  <2> QED BY <1>2, <2>2, <2>3
<1>4. CASE \E o \in Orders : ModifyOrder(o) \/ CancelOrder(o)
  <2>1. PICK o \in Orders, k \in {"modify", "cancel"} :
          /\ version[o] \in 1 .. MaxVersion - 1
          /\ version' = [version EXCEPT ![o] = version[o] + 1]
          /\ Send(<<k, o, version[o] + 1>>) /\ before' = before
    <3>1. PICK o \in Orders : ModifyOrder(o) \/ CancelOrder(o)  BY <1>4
    <3>2. CASE ModifyOrder(o)  BY <1>1, <3>2 DEF ModifyOrder
    <3>3. CASE CancelOrder(o)  BY <1>1, <3>3 DEF CancelOrder
    <3> QED BY <3>1, <3>2, <3>3
  <2>2. k \in Kind /\ version[o] + 1 \in 1 .. MaxVersion /\ version[o] < version[o] + 1
    BY <1>1, <2>1 DEF Kind
  <2> QED BY <1>2, <2>1, <2>2
<1>5. CASE \E n \in 1 .. MaxCancelAll : CancelAllOrders(n)
  <2>1. PICK n \in 1 .. MaxCancelAll : CancelAllOrders(n)  BY <1>5
  <2> DEFINE r == <<"cancel_all", "all", n>>
  <2>2. r \in Requests /\ r[1] = "cancel_all" /\ r[2] = "all" /\ r[3] = n  BY DEF Requests
  <2>3. r[2] \notin Orders  BY <2>2, ActionsAssumption
  <2>4. r \notin Sent
    <3>1. ASSUME NEW s \in sent, s[1] = r PROVE FALSE
      <4>1. s[1][3] < n  BY <2>1, <2>2, <3>1 DEF CancelAllOrders
      <4> QED BY <2>2, <3>1, <4>1
    <3> QED BY <3>1 DEF Sent
  <2>5. /\ Send(r) /\ before' = [before EXCEPT ![n] = {o \in Orders : version[o] > 0}]
        /\ version' = version
    BY <2>1 DEF CancelAllOrders
  <2> HIDE DEF r
  <2>6. PICK l \in Routes(r) \cap ready :
          /\ request' = [request EXCEPT ![l] = Append(@, r)]
          /\ sent' = sent \cup {<<r, l>>}
          /\ UNCHANGED <<ready, response, told, exchange, orphans, drops>>
    BY <2>5 DEF Send
  <2>7. l \in Links /\ l = "rest"  BY <1>1, <2>2, <2>6, RouteIsLink
  <2>8. r \in AskedOn(l)  BY <2>2, <2>7 DEF AskedOn
  <2>9. \A o \in Orders : version[o] <= version'[o]  BY <1>1, <2>5
  <2>10. r = <<"cancel_all", "all", r[3]>> /\ r[3] \in 1 .. MaxCancelAll  BY <2>2 DEF r
  <2>11. Makes(r, l)
    BY <1>1, <2>2, <2>3, <2>4, <2>5, <2>6, <2>7, <2>8, <2>9, <2>10 DEF Makes
  <2> QED BY <2>2, <2>7, <2>11
<1> QED BY <1>3, <1>4, <1>5 DEF Oms

LEMMA RestAckTakes ==
  ASSUME ActionsInv, RestAck, UNCHANGED ws_api
  PROVE  Takes("rest")
<1> DEFINE a == Head(response["rest"])
           verdict == IF a.request[1] = "cancel_all" /\ a.result # "ok"
                      THEN "rejected" ELSE Verdict(a.result)
<1>1. /\ "rest" \in Links /\ response["rest"] # <<>>
      /\ response' = [response EXCEPT !["rest"] = Tail(@)]
      /\ told' = (IF verdict = "none" THEN told ELSE told \cup {<<a.request, verdict>>})
      /\ UNCHANGED <<ready, request, version, exchange, hist, drops>>
  BY DEF RestAck, Links
<1>2. response["rest"] \in Seq(HttpAnswer)  BY <1>1 DEF ActionsInv, Queues, AnswersOn
<1>3. a \in HttpAnswer  BY <1>1, <1>2, HeadTailProperties
<1> HIDE DEF a
<1>4. a.result \in Refused \cup {"ok", "network", "unreadable"} /\ About("rest", a) = a.request
  BY <1>3 DEF HttpAnswer, Refused, About
<1>5. CASE a.result = "ok"
  <2>1. verdict = "none"  BY <1>5 DEF Verdict
  <2>2. told' = told  BY <1>1, <2>1
  <2> QED BY <1>1, <1>5, <2>2 DEF Takes, a
<1>6. CASE a.result # "ok"
  <2>1. /\ verdict \in {"rejected", "failed"}
        /\ verdict = "rejected" /\ a.request[1] # "cancel_all" => a.result \in Refused
    BY <1>4, <1>6 DEF Verdict, Refused
  <2> HIDE DEF verdict
  <2>2. told' = told \cup {<<About("rest", a), verdict>>}  BY <1>1, <1>4, <2>1
  <2>3. verdict \in Verdicts /\ verdict # "accepted"  BY <2>1 DEF Verdicts
  <2> QED BY <1>1, <1>4, <2>1, <2>2, <2>3 DEF Takes, a
<1> QED BY <1>5, <1>6

LEMMA SocketAnswerTakes ==
  ASSUME ActionsInv, NEW c \in Sockets, SocketAnswer(c), UNCHANGED ws_api
  PROVE  Takes(c)
<1> DEFINE a    == Head(response[c])
           kind == IF a.topic = "error" THEN ParseId(a.id) ELSE a.topic
           r    == <<kind, a.id[2], a.id[3]>>
           v    == IF a.topic = "error" THEN "rejected" ELSE "accepted"
<1>1. /\ response[c] # <<>>
      /\ response' = [response EXCEPT ![c] = Tail(@)]
      /\ told' = (IF kind = "undefined" THEN told ELSE told \cup {<<r, v>>})
      /\ UNCHANGED <<ready, request, version, exchange, hist, drops>>
  BY DEF SocketAnswer
<1>2. c \in Links /\ c # "rest"  BY ActionsAssumption DEF Links
<1>3. response[c] \in Seq(TopicAnswer)  BY <1>2 DEF ActionsInv, Queues, AnswersOn
<1>4. a \in TopicAnswer  BY <1>1, <1>3, HeadTailProperties
<1> HIDE DEF a
<1>5. About(c, a) = r /\ r[1] = kind  BY <1>2 DEF About
<1>6. kind # "undefined"  BY <1>4, <1>5, IdsKnown
<1> HIDE DEF kind, r
<1>7. told' = told \cup {<<About(c, a), v>>}  BY <1>1, <1>5, <1>6
<1>8. v \in Verdicts /\ (v = "accepted" <=> a.topic # "error")  BY DEF Verdicts
<1> HIDE DEF v
<1>9. v = "rejected" => v # "accepted"  OBVIOUS
<1> QED BY <1>1, <1>2, <1>7, <1>8, <1>9 DEF Takes, a

-----------------------------------------------------------------------------
(* Preservation *)

LEMMA Updated ==
  ASSUME NEW f, NEW g, NEW l \in Links, NEW e,
         f = [k \in Links |-> f[k]], g = [f EXCEPT ![l] = e]
  PROVE  /\ g = [k \in Links |-> g[k]]
         /\ g[l] = e /\ \A k \in Links \ {l} : g[k] = f[k]
<1>1. DOMAIN f = Links  OBVIOUS
<1> QED BY <1>1

LEMMA QueuedAreRequests ==
  ASSUME NEW q, \A l \in Links : q[l] \in Seq(AskedOn(l))
  PROVE  \A l \in Links : q[l] \in Seq(Requests) /\ \A i \in DOMAIN q[l] : q[l][i] \in Requests
<1>1. SUFFICES ASSUME NEW l \in Links
               PROVE  q[l] \in Seq(Requests) /\ \A i \in DOMAIN q[l] : q[l][i] \in Requests
  OBVIOUS
<1>2. AskedOn(l) \subseteq Requests /\ q[l] \in Seq(AskedOn(l))  BY AskedIsRequest
<1>3. q[l] \in Seq(Requests)  BY <1>2
<1> QED BY <1>3, LenProperties, ElementOfSeq

LEMMA Firsts ==
  ASSUME NEW T, NEW x, NEW v
  PROVE  {t[1] : t \in T \cup {<<x, v>>}} = {t[1] : t \in T} \cup {x}
<1> DEFINE e == <<x, v>>
<1>1. e[1] = x  OBVIOUS
<1> HIDE DEF e
<1>2. {t[1] : t \in T \cup {e}} = {t[1] : t \in T} \cup {x}  BY <1>1
<1> QED BY <1>2 DEF e

\* Where a request is known, it took that link and no other.
LEMMA OnOneLink ==
  ASSUME ActionsInv, NEW l \in Links, NEW k \in Links, NEW r,
         r \in Items(request[l]) \cup Abouts(l, response[l]),
         r \in Items(request[k]) \cup Abouts(k, response[k])
  PROVE  k = l
<1>1. <<r, l>> \in sent /\ <<r, k>> \in sent  BY DEF ActionsInv, Placed
<1>2. \A s, t \in sent : s[1] = t[1] => s = t  BY DEF ActionsInv, Placed
<1>3. <<r, l>> = <<r, k>>  BY <1>1, <1>2
<1> QED BY <1>3

LEMMA MakesKeeps ==
  ASSUME ActionsInv, NEW r \in Requests, NEW l \in Links, Makes(r, l)
  PROVE  ActionsInv'
<1>1. /\ l \in Routes(r) /\ r \in AskedOn(l) /\ r \notin Sent
      /\ request' = [request EXCEPT ![l] = Append(request[l], r)]
      /\ sent' = sent \cup {<<r, l>>}
      /\ ws_api' = ws_api /\ ready' = ready /\ response' = response /\ told' = told
      /\ book' = book /\ applied' = applied /\ handled' = handled
      /\ orphans' = orphans /\ drops' = drops
  BY DEF Makes, exchange
<1>2. TypeOK /\ Queues /\ Placed /\ Truthful /\ Found  BY DEF ActionsInv
<1>3. /\ request' = [k \in Links |-> request'[k]]
      /\ request'[l] = Append(request[l], r)
      /\ \A k \in Links \ {l} : request'[k] = request[k]
  BY <1>1, <1>2, Updated DEF Queues
<1>4. Answered' = Answered /\ Sent' = Sent \cup {r}
  <2>1. Sent' = {s[1] : s \in sent \cup {<<r, l>>}}  BY <1>1 DEF Sent
  <2> QED BY <1>1, <2>1, Firsts DEF Answered, Sent
<1>5. /\ \A k \in Links : r \notin Items(request[k]) /\ r \notin Abouts(k, response[k])
      /\ r \notin Answered /\ r \notin applied
  <2>1. \A k \in Links : <<r, k>> \notin sent  BY <1>1 DEF Sent
  <2> QED BY <1>1, <1>2, <2>1 DEF Placed, Truthful
<1>6. request[l] \in Seq(AskedOn(l)) /\ request[l] \in Seq(Requests)
  BY <1>2, QueuedAreRequests DEF Queues
<1>7. request'[l] \in Seq(AskedOn(l)) /\ Items(request'[l]) = Items(request[l]) \cup {r}
  BY <1>1, <1>3, <1>6, Appended
<1>8. Queues'  BY <1>1, <1>2, <1>3, <1>7 DEF Queues
<1>9. TypeOK'
  <2>1. \A k \in Links : \A i \in DOMAIN request'[k] : request'[k][i] \in Requests
    BY <1>8, QueuedAreRequests DEF Queues
  <2>2. sent' \subseteq Requests \X Links  BY <1>1, <1>2 DEF TypeOK
  <2>3. before' \in [1 .. MaxCancelAll -> SUBSET Orders]
    <3>1. before \in [1 .. MaxCancelAll -> SUBSET Orders]  BY <1>2 DEF TypeOK
    <3>2. CASE before' = before  BY <3>1, <3>2
    <3>3. CASE before' = [before EXCEPT ![r[3]] = {o \in Orders : version[o] > 0}]
      BY <3>1, <3>3
    <3> QED BY <3>2, <3>3 DEF Makes
  <2>4. version' \in [Orders -> 0 .. MaxVersion]  BY DEF Makes
  <2> QED BY <1>1, <1>2, <2>1, <2>2, <2>3, <2>4 DEF TypeOK
<1>10. Placed'
  <2>1. \A k \in Links : OneLink(k, request'[k], response'[k], Answered')
    <3>1. SUFFICES ASSUME NEW k \in Links PROVE OneLink(k, request'[k], response[k], Answered)
      BY <1>1, <1>4
    <3>2. OneLink(k, request[k], response[k], Answered) /\ response[k] \in Seq(AnswersOn(k))
      BY <1>2 DEF Placed, Queues
    <3>3. OneLink(l, request[l], response[l], Answered) /\ response[l] \in Seq(AnswersOn(l))
      BY <1>2 DEF Placed, Queues
    <3>4. r \notin Items(request[l]) /\ r \notin Abouts(l, response[l]) /\ r \notin Answered
      BY <1>5
    <3>5. OneLink(l, Append(request[l], r), response[l], Answered)
      BY <1>6, <3>3, <3>4, LinkSend
    <3> QED BY <1>3, <3>2, <3>5
  <2>2. \A k \in Links : \A q \in Items(request'[k]) \cup Abouts(k, response'[k]) : <<q, k>> \in sent'
    <3>1. SUFFICES ASSUME NEW k \in Links, NEW q \in Items(request'[k]) \cup Abouts(k, response[k])
                   PROVE  <<q, k>> \in sent'
      BY <1>1
    <3>2. CASE q \in Items(request[k]) \cup Abouts(k, response[k])
      BY <1>1, <1>2, <3>2 DEF Placed
    <3>3. CASE q \notin Items(request[k]) \cup Abouts(k, response[k])
      <4>1. k = l /\ q = r  BY <1>3, <1>7, <3>3
      <4> QED BY <1>1, <4>1
    <3> QED BY <3>2, <3>3
  <2>3. Answered' \subseteq Sent'  BY <1>2, <1>4 DEF Placed
  <2>4. \A s, t \in sent' : s[1] = t[1] => s = t
    <3>1. \A s \in sent : s[1] # r  BY <1>1 DEF Sent
    <3>2. <<r, l>>[1] = r  OBVIOUS
    <3> QED BY <1>1, <1>2, <3>1, <3>2 DEF Placed
  <2>5. \A s, t \in told' : s[1] = t[1] => s = t  BY <1>1, <1>2 DEF Placed
  <2>6. ASSUME NEW s \in sent'
        PROVE  s[2] \in Routes(s[1])' /\ (s[1][2] \in Orders => s[1][3] <= version'[s[1][2]])
    <3>1. CASE s \in sent
      <4>1. s[2] \in Routes(s[1]) /\ (s[1][2] \in Orders => s[1][3] <= version[s[1][2]])
        BY <1>2, <3>1 DEF Placed
      <4>2. s[1] \in Requests  BY <1>2, <3>1 DEF TypeOK
      <4>3. s[1][2] \in Orders => s[1][3] \in Nat
        <5>1. s[1] \in OfOrder => s[1][3] \in Nat  BY Shape
        <5>2. s[1] \notin OfOrder => s[1][2] \notin Orders  BY <4>2, ShapeAll, ActionsAssumption
        <5> QED BY <5>1, <5>2
      <4>4. \A o \in Orders : version[o] \in Nat /\ version'[o] \in Nat /\ version[o] <= version'[o]
        BY <1>2, <1>9 DEF TypeOK, Makes
      <4>5. s[1][2] \in Orders => s[1][3] <= version'[s[1][2]]  BY <4>1, <4>3, <4>4
      <4>6. s[2] \in Routes(s[1])'  BY <1>1, <4>1 DEF Routes
      <4> QED BY <4>5, <4>6
    <3>2. CASE s = <<r, l>>
      <4>1. s[1] = r /\ s[2] = l  BY <3>2
      <4>2. l \in Routes(r)'  BY <1>1 DEF Routes
      <4>3. r[2] \in Orders => r[3] <= version'[r[2]]  BY DEF Makes
      <4> QED BY <1>1, <4>1, <4>2, <4>3 DEF Routes
    <3> QED BY <1>1, <3>1, <3>2
  <2> QED BY <2>1, <2>2, <2>3, <2>4, <2>5, <2>6 DEF Placed
<1>11. Truthful'
  <2>1. applied' \subseteq Sent'  BY <1>1, <1>2, <1>4 DEF Truthful
  <2>2. \A k \in Links : Items(request'[k]) \cap applied' = {}
    <3>1. SUFFICES ASSUME NEW k \in Links PROVE Items(request'[k]) \cap applied = {}
      BY <1>1
    <3>2. Items(request[k]) \cap applied = {}  BY <1>2 DEF Truthful
    <3>3. CASE k = l  BY <1>5, <1>7, <3>2, <3>3
    <3>4. CASE k # l  BY <1>3, <3>2, <3>4
    <3> QED BY <3>3, <3>4
  <2>3. \A k \in Links : \A a \in Items(response'[k]) : Says(k, a, applied')
    BY <1>1, <1>2 DEF Truthful
  <2>4. ToldTheTruth'  BY <1>1, <1>2 DEF Truthful, ToldTheTruth
  <2> QED BY <2>1, <2>2, <2>3, <2>4 DEF Truthful
<1>12. Found'
  <2>1. SUFFICES ASSUME NEW s \in sent'
                 PROVE  \/ s[1] \in Answered' \/ s[1] \in orphans'
                        \/ s[1] \in Items(request'[s[2]]) \/ s[1] \in Abouts(s[2], response'[s[2]])
                        \/ s[2] = "rest" /\ s[1] \in applied'
    BY DEF Found
  <2>2. CASE s \in sent
    <3>1. s[2] \in Links  BY <1>2, <2>2 DEF TypeOK
    <3>2. Items(request[s[2]]) \subseteq Items(request'[s[2]])  BY <1>3, <1>7, <3>1
    <3> QED BY <1>1, <1>2, <1>4, <2>2, <3>2 DEF Found
  <2>3. CASE s = <<r, l>>
    <3>1. s[1] = r /\ s[2] = l  BY <2>3
    <3> QED BY <1>7, <3>1
  <2> QED BY <1>1, <2>2, <2>3
<1> QED BY <1>8, <1>9, <1>10, <1>11, <1>12 DEF ActionsInv

LEMMA TakesKeeps ==
  ASSUME ActionsInv, NEW l \in Links, Takes(l)
  PROVE  ActionsInv'
<1> DEFINE a == Head(response[l])
           r == About(l, a)
<1>1. /\ response[l] # <<>> /\ response' = [response EXCEPT ![l] = Tail(response[l])]
      /\ ws_api' = ws_api /\ ready' = ready /\ request' = request /\ version' = version
      /\ book' = book /\ applied' = applied /\ handled' = handled
      /\ sent' = sent /\ before' = before /\ orphans' = orphans /\ drops' = drops
  BY DEF Takes, exchange, hist
<1>2. TypeOK /\ Queues /\ Placed /\ Truthful /\ Found  BY DEF ActionsInv
<1>3. /\ response' = [k \in Links |-> response'[k]]
      /\ response'[l] = Tail(response[l])
      /\ \A k \in Links \ {l} : response'[k] = response[k]
  BY <1>1, <1>2, Updated DEF Queues
<1>4. response[l] \in Seq(AnswersOn(l)) /\ request[l] \in Seq(Requests)
  BY <1>2, QueuedAreRequests DEF Queues
<1>5. /\ a \in AnswersOn(l) /\ Tail(response[l]) \in Seq(AnswersOn(l))
      /\ Items(response[l]) = Items(Tail(response[l])) \cup {a}
  BY <1>1, <1>4, Shortened
<1>6. Abouts(l, response[l]) = Abouts(l, response'[l]) \cup {r}  BY <1>1, <1>3, <1>4, <1>5, AboutsOf
<1>7. r \in Requests  BY <1>5, AboutRequest
<1>8. Says(l, a, applied)  BY <1>2, <1>5 DEF Truthful
<1>9. \/ l = "rest" /\ a.result = "ok" /\ told' = told
      \/ \E v \in Verdicts :
           /\ told' = told \cup {<<r, v>>}
           /\ v = "accepted" => l # "rest" /\ a.topic # "error"
           /\ v = "rejected" /\ r[1] # "cancel_all" =>
                IF l = "rest" THEN a.result \in Refused ELSE a.topic = "error"
  BY DEF Takes
<1> HIDE DEF a, r
<1>10. /\ r \in Abouts(l, response[l]) /\ <<r, l>> \in sent /\ r \in Sent /\ r \notin Answered
  <2>1. r \in Abouts(l, response[l])  BY <1>6
  <2>2. <<r, l>> \in sent  BY <1>2, <2>1 DEF Placed
  <2>3. <<r, l>>[1] = r  OBVIOUS
  <2>4. r \in Sent  BY <2>2, <2>3 DEF Sent
  <2>5. r \notin Answered  BY <1>2, <2>1 DEF Placed, OneLink
  <2> QED BY <2>1, <2>2, <2>4, <2>5
<1>11. \/ l = "rest" /\ a.result = "ok" /\ Answered' = Answered
       \/ Answered' = Answered \cup {r}
  <2>1. CASE told' = told  BY <1>9, <1>10, <2>1 DEF Answered
  <2>2. CASE \E v \in Verdicts : told' = told \cup {<<r, v>>}
    <3>1. PICK v \in Verdicts : told' = told \cup {<<r, v>>}  BY <2>2
    <3>2. Answered' = {t[1] : t \in told \cup {<<r, v>>}}  BY <3>1 DEF Answered
    <3> QED BY <3>2, Firsts DEF Answered
  <2> QED BY <1>9, <2>1, <2>2
<1>12. Queues'  BY <1>1, <1>2, <1>3, <1>5 DEF Queues
<1>13. TypeOK'
  <2>1. told' \subseteq Requests \X Verdicts  BY <1>2, <1>7, <1>9 DEF TypeOK
  <2> QED BY <1>1, <1>2, <2>1 DEF TypeOK
<1>14. Placed'
  <2>1. \A k \in Links : OneLink(k, request'[k], response'[k], Answered')
    <3>1. SUFFICES ASSUME NEW k \in Links PROVE OneLink(k, request[k], response'[k], Answered')
      BY <1>1
    <3>2. OneLink(k, request[k], response[k], Answered)  BY <1>2 DEF Placed
    <3>3. CASE k = l
      <4>1. OneLink(l, request[l], response[l], Answered)  BY <3>2, <3>3
      <4>2. Answered' \subseteq Answered \cup {About(l, Head(response[l]))}  BY <1>11 DEF r, a
      <4>3. OneLink(l, request[l], Tail(response[l]), Answered')
        BY <1>1, <1>4, <4>1, <4>2, LinkTold
      <4> QED BY <1>3, <3>3, <4>3
    <3>4. CASE k # l
      <4>1. r \notin Items(request[k]) \cup Abouts(k, response[k])  BY <1>10, <3>4, OnOneLink
      <4>2. OneLink(k, request[k], response[k], Answered')  BY <1>11, <3>2, <4>1 DEF OneLink
      <4> QED BY <1>3, <3>4, <4>2
    <3> QED BY <3>3, <3>4
  <2>2. \A k \in Links : \A q \in Items(request'[k]) \cup Abouts(k, response'[k]) : <<q, k>> \in sent'
    <3>1. \A k \in Links : Abouts(k, response'[k]) \subseteq Abouts(k, response[k])
      BY <1>3, <1>6
    <3> QED BY <1>1, <1>2, <3>1 DEF Placed
  <2>3. Sent' = Sent  BY <1>1 DEF Sent
  <2>4. Answered' \subseteq Sent'  BY <1>2, <1>10, <1>11, <2>3 DEF Placed
  <2>5. \A s, t \in told' : s[1] = t[1] => s = t
    <3>1. \A s \in told : s[1] # r  BY <1>10 DEF Answered
    <3>2. \A v : <<r, v>>[1] = r  OBVIOUS
    <3>3. \A s, t \in told : s[1] = t[1] => s = t  BY <1>2 DEF Placed
    <3>4. CASE told' = told  BY <3>3, <3>4
    <3>5. CASE \E v \in Verdicts : told' = told \cup {<<r, v>>}  BY <3>1, <3>2, <3>3, <3>5
    <3> QED BY <1>9, <3>4, <3>5
  <2>6. \A s \in sent' : /\ s[2] \in Routes(s[1])'
                         /\ s[1][2] \in Orders => s[1][3] <= version'[s[1][2]]
    BY <1>1, <1>2 DEF Placed, Routes
  <2>7. \A s, t \in sent' : s[1] = t[1] => s = t  BY <1>1, <1>2 DEF Placed
  <2> QED BY <2>1, <2>2, <2>4, <2>5, <2>6, <2>7 DEF Placed
<1>15. Truthful'
  <2>1. applied' \subseteq Sent'  BY <1>1, <1>2 DEF Truthful, Sent
  <2>2. \A k \in Links : Items(request'[k]) \cap applied' = {}  BY <1>1, <1>2 DEF Truthful
  <2>3. \A k \in Links : \A x \in Items(response'[k]) : Says(k, x, applied')
    <3>1. \A k \in Links : Items(response'[k]) \subseteq Items(response[k])  BY <1>3, <1>5
    <3> QED BY <1>1, <1>2, <3>1 DEF Truthful
  <2>4. ToldTheTruth'
    <3>1. SUFFICES ASSUME ~LateServer, NEW t \in told'
                   PROVE  /\ t[2] = "accepted" => t[1] \in applied
                          /\ t[2] = "rejected" /\ t[1][1] # "cancel_all" => t[1] \notin applied
      BY <1>1 DEF ToldTheTruth
    <3>2. CASE t \in told  BY <1>2, <3>1, <3>2 DEF Truthful, ToldTheTruth
    <3>3. CASE t \notin told
      <4>1. PICK v \in Verdicts :
              /\ told' = told \cup {<<r, v>>}
              /\ v = "accepted" => l # "rest" /\ a.topic # "error"
              /\ v = "rejected" /\ r[1] # "cancel_all" =>
                   IF l = "rest" THEN a.result \in Refused ELSE a.topic = "error"
        BY <1>9, <3>3
      <4>2. t[1] = r /\ t[2] = v  BY <3>3, <4>1
      <4>3. l # "rest" => (a.topic # "error" <=> r \in applied)  BY <1>8 DEF Says, r
      <4>4. l = "rest" /\ a.result \in Refused => r \notin applied  BY <1>8, <3>1 DEF Says, r
      <4> QED BY <4>1, <4>2, <4>3, <4>4
    <3> QED BY <3>2, <3>3
  <2> QED BY <2>1, <2>2, <2>3, <2>4 DEF Truthful
<1>16. Found'
  <2>1. SUFFICES ASSUME NEW s \in sent
                 PROVE  \/ s[1] \in Answered' \/ s[1] \in orphans
                        \/ s[1] \in Items(request[s[2]]) \/ s[1] \in Abouts(s[2], response'[s[2]])
                        \/ s[2] = "rest" /\ s[1] \in applied
    BY <1>1 DEF Found
  <2>2. \/ s[1] \in Answered \/ s[1] \in orphans
        \/ s[1] \in Items(request[s[2]]) \/ s[1] \in Abouts(s[2], response[s[2]])
        \/ s[2] = "rest" /\ s[1] \in applied
    BY <1>2 DEF Found
  <2>3. Answered \subseteq Answered'  BY <1>11
  <2>4. CASE s[2] = l /\ s[1] = r
    <3>1. CASE Answered' = Answered \cup {r}  BY <2>4, <3>1
    <3>2. CASE l = "rest" /\ a.result = "ok"
      <4>1. r \in applied  BY <1>8, <3>2 DEF Says, r
      <4> QED BY <2>4, <3>2, <4>1
    <3> QED BY <1>11, <3>1, <3>2
  <2>5. CASE ~(s[2] = l /\ s[1] = r)
    <3>1. s[2] \in Links  BY <1>2 DEF TypeOK
    <3>2. s[1] \in Abouts(s[2], response[s[2]]) => s[1] \in Abouts(s[2], response'[s[2]])
      BY <1>3, <1>6, <2>5, <3>1
    <3> QED BY <2>2, <2>3, <3>2
  <2> QED BY <2>4, <2>5
<1> QED BY <1>12, <1>13, <1>14, <1>15, <1>16 DEF ActionsInv

LEMMA ExecutedType ==
  ASSUME TypeOK, NEW r \in Requests
  PROVE  Executed(r) \in [Orders -> {"none", "live", "dead"}]
<1>1. book \in [Orders -> {"none", "live", "dead"}]  BY DEF TypeOK
<1>2. r[1] \in {"create", "modify", "cancel", "cancel_all"}
  <2>1. CASE r \in OfOrder  BY <2>1, Shape DEF Kind
  <2>2. CASE r \notin OfOrder  BY <2>2, ShapeAll
  <2> QED BY <2>1, <2>2
<1>3. CASE r[1] = "create"  BY <1>1, <1>3 DEF Executed
<1>4. CASE r[1] = "modify"  BY <1>1, <1>4 DEF Executed
<1>5. CASE r[1] = "cancel"  BY <1>1, <1>5 DEF Executed
<1>6. CASE r[1] = "cancel_all"  BY <1>1, <1>6 DEF Executed
<1> QED BY <1>2, <1>3, <1>4, <1>5, <1>6

LEMMA HandleKeeps ==
  ASSUME ActionsInv, NEW l \in Links, Handle(l), UNCHANGED ws_api
  PROVE  ActionsInv'
<1> DEFINE r == Head(request[l])
<1>0. PICK yes \in BOOLEAN : \E x \in Answers(l, r, yes) :
        /\ request[l] # <<>>
        /\ yes => CanExecute(r)
        /\ request' = [request EXCEPT ![l] = Tail(request[l])]
        /\ response' = [response EXCEPT ![l] = Append(response[l], x)]
        /\ book' = IF yes THEN Executed(r) ELSE book
        /\ applied' = IF yes THEN applied \cup {r} ELSE applied
        /\ handled' = [o \in Orders |-> IF r[2] = o THEN r[3] ELSE handled[o]]
  BY DEF Handle
<1>1. PICK x \in Answers(l, r, yes) :
        /\ request[l] # <<>>
        /\ yes => CanExecute(r)
        /\ request' = [request EXCEPT ![l] = Tail(request[l])]
        /\ response' = [response EXCEPT ![l] = Append(response[l], x)]
        /\ book' = IF yes THEN Executed(r) ELSE book
        /\ applied' = IF yes THEN applied \cup {r} ELSE applied
        /\ handled' = [o \in Orders |-> IF r[2] = o THEN r[3] ELSE handled[o]]
  BY <1>0
<1>2. /\ ws_api' = ws_api /\ ready' = ready /\ version' = version /\ told' = told
      /\ sent' = sent /\ before' = before /\ orphans' = orphans /\ drops' = drops
  BY DEF Handle, oms, hist
<1>3. TypeOK /\ Queues /\ Placed /\ Truthful /\ Found  BY DEF ActionsInv
<1>4. /\ request' = [k \in Links |-> request'[k]] /\ request'[l] = Tail(request[l])
      /\ \A k \in Links \ {l} : request'[k] = request[k]
  BY <1>1, <1>3, Updated DEF Queues
<1>5. /\ response' = [k \in Links |-> response'[k]] /\ response'[l] = Append(response[l], x)
      /\ \A k \in Links \ {l} : response'[k] = response[k]
  BY <1>1, <1>3, Updated DEF Queues
<1>6. request[l] \in Seq(AskedOn(l)) /\ request[l] \in Seq(Requests) /\ response[l] \in Seq(AnswersOn(l))
  BY <1>3, QueuedAreRequests DEF Queues
<1>7. /\ r \in AskedOn(l) /\ Tail(request[l]) \in Seq(AskedOn(l))
      /\ Items(request[l]) = Items(request'[l]) \cup {r}
  BY <1>1, <1>4, <1>6, Shortened
<1>8. r \in Requests  BY <1>7, AskedIsRequest
<1> HIDE DEF r
<1>9. /\ r \in Items(request[l]) /\ <<r, l>> \in sent /\ r \notin applied /\ r \notin Answered
      /\ \A k \in Links : r \notin Abouts(k, response[k])
  <2>1. r \in Items(request[l])  BY <1>7
  <2>2. <<r, l>> \in sent  BY <1>3, <2>1 DEF Placed
  <2>3. r \notin applied  BY <1>3, <2>1 DEF Truthful
  <2>4. r \notin Answered /\ r \notin Abouts(l, response[l])  BY <1>3, <2>1 DEF Placed, OneLink
  <2>5. \A k \in Links \ {l} : r \notin Abouts(k, response[k])  BY <2>1, OnOneLink
  <2> QED BY <2>1, <2>2, <2>3, <2>4, <2>5
<1>10. x \in AnswersOn(l) /\ About(l, x) = r /\ Says(l, x, applied')
  <2>1. CASE l = "rest"
    <3>1. /\ x \in HttpAnswer /\ About("rest", x) = r
          /\ x.result = "ok" => yes
          /\ ~LateServer /\ x.result \in {"code", "limit", "client", "server"} => ~yes
      BY <1>1, <1>8, <2>1, HttpSays
    <3>2. x.result = "ok" => r \in applied'  BY <1>1, <3>1
    <3>3. ~LateServer /\ x.result \in Refused => r \notin applied'  BY <1>1, <1>9, <3>1 DEF Refused
    <3> QED BY <2>1, <3>1, <3>2, <3>3 DEF AnswersOn, Says
  <2>2. CASE l # "rest"
    <3>1. l \in Sockets /\ r \in OfOrder  BY <1>7, <2>2 DEF Links, AskedOn
    <3>2. x \in TopicAnswer /\ About(l, x) = r /\ (yes <=> x.topic # "error")
      BY <1>1, <3>1, IdsName
    <3>3. x.topic # "error" <=> r \in applied'  BY <1>1, <1>9, <3>2
    <3> QED BY <2>2, <3>2, <3>3 DEF AnswersOn, Says
  <2> QED BY <2>1, <2>2
<1>11. /\ Append(response[l], x) \in Seq(AnswersOn(l))
       /\ Items(response'[l]) = Items(response[l]) \cup {x}
       /\ Abouts(l, response'[l]) = Abouts(l, response[l]) \cup {r}
  BY <1>5, <1>6, <1>10, Appended, AboutsOf
<1>12. Queues'  BY <1>3, <1>4, <1>5, <1>7, <1>11 DEF Queues
<1>13. applied \subseteq applied' /\ applied' \subseteq applied \cup {r}  BY <1>1
<1>14. TypeOK'
  <2>1. \A k \in Links : \A i \in DOMAIN request'[k] : request'[k][i] \in Requests
    BY <1>12, QueuedAreRequests DEF Queues
  <2>2. book' \in [Orders -> {"none", "live", "dead"}]
    BY <1>1, <1>3, <1>8, ExecutedType DEF TypeOK
  <2>3. handled' \in [Orders -> 0 .. MaxVersion]
    <3>1. ASSUME NEW o \in Orders, r[2] = o PROVE r[3] \in 0 .. MaxVersion
      <4>1. r \in OfOrder  BY <1>8, <3>1, ShapeAll, ActionsAssumption
      <4>2. r[3] \in 1 .. MaxVersion  BY <4>1, Shape
      <4> QED BY <4>2
    <3> QED BY <1>1, <1>3, <3>1 DEF TypeOK
  <2>4. applied' \subseteq Requests  BY <1>3, <1>8, <1>13 DEF TypeOK
  <2> QED BY <1>2, <1>3, <2>1, <2>2, <2>3, <2>4 DEF TypeOK
<1>15. Answered' = Answered /\ Sent' = Sent  BY <1>2 DEF Answered, Sent
<1>16. Placed'
  <2>1. \A k \in Links : OneLink(k, request'[k], response'[k], Answered')
    <3>1. SUFFICES ASSUME NEW k \in Links PROVE OneLink(k, request'[k], response'[k], Answered)
      BY <1>15
    <3>2. OneLink(l, Tail(request[l]), Append(response[l], x), Answered)
      <4>1. OneLink(l, request[l], response[l], Answered)  BY <1>3 DEF Placed
      <4>2. About(l, x) = Head(request[l])  BY <1>10 DEF r
      <4> QED BY <1>1, <1>6, <1>10, <4>1, <4>2, LinkHandle
    <3>3. CASE k = l  BY <1>4, <1>5, <3>2, <3>3
    <3>4. CASE k # l  BY <1>3, <1>4, <1>5, <3>4 DEF Placed
    <3> QED BY <3>3, <3>4
  <2>2. \A k \in Links : \A q \in Items(request'[k]) \cup Abouts(k, response'[k]) : <<q, k>> \in sent'
    <3>1. SUFFICES ASSUME NEW k \in Links, NEW q \in Items(request'[k]) \cup Abouts(k, response'[k])
                   PROVE  <<q, k>> \in sent
      BY <1>2
    <3>2. q \in Items(request[k]) \cup Abouts(k, response[k])  BY <1>4, <1>5, <1>7, <1>11
    <3> QED BY <1>3, <3>2 DEF Placed
  <2>3. Answered' \subseteq Sent'  BY <1>3, <1>15 DEF Placed
  <2>4. /\ \A s, t \in sent' : s[1] = t[1] => s = t
        /\ \A s, t \in told' : s[1] = t[1] => s = t
    BY <1>2, <1>3 DEF Placed
  <2>5. \A s \in sent' : /\ s[2] \in Routes(s[1])'
                         /\ s[1][2] \in Orders => s[1][3] <= version'[s[1][2]]
    BY <1>2, <1>3 DEF Placed, Routes
  <2> QED BY <2>1, <2>2, <2>3, <2>4, <2>5 DEF Placed
<1>17. Truthful'
  <2>1. applied' \subseteq Sent'
    <3>1. <<r, l>>[1] = r  OBVIOUS
    <3>2. r \in Sent  BY <1>9, <3>1 DEF Sent
    <3> QED BY <1>3, <1>13, <1>15, <3>2 DEF Truthful
  <2>2. \A k \in Links : Items(request'[k]) \cap applied' = {}
    <3>1. SUFFICES ASSUME NEW k \in Links PROVE Items(request'[k]) \cap (applied \cup {r}) = {}
      BY <1>13
    <3>2. Items(request[k]) \cap applied = {}  BY <1>3 DEF Truthful
    <3>3. CASE k = l
      <4>1. OneLink(l, request[l], response[l], Answered)  BY <1>3 DEF Placed
      <4>2. About(l, x) = Head(request[l])  BY <1>10 DEF r
      <4>3. r \notin Items(Tail(request[l]))  BY <1>1, <1>6, <1>10, <4>1, <4>2, LinkHandle
      <4> QED BY <1>4, <1>7, <3>2, <3>3, <4>3
    <3>4. CASE k # l
      <4>1. r \notin Items(request[k])  BY <1>9, <3>4, OnOneLink
      <4> QED BY <1>4, <3>2, <3>4, <4>1
    <3> QED BY <3>3, <3>4
  <2>3. \A k \in Links : \A y \in Items(response'[k]) : Says(k, y, applied')
    <3>1. SUFFICES ASSUME NEW k \in Links, NEW y \in Items(response'[k])
                   PROVE  Says(k, y, applied')
      OBVIOUS
    <3>2. CASE y \in Items(response[k])
      <4>1. About(k, y) \in Abouts(k, response[k])  BY <3>2 DEF Items, Abouts
      <4>2. About(k, y) # r  BY <1>9, <4>1
      <4>3. About(k, y) \in applied' <=> About(k, y) \in applied  BY <1>13, <4>2
      <4>4. Says(k, y, applied)  BY <1>3, <3>2 DEF Truthful
      <4> QED BY <4>3, <4>4 DEF Says
    <3>3. CASE y \notin Items(response[k])
      <4>1. k = l /\ y = x  BY <1>5, <1>11, <3>3
      <4> QED BY <1>10, <4>1
    <3> QED BY <3>2, <3>3
  <2>4. ToldTheTruth'
    <3>1. \A t \in told : t[1] # r  BY <1>9 DEF Answered
    <3> QED BY <1>2, <1>3, <1>13, <3>1 DEF Truthful, ToldTheTruth
  <2> QED BY <2>1, <2>2, <2>3, <2>4 DEF Truthful
<1>18. Found'
  <2>1. SUFFICES ASSUME NEW s \in sent
                 PROVE  \/ s[1] \in Answered \/ s[1] \in orphans
                        \/ s[1] \in Items(request'[s[2]]) \/ s[1] \in Abouts(s[2], response'[s[2]])
                        \/ s[2] = "rest" /\ s[1] \in applied'
    BY <1>2, <1>15 DEF Found
  <2>2. s[2] \in Links  BY <1>3 DEF TypeOK
  <2>3. Items(request[s[2]]) \cup Abouts(s[2], response[s[2]])
           \subseteq Items(request'[s[2]]) \cup Abouts(s[2], response'[s[2]])
    BY <1>4, <1>5, <1>7, <1>11, <2>2
  <2> QED BY <1>3, <1>13, <2>3 DEF Found
<1> QED BY <1>12, <1>14, <1>16, <1>17, <1>18 DEF ActionsInv

LEMMA SocketLostKeeps ==
  ASSUME ActionsInv, NEW c \in Sockets, SocketLost(c), UNCHANGED ws_api
  PROVE  ActionsInv'
<1>1. /\ ready' = ready \ {c} /\ drops' = drops + 1
      /\ request' = [request EXCEPT ![c] = <<>>]
      /\ response' = [response EXCEPT ![c] = <<>>]
      /\ orphans' = orphans \cup {s[1] : s \in {t \in sent : t[2] = c}}
      /\ ws_api' = ws_api /\ version' = version /\ told' = told
      /\ book' = book /\ applied' = applied /\ handled' = handled
      /\ sent' = sent /\ before' = before
  BY DEF SocketLost, oms, exchange
<1>2. TypeOK /\ Queues /\ Placed /\ Truthful /\ Found  BY DEF ActionsInv
<1>3. c \in Links  BY DEF Links
<1>4. /\ request' = [k \in Links |-> request'[k]] /\ request'[c] = <<>>
      /\ \A k \in Links \ {c} : request'[k] = request[k]
  BY <1>1, <1>2, <1>3, Updated DEF Queues
<1>5. /\ response' = [k \in Links |-> response'[k]] /\ response'[c] = <<>>
      /\ \A k \in Links \ {c} : response'[k] = response[k]
  BY <1>1, <1>2, <1>3, Updated DEF Queues
<1>6. Items(<<>>) = {} /\ Abouts(c, <<>>) = {} /\ DOMAIN <<>> = {}  BY EmptyQueue
<1>7. Queues'
  <2>1. <<>> \in Seq(AskedOn(c)) /\ <<>> \in Seq(AnswersOn(c))  OBVIOUS
  <2>2. request'[c] \in Seq(AskedOn(c)) /\ response'[c] \in Seq(AnswersOn(c))
    BY <1>4, <1>5, <2>1
  <2>3. \A k \in Links \ {c} : request'[k] \in Seq(AskedOn(k)) /\ response'[k] \in Seq(AnswersOn(k))
    BY <1>2, <1>4, <1>5 DEF Queues
  <2> QED BY <1>4, <1>5, <2>2, <2>3 DEF Queues
<1>8. Answered' = Answered /\ Sent' = Sent  BY <1>1 DEF Answered, Sent
<1>9. \A k \in Links : /\ Items(request'[k]) \subseteq Items(request[k])
                       /\ Items(response'[k]) \subseteq Items(response[k])
                       /\ Abouts(k, response'[k]) \subseteq Abouts(k, response[k])
  BY <1>4, <1>5, <1>6
<1>10. TypeOK'
  <2>1. \A k \in Links : \A i \in DOMAIN request'[k] : request'[k][i] \in Requests
    BY <1>7, QueuedAreRequests DEF Queues
  <2>2. orphans' \subseteq Requests
    <3>1. \A s \in sent : s[1] \in Requests  BY <1>2 DEF TypeOK
    <3> QED BY <1>1, <1>2, <3>1 DEF TypeOK
  <2> QED BY <1>1, <1>2, <2>1, <2>2 DEF TypeOK
<1>11. Placed'
  <2>1. \A k \in Links : OneLink(k, request'[k], response'[k], Answered')
    <3>1. OneLink(c, <<>>, <<>>, Answered)  BY <1>6 DEF OneLink
    <3> QED BY <1>2, <1>4, <1>5, <1>8, <3>1 DEF Placed
  <2>2. \A k \in Links : \A q \in Items(request'[k]) \cup Abouts(k, response'[k]) : <<q, k>> \in sent'
    BY <1>1, <1>2, <1>9 DEF Placed
  <2>3. \A s \in sent' : /\ s[2] \in Routes(s[1])'
                         /\ s[1][2] \in Orders => s[1][3] <= version'[s[1][2]]
    BY <1>1, <1>2 DEF Placed, Routes
  <2>4. /\ \A s, t \in sent' : s[1] = t[1] => s = t
        /\ \A s, t \in told' : s[1] = t[1] => s = t
        /\ Answered' \subseteq Sent'
    BY <1>1, <1>2, <1>8 DEF Placed
  <2> QED BY <2>1, <2>2, <2>3, <2>4 DEF Placed
<1>12. Truthful'
  <2>1. \A k \in Links : Items(request'[k]) \cap applied' = {}  BY <1>1, <1>2, <1>9 DEF Truthful
  <2>2. \A k \in Links : \A y \in Items(response'[k]) : Says(k, y, applied')
    BY <1>1, <1>2, <1>9 DEF Truthful
  <2>3. applied' \subseteq Sent' /\ ToldTheTruth'  BY <1>1, <1>2, <1>8 DEF Truthful, ToldTheTruth
  <2> QED BY <2>1, <2>2, <2>3 DEF Truthful
<1>13. Found'
  <2>1. SUFFICES ASSUME NEW s \in sent
                 PROVE  \/ s[1] \in Answered \/ s[1] \in orphans'
                        \/ s[1] \in Items(request'[s[2]]) \/ s[1] \in Abouts(s[2], response'[s[2]])
                        \/ s[2] = "rest" /\ s[1] \in applied
    BY <1>1, <1>8 DEF Found
  <2>2. s[2] \in Links  BY <1>2 DEF TypeOK
  <2>3. CASE s[2] = c  BY <1>1, <2>3
  <2>4. CASE s[2] # c  BY <1>1, <1>2, <1>4, <1>5, <2>2, <2>4 DEF Found
  <2> QED BY <2>3, <2>4
<1> QED BY <1>7, <1>10, <1>11, <1>12, <1>13 DEF ActionsInv

LEMMA RestLostKeeps ==
  ASSUME ActionsInv, RestLost, UNCHANGED ws_api
  PROVE  ActionsInv'
<1> DEFINE l == "rest"
           waiting == [i \in DOMAIN response["rest"] |-> response["rest"][i].request]
           open    == waiting \o request["rest"]
           failed  == [i \in DOMAIN open |-> [request |-> open[i], result |-> "network"]]
<1>1. /\ ready' = ready \ {l} /\ drops' = drops + 1
      /\ request' = [request EXCEPT ![l] = <<>>]
      /\ response' = [response EXCEPT ![l] = failed]
      /\ ws_api' = ws_api /\ version' = version /\ told' = told
      /\ book' = book /\ applied' = applied /\ handled' = handled
      /\ sent' = sent /\ before' = before /\ orphans' = orphans
  BY DEF RestLost, oms, exchange, hist
<1>2. TypeOK /\ Queues /\ Placed /\ Truthful /\ Found  BY DEF ActionsInv
<1>3. l \in Links  BY DEF Links
<1>4. /\ request[l] \in Seq(Requests) /\ response[l] \in Seq(HttpAnswer)
      /\ OneLink(l, request[l], response[l], Answered)
  BY <1>2, <1>3, QueuedAreRequests DEF Queues, Placed, AnswersOn
<1>5. /\ failed \in Seq(HttpAnswer)
      /\ Abouts(l, failed) = Abouts(l, response[l]) \cup Items(request[l])
      /\ OneLink(l, <<>>, failed, Answered)
      /\ \A x \in Items(failed) : x.result = "network"
  BY <1>4, LinkLost
<1> HIDE DEF failed
<1>6. /\ request' = [k \in Links |-> request'[k]] /\ request'[l] = <<>>
      /\ \A k \in Links \ {l} : request'[k] = request[k]
  BY <1>1, <1>2, <1>3, Updated DEF Queues
<1>7. /\ response' = [k \in Links |-> response'[k]] /\ response'[l] = failed
      /\ \A k \in Links \ {l} : response'[k] = response[k]
  BY <1>1, <1>2, <1>3, Updated DEF Queues
<1>8. Items(<<>>) = {}  BY EmptyQueue
<1>9. Queues'
  <2>1. failed \in Seq(AnswersOn(l)) /\ <<>> \in Seq(AskedOn(l))  BY <1>5 DEF AnswersOn
  <2> QED BY <1>2, <1>6, <1>7, <2>1 DEF Queues
<1>10. Answered' = Answered /\ Sent' = Sent  BY <1>1 DEF Answered, Sent
<1>11. TypeOK'
  <2>1. \A k \in Links : \A i \in DOMAIN request'[k] : request'[k][i] \in Requests
    BY <1>9, QueuedAreRequests DEF Queues
  <2> QED BY <1>1, <1>2, <2>1 DEF TypeOK
<1>12. Placed'
  <2>1. \A k \in Links : OneLink(k, request'[k], response'[k], Answered')
    BY <1>2, <1>5, <1>6, <1>7, <1>10 DEF Placed
  <2>2. \A k \in Links : \A q \in Items(request'[k]) \cup Abouts(k, response'[k]) : <<q, k>> \in sent'
    <3>1. \A k \in Links : Items(request'[k]) \cup Abouts(k, response'[k])
                             \subseteq Items(request[k]) \cup Abouts(k, response[k])
      BY <1>5, <1>6, <1>7, <1>8
    <3> QED BY <1>1, <1>2, <3>1 DEF Placed
  <2>3. \A s \in sent' : /\ s[2] \in Routes(s[1])'
                         /\ s[1][2] \in Orders => s[1][3] <= version'[s[1][2]]
    BY <1>1, <1>2 DEF Placed, Routes
  <2>4. /\ \A s, t \in sent' : s[1] = t[1] => s = t
        /\ \A s, t \in told' : s[1] = t[1] => s = t
        /\ Answered' \subseteq Sent'
    BY <1>1, <1>2, <1>10 DEF Placed
  <2> QED BY <2>1, <2>2, <2>3, <2>4 DEF Placed
<1>13. Truthful'
  <2>1. \A k \in Links : Items(request'[k]) \cap applied' = {}
    BY <1>1, <1>2, <1>6, <1>8 DEF Truthful
  <2>2. \A k \in Links : \A y \in Items(response'[k]) : Says(k, y, applied')
    <3>1. \A y \in Items(failed) : Says(l, y, applied)  BY <1>5 DEF Says, Refused
    <3> QED BY <1>1, <1>2, <1>7, <3>1 DEF Truthful
  <2>3. applied' \subseteq Sent' /\ ToldTheTruth'  BY <1>1, <1>2, <1>10 DEF Truthful, ToldTheTruth
  <2> QED BY <2>1, <2>2, <2>3 DEF Truthful
<1>14. Found'
  <2>1. SUFFICES ASSUME NEW s \in sent
                 PROVE  \/ s[1] \in Answered \/ s[1] \in orphans
                        \/ s[1] \in Items(request'[s[2]]) \/ s[1] \in Abouts(s[2], response'[s[2]])
                        \/ s[2] = "rest" /\ s[1] \in applied
    BY <1>1, <1>10 DEF Found
  <2>2. s[2] \in Links  BY <1>2 DEF TypeOK
  <2>3. CASE s[2] = l  BY <1>2, <1>5, <1>7, <2>3 DEF Found
  <2>4. CASE s[2] # l  BY <1>2, <1>6, <1>7, <2>2, <2>4 DEF Found
  <2> QED BY <2>3, <2>4
<1> QED BY <1>9, <1>11, <1>12, <1>13, <1>14 DEF ActionsInv

\* Steps in which no request moves.
LEMMA OthersKeep ==
  ASSUME ActionsInv, ready' \subseteq Links, book' \in [Orders -> {"none", "live", "dead"}],
         UNCHANGED <<ws_api, request, response, oms, applied, handled, hist, drops>>
  PROVE  ActionsInv'
<1>1. /\ ws_api' = ws_api /\ request' = request /\ response' = response
      /\ version' = version /\ told' = told /\ applied' = applied /\ handled' = handled
      /\ sent' = sent /\ before' = before /\ orphans' = orphans /\ drops' = drops
  BY DEF oms, hist
<1>2. TypeOK /\ Queues /\ Placed /\ Truthful /\ Found  BY DEF ActionsInv
<1>3. Answered' = Answered /\ Sent' = Sent  BY <1>1 DEF Answered, Sent
<1>4. TypeOK'  BY <1>1, <1>2 DEF TypeOK
<1>5. Queues'  BY <1>1, <1>2 DEF Queues
<1>6. Placed'  BY <1>1, <1>2, <1>3 DEF Placed, Routes
<1>7. Truthful'  BY <1>1, <1>2, <1>3 DEF Truthful, ToldTheTruth
<1>8. Found'  BY <1>1, <1>2, <1>3 DEF Found
<1> QED BY <1>4, <1>5, <1>6, <1>7, <1>8 DEF ActionsInv

LEMMA ActionsInit == Init => ActionsInv
<1> SUFFICES ASSUME Init PROVE ActionsInv  OBVIOUS
<1>1. Items(<<>>) = {} /\ DOMAIN <<>> = {} /\ \A l : Abouts(l, <<>>) = {}  BY EmptyQueue
<1>2. Answered = {} /\ Sent = {}  BY DEF Init, Answered, Sent
<1>3. MaxVersion \in Nat  BY ActionsAssumption
<1>4. TypeOK  BY <1>1, <1>3 DEF Init, TypeOK
<1>5. Queues  BY DEF Init, Queues
<1>6. Placed
  <2>1. \A l \in Links : OneLink(l, <<>>, <<>>, {})  BY <1>1 DEF OneLink
  <2> QED BY <1>1, <1>2, <2>1 DEF Init, Placed
<1>7. Truthful  BY <1>1, <1>2 DEF Init, Truthful, ToldTheTruth
<1>8. Found  BY DEF Init, Found
<1> QED BY <1>4, <1>5, <1>6, <1>7, <1>8 DEF ActionsInv

\* Every step is one of these.
LEMMA Steps ==
  ASSUME ActionsInv, [Next]_vars
  PROVE  \/ \E r \in Requests, l \in Links : Makes(r, l)
         \/ \E l \in Links : Takes(l)
         \/ \E l \in Links : Handle(l) /\ UNCHANGED ws_api
         \/ \E c \in Sockets : SocketLost(c) /\ UNCHANGED ws_api
         \/ RestLost /\ UNCHANGED ws_api
         \/ \E o \in Orders : Expire(o) /\ UNCHANGED ws_api
         \/ /\ ready' \subseteq Links /\ book' = book
            /\ UNCHANGED <<ws_api, request, response, oms, exchange, hist, drops>>
<1>1. CASE UNCHANGED vars
  <2>1. ready' = ready /\ UNCHANGED <<ws_api, request, response, oms, exchange, hist, drops>>
    BY <1>1 DEF vars
  <2>2. ready \subseteq Links /\ book' = book  BY <2>1 DEF ActionsInv, TypeOK, exchange
  <2> QED BY <2>1, <2>2
<1>2. CASE Next
  <2>1. UNCHANGED ws_api  BY <1>2 DEF Next
  <2>2. CASE Oms  BY <2>1, <2>2, OmsMakes
  <2>3. CASE RestAck
    <3>1. "rest" \in Links  BY DEF Links
    <3> QED BY <2>1, <2>3, <3>1, RestAckTakes
  <2>4. CASE RestLost  BY <2>1, <2>4
  <2>5. CASE \E c \in Sockets : SocketAnswer(c)
    <3>1. Sockets \subseteq Links  BY DEF Links
    <3> QED BY <2>1, <2>5, <3>1, SocketAnswerTakes
  <2>6. CASE \E c \in Sockets : SocketLost(c)  BY <2>1, <2>6
  <2>7. CASE \E l \in Links : Connect(l)
    <3>1. PICK l \in Links : Connect(l)  BY <2>7
    <3>2. ready' = ready \cup {l} /\ UNCHANGED <<request, response, oms, exchange, hist, drops>>
      BY <3>1 DEF Connect
    <3>3. ready' \subseteq Links /\ book' = book  BY <3>2 DEF ActionsInv, TypeOK, exchange
    <3> QED BY <2>1, <3>2, <3>3
  <2>8. CASE \E l \in Links : Handle(l)  BY <2>1, <2>8
  <2>9. CASE \E o \in Orders : Expire(o)  BY <2>1, <2>9
  <2>10. Gateway \/ Oms \/ Exchange  BY <1>2 DEF Next
  <2> QED BY <2>2, <2>3, <2>4, <2>5, <2>6, <2>7, <2>8, <2>9, <2>10 DEF Gateway, Exchange
<1> QED BY <1>1, <1>2

LEMMA ActionsNext == ActionsInv /\ [Next]_vars => ActionsInv'
<1> SUFFICES ASSUME ActionsInv, [Next]_vars PROVE ActionsInv'  OBVIOUS
<1>1. CASE \E r \in Requests, l \in Links : Makes(r, l)  BY <1>1, MakesKeeps
<1>2. CASE \E l \in Links : Takes(l)  BY <1>2, TakesKeeps
<1>3. CASE \E l \in Links : Handle(l) /\ UNCHANGED ws_api  BY <1>3, HandleKeeps
<1>4. CASE \E c \in Sockets : SocketLost(c) /\ UNCHANGED ws_api  BY <1>4, SocketLostKeeps
<1>5. CASE RestLost /\ UNCHANGED ws_api  BY <1>5, RestLostKeeps
<1>6. CASE \E o \in Orders : Expire(o) /\ UNCHANGED ws_api
  <2>1. PICK o \in Orders : Expire(o) /\ UNCHANGED ws_api  BY <1>6
  <2>2. /\ ready' = ready /\ book' = [book EXCEPT ![o] = "dead"]
        /\ UNCHANGED <<ws_api, request, response, oms, applied, handled, hist, drops>>
    BY <2>1 DEF Expire
  <2>3. ready' \subseteq Links /\ book' \in [Orders -> {"none", "live", "dead"}]
    BY <2>2 DEF ActionsInv, TypeOK
  <2> QED BY <2>2, <2>3, OthersKeep
<1>7. CASE /\ ready' \subseteq Links /\ book' = book
           /\ UNCHANGED <<ws_api, request, response, oms, exchange, hist, drops>>
  <2>1. book' \in [Orders -> {"none", "live", "dead"}]  BY <1>7 DEF ActionsInv, TypeOK
  <2>2. UNCHANGED <<ws_api, request, response, oms, applied, handled, hist, drops>>
    BY <1>7 DEF exchange
  <2> QED BY <1>7, <2>1, <2>2, OthersKeep
<1> QED BY <1>1, <1>2, <1>3, <1>4, <1>5, <1>6, <1>7, Steps

LEMMA ActionsAlways == Spec => []ActionsInv
<1> QED BY ActionsInit, ActionsNext, PTL DEF Spec

-----------------------------------------------------------------------------
\* The types of the OMS, the links and the exchange.
THEOREM TypeCorrect == Spec => []TypeOK
<1>1. ActionsInv => TypeOK  BY DEF ActionsInv
<1> QED BY <1>1, ActionsAlways, PTL

\* Neither path answers a request twice, nor one that was not made.
THEOREM ToldOnceCorrect == Spec => []ToldOnce
<1>1. ActionsInv => ToldOnce  BY DEF ActionsInv, Placed, ToldOnce
<1> QED BY <1>1, ActionsAlways, PTL

\* What OrderEntry and DropCopy report is what the exchange did.
THEOREM ToldTruthCorrect == Spec => []ToldTheTruth
<1>1. ActionsInv => ToldTheTruth  BY DEF ActionsInv, Truthful
<1> QED BY <1>1, ActionsAlways, PTL

\* No request is lost in the gateway.
THEOREM AccountedCorrect == Spec => []Accounted
<1>1. ASSUME ActionsInv PROVE Accounted
  <2>1. SUFFICES ASSUME NEW s \in sent
                 PROVE  \/ s[1] \in Answered \cup Waiting \cup orphans
                        \/ s[2] = "rest" /\ s[1] \in applied
                        \/ s[2] # "rest" /\ OnSocket(s[1])
    BY DEF Accounted
  <2>2. TypeOK /\ Queues /\ Found  BY <1>1 DEF ActionsInv
  <2>3. s[2] \in Links  BY <2>2 DEF TypeOK
  <2>4. CASE s[1] \in Items(request[s[2]])  BY <2>3, <2>4 DEF Waiting, Items
  <2>5. CASE s[1] \in Abouts(s[2], response[s[2]])
    <3>1. CASE s[2] = "rest"
      <4>1. PICK i \in DOMAIN response["rest"] : About("rest", response["rest"][i]) = s[1]
        BY <2>5, <3>1 DEF Abouts
      <4>2. response["rest"][i].request = s[1]  BY <4>1 DEF About
      <4>3. s[1] \in {response["rest"][k].request : k \in DOMAIN response["rest"]}
        BY <4>1, <4>2
      <4>4. s[1] \in Waiting  BY <4>3 DEF Waiting
      <4> QED BY <4>4
    <3>2. CASE s[2] # "rest"
      <4>1. PICK i \in DOMAIN response[s[2]] : About(s[2], response[s[2]][i]) = s[1]
        BY <2>5 DEF Abouts
      <4>2. s[2] \in Sockets /\ response[s[2]] \in Seq(TopicAnswer)
        BY <2>2, <2>3, <3>2 DEF Links, Queues, AnswersOn
      <4>3. response[s[2]][i] \in TopicAnswer  BY <4>1, <4>2, LenProperties, ElementOfSeq
      <4>4. Encoded(s[1]).id = response[s[2]][i].id  BY <4>1, <4>2, <4>3, IdsKnown
      <4> QED BY <3>2, <4>1, <4>2, <4>4 DEF OnSocket
    <3> QED BY <3>1, <3>2
  <2>6. CASE s[1] \in Answered \/ s[1] \in orphans \/ (s[2] = "rest" /\ s[1] \in applied)
    BY <2>6
  <2> QED BY <2>2, <2>4, <2>5, <2>6 DEF Found
<1> QED BY <1>1, ActionsAlways, PTL

-----------------------------------------------------------------------------
(* The order of the requests for one order *)

\* One web socket carries what does not go by REST.
OneSocket == \A s, t \in sent : s[2] # "rest" /\ t[2] # "rest" => s[2] = t[2]

\* The versions of order o rise along q, from above h.
Rising(q, o, h) ==
  /\ \A i \in DOMAIN q : q[i][2] = o => q[i][3] > h
  /\ \A i, j \in DOMAIN q : i < j /\ q[i][2] = o /\ q[j][2] = o => q[i][3] < q[j][3]

Ordered ==
  /\ \A o \in Orders : handled[o] <= version[o]
  /\ drops = 0 /\ OneSocket =>
       \A o \in Orders : \A l \in Links : Rising(request[l], o, handled[o])

LEMMA VersionType ==
  ASSUME NEW r \in Requests, NEW o \in Orders, r[2] = o
  PROVE  r[3] \in Nat /\ r \in OfOrder /\ r[1] # "cancel_all"
<1>1. r \in OfOrder  BY ShapeAll, ActionsAssumption
<1> QED BY <1>1, Shape

LEMMA RisingAppend ==
  ASSUME NEW q \in Seq(Requests), NEW o \in Orders, NEW h, NEW r \in Requests, Rising(q, o, h),
         r[2] = o => r[3] > h /\ \A i \in DOMAIN q : q[i][2] = o => q[i][3] < r[3]
  PROVE  Rising(Append(q, r), o, h)
<1> DEFINE b == Append(q, r)
<1>1. /\ Len(q) \in Nat /\ DOMAIN q = 1 .. Len(q) /\ DOMAIN b = 1 .. Len(q) + 1
      /\ \A i \in 1 .. Len(q) : b[i] = q[i]
      /\ b[Len(q) + 1] = r
  BY Appended
<1> HIDE DEF b
<1>2. ASSUME NEW i \in DOMAIN b, b[i][2] = o PROVE b[i][3] > h
  <2>1. CASE i = Len(q) + 1  BY <1>1, <1>2, <2>1
  <2>2. CASE i # Len(q) + 1
    <3>1. i \in DOMAIN q /\ b[i] = q[i]  BY <1>1, <2>2
    <3> QED BY <1>2, <3>1 DEF Rising
  <2> QED BY <2>1, <2>2
<1>3. ASSUME NEW i \in DOMAIN b, NEW j \in DOMAIN b, i < j, b[i][2] = o, b[j][2] = o
      PROVE  b[i][3] < b[j][3]
  <2>1. i \in DOMAIN q /\ b[i] = q[i]  BY <1>1, <1>3
  <2>2. CASE j = Len(q) + 1  BY <1>1, <1>3, <2>1, <2>2
  <2>3. CASE j # Len(q) + 1
    <3>1. j \in DOMAIN q /\ b[j] = q[j]  BY <1>1, <2>3
    <3> QED BY <1>3, <2>1, <3>1 DEF Rising
  <2> QED BY <2>2, <2>3
<1> QED BY <1>2, <1>3 DEF Rising, b

LEMMA RisingTail ==
  ASSUME NEW q \in Seq(Requests), q # <<>>, NEW o \in Orders, NEW h, Rising(q, o, h)
  PROVE  Rising(Tail(q), o, IF Head(q)[2] = o THEN Head(q)[3] ELSE h)
<1> DEFINE b == Tail(q)
<1>1. /\ Len(q) \in Nat /\ Len(q) >= 1 /\ DOMAIN q = 1 .. Len(q) /\ DOMAIN b = 1 .. Len(q) - 1
      /\ \A i \in 1 .. Len(q) - 1 : b[i] = q[i + 1]
      /\ Head(q) = q[1]
  BY Shortened
<1> HIDE DEF b
<1>2. \A i \in DOMAIN b : i + 1 \in DOMAIN q /\ 1 < i + 1 /\ b[i] = q[i + 1]  BY <1>1
<1>3. 1 \in DOMAIN q  BY <1>1
<1>4. ASSUME NEW i \in DOMAIN b, b[i][2] = o
      PROVE  b[i][3] > (IF Head(q)[2] = o THEN Head(q)[3] ELSE h)
  <2>1. CASE q[1][2] = o
    <3>1. q[1][3] < q[i + 1][3]  BY <1>2, <1>3, <1>4, <2>1 DEF Rising
    <3>2. q[1] \in Requests /\ q[i + 1] \in Requests  BY <1>1, <1>2, <1>3, ElementOfSeq
    <3>3. q[1][3] \in Nat /\ q[i + 1][3] \in Nat  BY <1>2, <1>4, <2>1, <3>2, VersionType
    <3> QED BY <1>1, <1>2, <2>1, <3>1, <3>3
  <2>2. CASE q[1][2] # o
    <3>1. q[i + 1][3] > h  BY <1>2, <1>4 DEF Rising
    <3> QED BY <1>1, <1>2, <2>2, <3>1
  <2> QED BY <2>1, <2>2
<1>5. ASSUME NEW i \in DOMAIN b, NEW j \in DOMAIN b, i < j, b[i][2] = o, b[j][2] = o
      PROVE  b[i][3] < b[j][3]
  <2>1. i + 1 < j + 1  BY <1>1, <1>5
  <2> QED BY <1>2, <1>5, <2>1 DEF Rising
<1> QED BY <1>4, <1>5 DEF Rising, b

LEMMA OrderedMakes ==
  ASSUME ActionsInv, Ordered, NEW r \in Requests, NEW l \in Links, Makes(r, l)
  PROVE  Ordered'
<1>1. /\ request' = [request EXCEPT ![l] = Append(request[l], r)]
      /\ sent' = sent \cup {<<r, l>>}
      /\ drops' = drops /\ handled' = handled
      /\ \A o \in Orders : version[o] <= version'[o]
      /\ r[2] \in Orders => version[r[2]] < r[3] /\ r[3] <= version'[r[2]]
      /\ version' \in [Orders -> 0 .. MaxVersion]
  BY DEF Makes, exchange
<1>2. TypeOK /\ Queues /\ Placed  BY DEF ActionsInv
<1>3. \A o \in Orders : handled[o] \in Nat /\ version[o] \in Nat /\ version'[o] \in Nat
  BY <1>1, <1>2 DEF TypeOK
<1>4. \A o \in Orders : handled'[o] <= version'[o]  BY <1>1, <1>3 DEF Ordered
<1>5. ASSUME drops' = 0, OneSocket', NEW o \in Orders, NEW k \in Links
      PROVE  Rising(request'[k], o, handled'[o])
  <2>1. OneSocket  BY <1>1, <1>5 DEF OneSocket
  <2>2. Rising(request[k], o, handled[o])  BY <1>1, <1>5, <2>1 DEF Ordered
  <2>3. CASE k # l  BY <1>1, <1>2, <2>2, <2>3 DEF Queues
  <2>4. CASE k = l
    <3>1. request'[l] = Append(request[l], r)  BY <1>1, <1>2, Updated DEF Queues
    <3>2. request[l] \in Seq(Requests) /\ \A i \in DOMAIN request[l] : request[l][i] \in Requests
      BY <1>2, QueuedAreRequests DEF Queues
    <3>3. ASSUME r[2] = o PROVE r[3] > handled[o]
      <4>1. r[3] \in Nat  BY <3>3, VersionType
      <4> QED BY <1>1, <1>3, <3>3, <4>1 DEF Ordered
    <3>4. ASSUME r[2] = o, NEW i \in DOMAIN request[l], request[l][i][2] = o
          PROVE  request[l][i][3] < r[3]
      <4> DEFINE s == <<request[l][i], l>>
      <4>1. s \in sent  BY <1>2 DEF Placed, Items
      <4>2. s[1] = request[l][i]  OBVIOUS
      <4>3. request[l][i][3] <= version[o]  BY <1>2, <3>4, <4>1, <4>2 DEF Placed
      <4>4. request[l][i][3] \in Nat /\ r[3] \in Nat  BY <3>2, <3>4, VersionType
      <4> QED BY <1>1, <1>3, <3>4, <4>3, <4>4
    <3>5. Rising(Append(request[l], r), o, handled[o])
      BY <2>2, <2>4, <3>2, <3>3, <3>4, RisingAppend
    <3> QED BY <1>1, <2>4, <3>1, <3>5
  <2> QED BY <2>3, <2>4
<1> QED BY <1>4, <1>5 DEF Ordered

\* Where one request for an order waits, no other link holds one.
LEMMA OneLinkPerOrder ==
  ASSUME ActionsInv, OneSocket, NEW o \in Orders, NEW k \in Links, NEW l \in Links,
         NEW i \in DOMAIN request[k], request[k][i][2] = o,
         NEW j \in DOMAIN request[l], request[l][j][2] = o
  PROVE  k = l
<1> DEFINE s == <<request[k][i], k>>
           t == <<request[l][j], l>>
<1>1. TypeOK /\ Queues /\ Placed  BY DEF ActionsInv
<1>2. s \in sent /\ t \in sent  BY <1>1 DEF Placed, Items
<1>3. s[1] = request[k][i] /\ s[2] = k /\ t[1] = request[l][j] /\ t[2] = l  OBVIOUS
<1>4. request[k][i] \in Requests /\ request[l][j] \in Requests
  BY <1>1, QueuedAreRequests DEF Queues
<1>5. request[k][i][1] # "cancel_all" /\ request[l][j][1] # "cancel_all"  BY <1>4, VersionType
<1>6. k \in Routes(request[k][i]) /\ l \in Routes(request[l][j])  BY <1>1, <1>2, <1>3 DEF Placed
<1>7. CASE ws_api
  <2>1. k # "rest" /\ l # "rest"  BY <1>5, <1>6, <1>7, ActionsAssumption DEF Routes
  <2> QED BY <1>2, <1>3, <2>1 DEF OneSocket
<1>8. CASE ~ws_api  BY <1>5, <1>6, <1>8 DEF Routes
<1> QED BY <1>7, <1>8

LEMMA OrderedHandle ==
  ASSUME ActionsInv, Ordered, NEW l \in Links, Handle(l), UNCHANGED ws_api
  PROVE  Ordered'
<1> DEFINE r == Head(request[l])
<1>1. /\ request[l] # <<>> /\ request' = [request EXCEPT ![l] = Tail(request[l])]
      /\ handled' = [o \in Orders |-> IF r[2] = o THEN r[3] ELSE handled[o]]
      /\ version' = version /\ sent' = sent /\ drops' = drops
  BY DEF Handle, oms, hist
<1>2. TypeOK /\ Queues /\ Placed  BY DEF ActionsInv
<1>3. request[l] \in Seq(Requests)  BY <1>2, QueuedAreRequests DEF Queues
<1>4. 1 \in DOMAIN request[l] /\ r = request[l][1] /\ r \in Requests
  <2>1. /\ Head(request[l]) = request[l][1] /\ Head(request[l]) \in Requests
        /\ Len(request[l]) \in Nat /\ Len(request[l]) >= 1
        /\ DOMAIN request[l] = 1 .. Len(request[l])
    BY <1>1, <1>3, Shortened
  <2> QED BY <2>1
<1> HIDE DEF r
<1>5. \A o \in Orders : handled'[o] <= version'[o]
  <2>1. SUFFICES ASSUME NEW o \in Orders PROVE handled'[o] <= version[o]  BY <1>1
  <2>2. CASE r[2] = o
    <3> DEFINE s == <<r, l>>
    <3>1. s \in sent  BY <1>2, <1>4 DEF Placed, Items
    <3>2. s[1] = r  OBVIOUS
    <3> QED BY <1>1, <1>2, <2>2, <3>1, <3>2 DEF Placed
  <2>3. CASE r[2] # o  BY <1>1, <2>3 DEF Ordered
  <2> QED BY <2>2, <2>3
<1>6. ASSUME drops' = 0, OneSocket', NEW o \in Orders, NEW k \in Links
      PROVE  Rising(request'[k], o, handled'[o])
  <2>1. OneSocket  BY <1>1, <1>6 DEF OneSocket
  <2>2. Rising(request[k], o, handled[o])  BY <1>1, <1>6, <2>1 DEF Ordered
  <2>3. handled'[o] = (IF r[2] = o THEN r[3] ELSE handled[o])  BY <1>1
  <2>4. CASE k = l
    <3>1. request'[l] = Tail(request[l])  BY <1>1, <1>2, Updated DEF Queues
    <3>2. Rising(Tail(request[l]), o, IF Head(request[l])[2] = o THEN Head(request[l])[3] ELSE handled[o])
      BY <1>1, <1>3, <2>2, <2>4, RisingTail
    <3> QED BY <2>3, <2>4, <3>1, <3>2 DEF r
  <2>5. CASE k # l
    <3>1. request'[k] = request[k]  BY <1>1, <1>2, <2>5, Updated DEF Queues
    <3>2. CASE r[2] # o  BY <2>2, <2>3, <3>1, <3>2
    <3>3. CASE r[2] = o
      <4>1. \A i \in DOMAIN request[k] : request[k][i][2] # o
        BY <1>4, <2>1, <2>5, <3>3, OneLinkPerOrder
      <4> QED BY <3>1, <4>1 DEF Rising
    <3> QED BY <3>2, <3>3
  <2> QED BY <2>4, <2>5
<1> QED BY <1>5, <1>6 DEF Ordered

LEMMA OrderedNext == ActionsInv /\ Ordered /\ [Next]_vars => Ordered'
<1> SUFFICES ASSUME ActionsInv, Ordered, [Next]_vars PROVE Ordered'  OBVIOUS
<1>1. CASE \E r \in Requests, l \in Links : Makes(r, l)  BY <1>1, OrderedMakes
<1>2. CASE \E l \in Links : Handle(l) /\ UNCHANGED ws_api  BY <1>2, OrderedHandle
<1>3. ASSUME UNCHANGED <<handled, version>>, drops' = drops + 1 PROVE Ordered'
  <2>1. drops' # 0  BY <1>3 DEF ActionsInv, TypeOK
  <2> QED BY <1>3, <2>1 DEF Ordered
<1>4. CASE \E c \in Sockets : SocketLost(c) /\ UNCHANGED ws_api
  BY <1>3, <1>4 DEF SocketLost, oms, exchange
<1>5. CASE RestLost /\ UNCHANGED ws_api  BY <1>3, <1>5 DEF RestLost, oms, exchange
<1>6. ASSUME UNCHANGED <<request, version, handled, sent, drops>> PROVE Ordered'
  BY <1>6 DEF Ordered, OneSocket
<1>7. CASE \E l \in Links : Takes(l)  BY <1>6, <1>7 DEF Takes, exchange, hist
<1>8. CASE \E o \in Orders : Expire(o) /\ UNCHANGED ws_api  BY <1>6, <1>8 DEF Expire, oms, hist
<1>9. CASE /\ ready' \subseteq Links /\ book' = book
           /\ UNCHANGED <<ws_api, request, response, oms, exchange, hist, drops>>
  BY <1>6, <1>9 DEF oms, exchange, hist
<1> QED BY <1>1, <1>2, <1>4, <1>5, <1>7, <1>8, <1>9, Steps

LEMMA OneSocketUsed ==
  ASSUME TypeOK, Cardinality({s[2] : s \in sent} \cap Sockets) <= 1
  PROVE  OneSocket
<1> DEFINE used == {s[2] : s \in sent} \cap Sockets
<1>1. SUFFICES ASSUME NEW s \in sent, NEW t \in sent, s[2] # "rest", t[2] # "rest" PROVE s[2] = t[2]
  BY DEF OneSocket
<1>2. s[2] \in used /\ t[2] \in used  BY <1>1 DEF TypeOK, Links
<1>3. IsFiniteSet(used) /\ used # {}
  <2>1. used \in SUBSET Sockets  OBVIOUS
  <2> HIDE DEF used
  <2> QED BY <1>2, <2>1, FS_Subset, ActionsAssumption
<1> HIDE DEF used
<1>4. Cardinality(used) \in Nat /\ Cardinality(used) # 0  BY <1>3, FS_CardinalityType, FS_EmptySet
<1>5. Cardinality(used) = 1  BY <1>4 DEF used
<1>6. PICK x : used = {x}  BY <1>3, <1>5, FS_Singleton
<1> QED BY <1>2, <1>6

\* The exchange looks at the requests for an order in the order they were made.
THEOREM InOrderCorrect == Spec => []InOrder
<1>1. Init => Ordered
  BY EmptyQueue DEF Init, Ordered, Rising
<1>2. ActionsInv /\ Ordered => InOrder
  BY OneSocketUsed DEF ActionsInv, Ordered, InOrder, Rising
<1> QED BY <1>1, <1>2, ActionsAlways, OrderedNext, PTL DEF Spec

-----------------------------------------------------------------------------
(* The reach of a cancel-all *)

CancelAll(n) == <<"cancel_all", "all", n>>
Creates(r, o) == r[1] = "create" /\ r[2] = o

\* Over REST the creation of an order is ahead of the cancel-all that was made
\* after it, and the order is not live once that cancel-all was executed.
Ahead ==
  drops = 0 /\ ~ws_api =>
    \A n \in 1 .. MaxCancelAll : \A o \in before[n] :
      /\ version[o] > 0
      /\ \A i, j \in DOMAIN request["rest"] :
           Creates(request["rest"][i], o) /\ request["rest"][j] = CancelAll(n) => i < j
      /\ CancelAll(n) \in applied =>
           /\ \A i \in DOMAIN request["rest"] : ~Creates(request["rest"][i], o)
           /\ book[o] # "live"

LEMMA AheadMakes ==
  ASSUME ActionsInv, Ahead, NEW r \in Requests, NEW l \in Links, Makes(r, l)
  PROVE  Ahead'
<1>1. /\ request' = [request EXCEPT ![l] = Append(request[l], r)] /\ r \notin Sent
      /\ ws_api' = ws_api /\ drops' = drops /\ applied' = applied /\ book' = book
      /\ l \in Routes(r)
      /\ \A o \in Orders : version[o] <= version'[o]
      /\ r[2] \in Orders => version[r[2]] < r[3]
      /\ r[1] = "create" => r[3] = 1
      /\ version' \in [Orders -> 0 .. MaxVersion]
  BY DEF Makes, exchange
<1>2. TypeOK /\ Queues /\ Placed /\ Truthful  BY DEF ActionsInv
<1>3. SUFFICES ASSUME drops = 0, ~ws_api, NEW n \in 1 .. MaxCancelAll, NEW o \in before'[n]
               PROVE  /\ version'[o] > 0
                      /\ \A i, j \in DOMAIN request'["rest"] :
                           Creates(request'["rest"][i], o) /\ request'["rest"][j] = CancelAll(n) => i < j
                      /\ CancelAll(n) \in applied =>
                           (\A i \in DOMAIN request'["rest"] : ~Creates(request'["rest"][i], o)) /\ book[o] # "live"
  BY <1>1 DEF Ahead
<1> DEFINE q == request["rest"]
<1>4. l = "rest" /\ request'["rest"] = Append(q, r)
  <2>1. l = "rest"  BY <1>1, <1>3 DEF Routes
  <2> QED BY <1>1, <1>2, <2>1, Updated DEF Queues
<1>5. "rest" \in Links /\ q \in Seq(Requests)
  <2>1. "rest" \in Links  BY DEF Links
  <2> QED BY <1>2, <2>1, QueuedAreRequests DEF Queues
<1>6. /\ Len(q) \in Nat /\ DOMAIN q = 1 .. Len(q) /\ DOMAIN Append(q, r) = 1 .. Len(q) + 1
      /\ \A i \in 1 .. Len(q) : Append(q, r)[i] = q[i]
      /\ Append(q, r)[Len(q) + 1] = r
      /\ Items(Append(q, r)) = Items(q) \cup {r}
  BY <1>5, Appended
<1>7. r \notin Items(q) /\ r \notin applied
  <2>1. \A x \in Items(q) : <<x, "rest">> \in sent  BY <1>2, <1>5 DEF Placed
  <2>2. \A x \in Items(q) : x \in Sent
    <3>1. SUFFICES ASSUME NEW x \in Items(q) PROVE x \in Sent  OBVIOUS
    <3>2. <<x, "rest">> \in sent /\ <<x, "rest">>[1] = x  BY <2>1
    <3> QED BY <3>2 DEF Sent
  <2>3. r \notin Sent /\ applied \subseteq Sent  BY <1>1, <1>2 DEF Truthful
  <2> HIDE DEF q
  <2> QED BY <2>2, <2>3
<1>8. before[n] \subseteq Orders /\ \A p \in Orders : version[p] \in Nat /\ version'[p] \in Nat
  <2>1. before \in [1 .. MaxCancelAll -> SUBSET Orders]  BY <1>2 DEF TypeOK
  <2>2. version \in [Orders -> 0 .. MaxVersion]  BY <1>2 DEF TypeOK
  <2> QED BY <1>1, <2>1, <2>2
<1> HIDE DEF q
<1>9. CASE o \in before[n]
  <2>1. o \in Orders /\ version[o] > 0  BY <1>3, <1>8, <1>9 DEF Ahead
  <2>2. ~Creates(r, o)  BY <1>1, <1>8, <2>1 DEF Creates
  <2>3. version'[o] > 0  BY <1>1, <1>8, <2>1
  <2>4. ASSUME NEW i \in DOMAIN Append(q, r), NEW j \in DOMAIN Append(q, r),
               Creates(Append(q, r)[i], o), Append(q, r)[j] = CancelAll(n)
        PROVE  i < j
    <3>1. i \in DOMAIN q /\ Creates(q[i], o)
      <4>1. i # Len(q) + 1  BY <1>6, <2>2, <2>4
      <4>2. i \in 1 .. Len(q)  BY <1>6, <4>1
      <4> QED BY <1>6, <2>4, <4>2
    <3>2. CASE j = Len(q) + 1  BY <1>6, <3>1, <3>2
    <3>3. CASE j # Len(q) + 1
      <4>1. j \in 1 .. Len(q)  BY <1>6, <3>3
      <4>2. j \in DOMAIN q /\ q[j] = CancelAll(n)  BY <1>6, <2>4, <4>1
      <4> QED BY <1>3, <1>9, <3>1, <4>2 DEF Ahead, q
    <3> QED BY <3>2, <3>3
  <2>5. ASSUME CancelAll(n) \in applied
        PROVE  (\A i \in DOMAIN Append(q, r) : ~Creates(Append(q, r)[i], o)) /\ book[o] # "live"
    <3>1. (\A i \in DOMAIN q : ~Creates(q[i], o)) /\ book[o] # "live"
      BY <1>3, <1>9, <2>5 DEF Ahead, q
    <3>2. ASSUME NEW i \in DOMAIN Append(q, r) PROVE ~Creates(Append(q, r)[i], o)
      <4>1. CASE i = Len(q) + 1  BY <1>6, <2>2, <4>1
      <4>2. CASE i # Len(q) + 1
        <5>1. i \in 1 .. Len(q)  BY <1>6, <4>2
        <5> QED BY <1>6, <3>1, <5>1
      <4> QED BY <4>1, <4>2
    <3> QED BY <3>1, <3>2
  <2> QED BY <1>4, <2>3, <2>4, <2>5
<1>10. CASE o \notin before[n]
  <2>1. /\ r = CancelAll(n) /\ before'[n] = {p \in Orders : version[p] > 0} /\ version' = version
    <3>1. before' # before  BY <1>3, <1>10
    <3>2. PICK m \in 1 .. MaxCancelAll :
            /\ r = <<"cancel_all", "all", m>>
            /\ before' = [before EXCEPT ![m] = {p \in Orders : version[p] > 0}]
            /\ version' = version
      BY <3>1 DEF Makes
    <3>3. before \in [1 .. MaxCancelAll -> SUBSET Orders]  BY <1>2 DEF TypeOK
    <3>4. m = n
      <4>1. CASE m # n  BY <1>3, <1>10, <3>2, <3>3, <4>1
      <4> QED BY <4>1
    <3>5. before'[n] = {p \in Orders : version[p] > 0}  BY <3>2, <3>3, <3>4
    <3> QED BY <3>2, <3>4, <3>5 DEF CancelAll
  <2>2. version'[o] > 0  BY <1>3, <2>1
  <2>3. ASSUME NEW i \in DOMAIN Append(q, r), NEW j \in DOMAIN Append(q, r),
               Creates(Append(q, r)[i], o), Append(q, r)[j] = CancelAll(n)
        PROVE  i < j
    <3>1. j = Len(q) + 1
      <4>1. CASE j # Len(q) + 1
        <5>1. j \in DOMAIN q /\ q[j] = r
          <6>1. j \in 1 .. Len(q)  BY <1>6, <4>1
          <6> QED BY <1>6, <2>1, <2>3, <6>1
        <5> QED BY <1>7, <5>1 DEF Items
      <4> QED BY <4>1
    <3>2. i # Len(q) + 1
      <4>1. ~Creates(r, o)  BY <2>1 DEF Creates, CancelAll
      <4> QED BY <1>6, <2>3, <4>1
    <3> QED BY <1>6, <3>1, <3>2
  <2>4. CancelAll(n) \notin applied  BY <1>7, <2>1
  <2> QED BY <1>4, <2>2, <2>3, <2>4
<1> QED BY <1>9, <1>10

LEMMA AheadHandle ==
  ASSUME ActionsInv, Ahead, NEW l \in Links, Handle(l), UNCHANGED ws_api
  PROVE  Ahead'
<1> DEFINE r == Head(request[l])
<1>1. PICK yes \in BOOLEAN :
        /\ request[l] # <<>> /\ request' = [request EXCEPT ![l] = Tail(request[l])]
        /\ book' = (IF yes THEN Executed(r) ELSE book)
        /\ applied' = (IF yes THEN applied \cup {r} ELSE applied)
        /\ ws_api' = ws_api /\ drops' = drops /\ version' = version /\ before' = before
  BY DEF Handle, oms, hist
<1>2. TypeOK /\ Queues /\ Placed  BY DEF ActionsInv
<1>3. SUFFICES ASSUME drops = 0, ~ws_api, NEW n \in 1 .. MaxCancelAll, NEW o \in before[n]
               PROVE  /\ version[o] > 0
                      /\ \A i, j \in DOMAIN request'["rest"] :
                           Creates(request'["rest"][i], o) /\ request'["rest"][j] = CancelAll(n) => i < j
                      /\ CancelAll(n) \in applied' =>
                           (\A i \in DOMAIN request'["rest"] : ~Creates(request'["rest"][i], o)) /\ book'[o] # "live"
  BY <1>1 DEF Ahead
<1>4. request[l] \in Seq(Requests)  BY <1>2, QueuedAreRequests DEF Queues
<1>5. /\ r \in Requests /\ r = request[l][1]
      /\ Len(request[l]) \in Nat /\ Len(request[l]) >= 1 /\ DOMAIN request[l] = 1 .. Len(request[l])
      /\ DOMAIN Tail(request[l]) = 1 .. Len(request[l]) - 1
      /\ \A i \in 1 .. Len(request[l]) - 1 : Tail(request[l])[i] = request[l][i + 1]
      /\ Items(request[l]) = Items(Tail(request[l])) \cup {r}
  BY <1>1, <1>4, Shortened
<1> HIDE DEF r
<1>6. l = "rest"
  <2>1. r \in Items(request[l])  BY <1>5
  <2> DEFINE s == <<r, l>>
  <2>2. s \in sent  BY <1>2, <2>1 DEF Placed
  <2>3. s[1] = r /\ s[2] = l  OBVIOUS
  <2>4. l \in Routes(r)  BY <1>2, <2>2, <2>3 DEF Placed
  <2> QED BY <1>3, <2>4 DEF Routes
<1> DEFINE q == request["rest"]
           b == Tail(q)
<1>7. request'["rest"] = b
  <2>1. request'[l] = Tail(request[l])  BY <1>1, <1>2, Updated DEF Queues
  <2> QED BY <1>6, <2>1
<1>8. o \in Orders  BY <1>2, <1>3 DEF TypeOK
<1>9. /\ version[o] > 0
      /\ \A i, j \in DOMAIN q : Creates(q[i], o) /\ q[j] = CancelAll(n) => i < j
      /\ CancelAll(n) \in applied =>
           (\A i \in DOMAIN q : ~Creates(q[i], o)) /\ book[o] # "live"
  BY <1>3 DEF Ahead
<1>10. /\ Len(q) \in Nat /\ Len(q) >= 1 /\ DOMAIN q = 1 .. Len(q) /\ DOMAIN b = 1 .. Len(q) - 1
       /\ \A i \in 1 .. Len(q) - 1 : b[i] = q[i + 1]
       /\ Items(q) = Items(b) \cup {r} /\ r = q[1]
  BY <1>5, <1>6
<1> HIDE DEF q, b
<1>11. ASSUME NEW i \in DOMAIN b, NEW j \in DOMAIN b, Creates(b[i], o), b[j] = CancelAll(n)
       PROVE  i < j
  <2>1. i + 1 \in DOMAIN q /\ j + 1 \in DOMAIN q /\ q[i + 1] = b[i] /\ q[j + 1] = b[j]
    BY <1>10
  <2>2. i + 1 < j + 1  BY <1>9, <1>11, <2>1
  <2> QED BY <1>10, <2>2
<1>12. ASSUME CancelAll(n) \in applied'
       PROVE  (\A i \in DOMAIN b : ~Creates(b[i], o)) /\ book'[o] # "live"
  <2>1. book \in [Orders -> {"none", "live", "dead"}]  BY <1>2 DEF TypeOK
  <2>2. r[1] \in {"create", "modify", "cancel", "cancel_all"}
    <3>1. CASE r \in OfOrder  BY <3>1, Shape DEF Kind
    <3>2. CASE r \notin OfOrder  BY <1>5, <3>2, ShapeAll
    <3> QED BY <3>1, <3>2
  <2>3. CASE CancelAll(n) \in applied
    <3>1. ~Creates(r, o) /\ (\A i \in DOMAIN b : ~Creates(b[i], o)) /\ book[o] # "live"
      <4>1. (\A i \in DOMAIN q : ~Creates(q[i], o)) /\ book[o] # "live"  BY <1>9, <2>3
      <4>2. 1 \in DOMAIN q /\ \A i \in DOMAIN b : i + 1 \in DOMAIN q /\ b[i] = q[i + 1]
        BY <1>10
      <4> QED BY <1>10, <4>1, <4>2
    <3>2. CASE ~yes  BY <1>1, <3>1, <3>2
    <3>3. CASE yes
      <4>1. book' = Executed(r)  BY <1>1, <3>3
      <4>2. CASE r[1] = "create"
        <5>4. r[2] # o  BY <3>1, <4>2 DEF Creates
        <5>5. Executed(r) = [book EXCEPT ![r[2]] = "live"]  BY <4>2 DEF Executed
        <5> QED BY <1>8, <2>1, <3>1, <4>1, <5>4, <5>5
      <4>3. CASE r[1] = "modify"
        <5>1. Executed(r) = book  BY <4>3 DEF Executed
        <5> QED BY <3>1, <4>1, <5>1
      <4>4. CASE r[1] = "cancel"
        <5>1. Executed(r) = [book EXCEPT ![r[2]] = "dead"]  BY <4>4 DEF Executed
        <5> QED BY <1>8, <2>1, <3>1, <4>1, <5>1
      <4>5. CASE r[1] = "cancel_all"
        <5>1. Executed(r)[o] # "live"  BY <1>8, <4>5 DEF Executed
        <5> QED BY <3>1, <4>1, <5>1
      <4> QED BY <2>2, <4>2, <4>3, <4>4, <4>5
    <3> QED BY <3>2, <3>3
  <2>4. CASE CancelAll(n) \notin applied
    <3>1. yes /\ r = CancelAll(n)  BY <1>1, <1>12, <2>4
    <3>2. book' = Executed(r) /\ r[1] = "cancel_all"  BY <1>1, <3>1 DEF CancelAll
    <3>3. book'[o] # "live"  BY <1>8, <3>2 DEF Executed
    <3>4. ASSUME NEW i \in DOMAIN b, Creates(b[i], o) PROVE FALSE
      <4>1. i + 1 \in DOMAIN q /\ 1 \in DOMAIN q /\ q[i + 1] = b[i] /\ i \in Nat  BY <1>10
      <4>2. q[1] = CancelAll(n)  BY <1>10, <3>1
      <4>3. i + 1 < 1  BY <1>9, <3>4, <4>1, <4>2
      <4> QED BY <4>1, <4>3
    <3> QED BY <3>3, <3>4
  <2> QED BY <2>3, <2>4
<1> QED BY <1>1, <1>3, <1>7, <1>9, <1>11, <1>12

LEMMA AheadNext == ActionsInv /\ Ahead /\ [Next]_vars => Ahead'
<1> SUFFICES ASSUME ActionsInv, Ahead, [Next]_vars PROVE Ahead'  OBVIOUS
<1>1. CASE \E r \in Requests, l \in Links : Makes(r, l)  BY <1>1, AheadMakes
<1>2. CASE \E l \in Links : Handle(l) /\ UNCHANGED ws_api  BY <1>2, AheadHandle
<1>3. ASSUME drops' = drops + 1 PROVE Ahead'
  <2>1. drops' # 0  BY <1>3 DEF ActionsInv, TypeOK
  <2> QED BY <2>1 DEF Ahead
<1>4. CASE \E c \in Sockets : SocketLost(c) /\ UNCHANGED ws_api  BY <1>3, <1>4 DEF SocketLost
<1>5. CASE RestLost /\ UNCHANGED ws_api  BY <1>3, <1>5 DEF RestLost
<1>6. ASSUME UNCHANGED <<ws_api, request, version, applied, before, drops>>, \A o \in Orders : book[o] # "live" => book'[o] # "live"
      PROVE  Ahead'
  <2>1. \A n \in 1 .. MaxCancelAll : before[n] \subseteq Orders  BY DEF ActionsInv, TypeOK
  <2> QED BY <1>6, <2>1 DEF Ahead
<1>7. CASE \E l \in Links : Takes(l)  BY <1>6, <1>7 DEF Takes, exchange, hist
<1>8. CASE \E o \in Orders : Expire(o) /\ UNCHANGED ws_api
  <2>1. PICK o \in Orders : Expire(o) /\ UNCHANGED ws_api  BY <1>8
  <2>2. book' = [book EXCEPT ![o] = "dead"] /\ book \in [Orders -> {"none", "live", "dead"}]
    BY <2>1 DEF Expire, ActionsInv, TypeOK
  <2>3. \A p \in Orders : book[p] # "live" => book'[p] # "live"  BY <2>2
  <2> QED BY <1>6, <2>1, <2>3 DEF Expire, oms, hist
<1>9. CASE /\ ready' \subseteq Links /\ book' = book
           /\ UNCHANGED <<ws_api, request, response, oms, exchange, hist, drops>>
  BY <1>6, <1>9 DEF oms, exchange, hist
<1> QED BY <1>1, <1>2, <1>4, <1>5, <1>7, <1>8, <1>9, Steps

\* Over REST a cancel-all leaves no order live that was created before it.
THEOREM CancelAllCorrect == Spec => []CancelAllReaches
<1>1. Init => Ahead
  BY DEF Init, Ahead
<1>2. Ahead => CancelAllReaches
  BY DEF Ahead, CancelAllReaches, CancelAll
<1> QED BY <1>1, <1>2, ActionsAlways, AheadNext, PTL DEF Spec
=============================================================================
