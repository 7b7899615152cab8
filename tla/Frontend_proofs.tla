--------------------------- MODULE Frontend_proofs ---------------------------
(***************************************************************************)
(* Theorems on the frontend: any finite number of tabs that share a cookie, *)
(* the exchanges they have in flight, and the buttons of every page.        *)
(***************************************************************************)
EXTENDS Frontend, FiniteSetTheorems, FunctionTheorems, TLAPS

-----------------------------------------------------------------------------
(* Exchanges as records *)

Listed(s) == Len(s) \in Nat /\ DOMAIN s = 1 .. Len(s)

IsExchange(c) ==
    c \in [tab : {c.tab}, id : {c.id}, kind : {c.kind}, pc : {c.pc}, retried : {c.retried},
           awaits : {c.awaits}, with : {c.with}, answer : {c.answer}, pair : {c.pair},
           page : {c.page}, visit : {c.visit}, op : {c.op}, get : {c.get}, key : {c.key},
           text : {c.text}, data : {c.data}, runs : {c.runs}]

\* d is c at another moment of its life.
SameRequest(c, d) ==
    /\ IsExchange(d)
    /\ d.tab = c.tab /\ d.id = c.id /\ d.kind = c.kind
    /\ d.page = c.page /\ d.visit = c.visit /\ d.op = c.op /\ d.get = c.get
    /\ d.key = c.key

Typed(c, m) ==
    /\ IsExchange(c) /\ c.tab \in Tab /\ c.id \in 1 .. m
    /\ c.pc = "waiting" => c.kind \notin NoRetryPaths \cup {"logout"}
    /\ c.kind = "logout" => c.answer # "401"
    /\ c.runs \in 0 .. 1
    /\ c.runs = 1 => c.pc = "answered" /\ c.answer \in {"ok", "failed"}
    /\ c.kind \in {"load", "write"} => c.visit \in 0 .. c.id - 1

CallsOK(cs, m) ==
    /\ m \in Nat
    /\ \A c \in cs : Typed(c, m)
    /\ \A c, d \in cs : c.id = d.id => c = d

LEMMA AnsweredFields ==
    ASSUME NEW c, IsExchange(c), NEW answer, NEW pair
    PROVE  LET d == Answered(c, answer, pair)
           IN  /\ SameRequest(c, d) /\ d.pc = "answered" /\ d.answer = answer /\ d.pair = pair
               /\ d.with = c.with /\ d.runs = c.runs
  BY Zenon DEF IsExchange, SameRequest, Answered

LEMMA LoadedFields ==
    ASSUME NEW c, IsExchange(c), NEW data
    PROVE  LET d == [Answered(c, "ok", 0) EXCEPT !.data = data]
           IN  /\ SameRequest(c, d) /\ d.pc = "answered" /\ d.answer = "ok" /\ d.runs = c.runs
               /\ d.data = data
  BY Zenon DEF IsExchange, SameRequest, Answered

LEMMA WaitingFields ==
    ASSUME NEW c, IsExchange(c), NEW id
    PROVE  LET d == Waiting(c, id)
           IN  /\ SameRequest(c, d) /\ d.pc = "waiting" /\ d.answer = c.answer
               /\ d.with = c.with /\ d.runs = c.runs
  BY Zenon DEF IsExchange, SameRequest, Waiting

LEMMA ResumedFields ==
    ASSUME NEW c, IsExchange(c), NEW p
    PROVE  LET d == Resumed(c, p)
           IN  SameRequest(c, d) /\ d.pc = "sent" /\ d.answer = "none" /\ d.runs = c.runs
  BY Zenon DEF IsExchange, SameRequest, Resumed

LEMMA RefusedFields ==
    ASSUME NEW c, IsExchange(c)
    PROVE  LET d == Refused(c)
           IN  SameRequest(c, d) /\ d.pc = "answered" /\ d.answer = "401" /\ d.runs = c.runs
  BY Zenon DEF IsExchange, SameRequest, Refused

LEMMA ExchangeFields ==
    ASSUME NEW t, NEW id, NEW kind
    PROVE  LET d == Exchange(t, id, kind)
           IN  /\ IsExchange(d) /\ d.tab = t /\ d.id = id /\ d.kind = kind
               /\ d.pc = "sent" /\ d.answer = "none" /\ d.runs = 0
               /\ kind \in {"refresh", "logout"} => d.with = cookie
  BY DEF IsExchange, Exchange

LEMMA LoadsFields ==
    ASSUME made \in Nat, NEW t \in Tab, NEW p, NEW visit \in 0 .. made, NEW gets, NEW k,
           Listed(gets)
    PROVE  /\ made + Len(gets) \in Nat
           /\ \A d \in Loads(t, p, visit, gets, k) :
                 /\ Typed(d, made + Len(gets)) /\ d.id > made
                 /\ d.kind = "load" /\ d.tab = t /\ d.page = p /\ d.visit = visit
           /\ \A d, e \in Loads(t, p, visit, gets, k) : d.id = e.id => d = e
<1> DEFINE D(i) == [Exchange(t, made + i, "load") EXCEPT
                       !.page = p, !.visit = visit, !.get = gets[i], !.key = k]
<1>1. Loads(t, p, visit, gets, k) = {D(i) : i \in 1 .. Len(gets)}
  BY DEF Loads, Listed
<1>2. ASSUME NEW i
      PROVE  /\ IsExchange(D(i)) /\ D(i).tab = t /\ D(i).id = made + i /\ D(i).kind = "load"
             /\ D(i).pc = "sent" /\ D(i).answer = "none" /\ D(i).runs = 0
             /\ D(i).page = p /\ D(i).visit = visit
  BY Zenon DEF IsExchange, Exchange
<1> HIDE DEF D
<1>3. Len(gets) \in Nat
  BY DEF Listed
<1>4. \A i \in 1 .. Len(gets) : made + i \in 1 .. made + Len(gets) /\ made + i > made
                               /\ visit \in 0 .. made + i - 1
  BY <1>3
<1>5. \A i \in 1 .. Len(gets) : Typed(D(i), made + Len(gets))
  BY <1>2, <1>4 DEF Typed
<1>6. \A i, j \in 1 .. Len(gets) : made + i = made + j => i = j
  BY <1>3
<1> QED
  BY <1>1, <1>2, <1>3, <1>4, <1>5, <1>6

-----------------------------------------------------------------------------
(* What a step does to the exchanges in flight *)

\* Those in gone go on as back, and those in new are begun.
Turn(gone, back, new) ==
    /\ gone \subseteq calls
    /\ calls' = (calls \ gone) \cup back \cup new
    /\ made' \in Nat /\ made' >= made
    /\ \A d \in back : Typed(d, made) /\ \E c \in gone : SameRequest(c, d)
    /\ \A d, e \in back : d.id = e.id => d = e
    /\ \A d \in new : Typed(d, made') /\ d.id > made
    /\ \A d, e \in new : d.id = e.id => d = e

LEMMA TurnKeepsCalls ==
    ASSUME CallsOK(calls, made), NEW gone, NEW back, NEW new, Turn(gone, back, new)
    PROVE  CallsOK(calls', made')
<1>1. \A c, m, n : m \in Nat /\ n \in Nat /\ n >= m /\ Typed(c, m) => Typed(c, n)
  BY DEF Typed
<1>2. \A c \in calls' : Typed(c, made')
  BY <1>1 DEF CallsOK, Turn
<1>3. \A c \in calls : c.id \in Nat /\ c.id <= made
  BY DEF CallsOK, Typed
<1>4. \A d \in back : \E c \in gone : c.id = d.id /\ c \in calls
  BY DEF Turn, SameRequest
<1>5. \A d \in new : d.id \in Nat /\ d.id > made
  BY DEF Turn, Typed
<1>6. ASSUME NEW c \in calls', NEW d \in calls', c.id = d.id
      PROVE  c = d
  <2>1. CASE c \in new
    BY <2>1, <1>3, <1>4, <1>5, <1>6 DEF Turn, CallsOK
  <2>2. CASE d \in new
    BY <2>2, <1>3, <1>4, <1>5, <1>6 DEF Turn, CallsOK
  <2>3. CASE c \in back /\ d \in back
    BY <2>3, <1>6 DEF Turn
  <2>4. CASE c \in back /\ d \in calls \ gone
    BY <2>4, <1>4, <1>6 DEF CallsOK
  <2>5. CASE d \in back /\ c \in calls \ gone
    BY <2>5, <1>4, <1>6 DEF CallsOK
  <2>6. CASE c \in calls \ gone /\ d \in calls \ gone
    BY <2>6, <1>6 DEF CallsOK
  <2> QED
    BY <2>1, <2>2, <2>3, <2>4, <2>5, <2>6 DEF Turn
<1> QED
  BY <1>2, <1>6 DEF CallsOK, Turn

AuthKinds == {"refresh", "login", "logout"}
AuthCalls == {c \in calls : c.kind \in AuthKinds}

LEMMA TurnKeepsAuth ==
    ASSUME NEW gone, NEW back, NEW new, Turn(gone, back, new),
           \A c \in gone \cup new : c.kind \notin AuthKinds
    PROVE  AuthCalls' = AuthCalls
<1>1. \A d \in back : d.kind \notin AuthKinds
  BY DEF Turn, SameRequest
<1> QED
  BY <1>1 DEF Turn, AuthCalls

\* The requests that are not a page's.
OtherCalls == {c \in calls : c.kind \notin {"load", "write"}}

LEMMA TurnKeepsOthers ==
    ASSUME NEW gone, NEW back, NEW new, Turn(gone, back, new),
           \A c \in gone \cup new : c.kind \in {"load", "write"}
    PROVE  OtherCalls' = OtherCalls
<1>1. \A d \in back : d.kind \in {"load", "write"}
  BY DEF Turn, SameRequest
<1> QED
  BY <1>1 DEF Turn, OtherCalls

LEMMA OthersKeepAuth ==
    ASSUME OtherCalls' = OtherCalls
    PROVE  AuthCalls' = AuthCalls
<1>1. AuthCalls = {c \in OtherCalls : c.kind \in AuthKinds}
      /\ AuthCalls' = {c \in OtherCalls' : c.kind \in AuthKinds}
  BY DEF AuthCalls, OtherCalls, AuthKinds
<1> QED
  BY <1>1

\* Handlers that await an answer are in flight until it is handled.
WritesStay ==
    /\ \A c \in calls : c.kind = "write" => \E d \in calls' : SameRequest(c, d)
    /\ \A d \in calls' : d.kind = "write" => \E c \in calls : SameRequest(c, d)

LEMMA TurnKeepsWrites ==
    ASSUME CallsOK(calls, made), NEW gone, NEW back, NEW new, Turn(gone, back, new),
           \A c \in gone : c.kind = "write" => \E d \in back : SameRequest(c, d),
           \A d \in new : d.kind # "write"
    PROVE  WritesStay
<1>1. \A c \in calls : SameRequest(c, c)
  BY DEF CallsOK, Typed, SameRequest
<1> QED
  BY <1>1 DEF Turn, WritesStay

LEMMA OneGoesOn ==
    ASSUME CallsOK(calls, made), NEW c \in calls, NEW d, calls' = Replaced(c, {d}),
           UNCHANGED made, SameRequest(c, d),
           d.pc = "waiting" => d.kind \notin NoRetryPaths \cup {"logout"},
           d.kind = "logout" => d.answer # "401",
           d.runs \in 0 .. 1,
           d.runs = 1 => d.pc = "answered" /\ d.answer \in {"ok", "failed"}
    PROVE  Turn({c}, {d}, {})
  BY DEF CallsOK, Typed, SameRequest, Turn, Replaced

LEMMA OneEnds ==
    ASSUME CallsOK(calls, made), NEW c \in calls, NEW new, calls' = Replaced(c, new),
           made' \in Nat, made' >= made,
           \A d \in new : Typed(d, made') /\ d.id > made,
           \A d, e \in new : d.id = e.id => d = e
    PROVE  Turn({c}, {}, new)
  BY DEF Turn, Replaced

LEMMA SomeBegin ==
    ASSUME CallsOK(calls, made), NEW new, calls' = calls \cup new,
           made' \in Nat, made' >= made,
           \A d \in new : Typed(d, made') /\ d.id > made,
           \A d, e \in new : d.id = e.id => d = e
    PROVE  Turn({}, {}, new)
  BY DEF Turn

LEMMA FirstOfItsId ==
    ASSUME made \in Nat, made' = made + 1, NEW t \in Tab, NEW d, IsExchange(d), d.tab = t,
           d.id = made', d.pc = "sent", d.answer = "none", d.runs = 0,
           d.kind \in {"load", "write"} => d.visit \in 0 .. made
    PROVE  Typed(d, made') /\ d.id > made /\ made' \in Nat /\ made' >= made
  BY DEF Typed

-----------------------------------------------------------------------------
(* The steps of the server *)

LEMMA ServeRefreshTurns ==
    ASSUME CallsOK(calls, made), NEW c \in calls, ServeRefresh(c)
    PROVE  \E d : /\ Turn({c}, {d}, {}) /\ SameRequest(c, d)
                  /\ d.pc = "answered" /\ d.with = c.with
                  /\ c.with \in alive => d.answer = "ok" /\ d.pair = issued'
                  /\ c.with \notin alive => d.answer = "401"
<1> DEFINE d == IF c.with \in alive THEN Answered(c, "ok", issued') ELSE Answered(c, "401", 0)
<1>1. IsExchange(c) /\ c.runs \in 0 .. 1 /\ c.runs # 1 /\ c.kind = "refresh"
  BY DEF CallsOK, Typed, ServeRefresh
<1>2. /\ SameRequest(c, d) /\ d.pc = "answered" /\ d.with = c.with /\ d.runs = c.runs
      /\ c.with \in alive => d.answer = "ok" /\ d.pair = issued'
      /\ c.with \notin alive => d.answer = "401"
  BY <1>1, AnsweredFields
<1>3. calls' = Replaced(c, {d}) /\ UNCHANGED made
  BY DEF ServeRefresh
<1>4. d.kind = "refresh"
  BY <1>1, <1>2 DEF SameRequest
<1> HIDE DEF d
<1>5. Turn({c}, {d}, {})
  BY <1>1, <1>2, <1>3, <1>4, OneGoesOn, Zenon
<1> QED
  BY <1>2, <1>5, Zenon

LEMMA ServeLoginTurns ==
    ASSUME CallsOK(calls, made), NEW c \in calls, ServeLogin(c)
    PROVE  \E d : /\ Turn({c}, {d}, {}) /\ SameRequest(c, d)
                  /\ d.pc = "answered"
                  /\ d.kind = "login" /\ d.answer = "ok" =>
                        d.pair = issued' /\ issued' = issued + 1
                                         /\ alive' = alive \cup {issued'}
<1>1. IsExchange(c) /\ c.runs \in 0 .. 1 /\ c.runs # 1 /\ c.kind \in {"login", "register"}
  BY DEF CallsOK, Typed, ServeLogin
<1>2. PICK answer, pair : /\ calls' = Replaced(c, {Answered(c, answer, pair)})
                          /\ c.kind = "login" /\ answer = "ok" =>
                                pair = issued' /\ issued' = issued + 1
                                               /\ alive' = alive \cup {issued'}
  BY <1>1 DEF ServeLogin
<1>3. UNCHANGED made
  BY DEF ServeLogin
<1> DEFINE d == Answered(c, answer, pair)
<1>4. /\ SameRequest(c, d) /\ d.pc = "answered" /\ d.runs = c.runs
      /\ d.answer = answer /\ d.pair = pair
  BY <1>1, AnsweredFields
<1>5. d.kind = c.kind
  BY <1>4 DEF SameRequest
<1> HIDE DEF d
<1>6. Turn({c}, {d}, {})
  BY <1>1, <1>2, <1>3, <1>4, <1>5, OneGoesOn DEF d
<1> QED
  BY <1>2, <1>4, <1>5, <1>6, Zenon

\* The answer d to a request c of a page brings what the server has then.
Brought(c, d) ==
    \A r \in DOMAIN version : c.kind = "write" \/ r \in c.get => d.data[r] = version'[r]

\* The answers that bring no tokens.
LEMMA AnswerTurns ==
    ASSUME CallsOK(calls, made), NEW c \in calls, UNCHANGED made,
           ServeLogout(c) \/ ServeMe(c) \/ ServeLoad(c) \/ ServeWrite(c)
    PROVE  \E d : /\ Turn({c}, {d}, {}) /\ SameRequest(c, d)
                  /\ d.pc = "answered"
                  /\ c.kind = "logout" => d.with = c.with
                  /\ d.answer = "ok" /\ c.kind \in {"load", "write"} => Brought(c, d)
<1>1. IsExchange(c) /\ c.runs \in 0 .. 1 /\ c.runs # 1
      /\ c.kind \in {"logout", "mount", "me", "load", "write"}
  BY Zenon DEF CallsOK, Typed, ServeLogout, ServeMe, ServeLoad, ServeWrite
<1>2. CASE \E answer : /\ calls' = Replaced(c, {Answered(c, answer, 0)})
                       /\ c.kind = "logout" => answer # "401"
                       /\ c.kind \in {"load", "write"} => answer # "ok"
  <2>1. PICK answer : /\ calls' = Replaced(c, {Answered(c, answer, 0)})
                      /\ c.kind = "logout" => answer # "401"
                      /\ c.kind \in {"load", "write"} => answer # "ok"
    BY <1>2
  <2> DEFINE d == Answered(c, answer, 0)
  <2>2. SameRequest(c, d) /\ d.pc = "answered" /\ d.runs = c.runs /\ d.answer = answer
        /\ d.with = c.with
    BY <1>1, AnsweredFields
  <2>3. d.kind = c.kind
    BY <2>2 DEF SameRequest
  <2> HIDE DEF d
  <2>4. Turn({c}, {d}, {})
    BY <1>1, <2>1, <2>2, <2>3, OneGoesOn DEF d
  <2> QED
    BY <2>1, <2>2, <2>4, Zenon
<1>3. CASE \E data : /\ calls' = Replaced(c, {[Answered(c, "ok", 0) EXCEPT !.data = data]})
                     /\ c.kind = "load"
                     /\ \A r \in DOMAIN version : r \in c.get => data[r] = version'[r]
  <2>1. PICK data : /\ calls' = Replaced(c, {[Answered(c, "ok", 0) EXCEPT !.data = data]})
                    /\ \A r \in DOMAIN version : r \in c.get => data[r] = version'[r]
    BY <1>3
  <2> DEFINE d == [Answered(c, "ok", 0) EXCEPT !.data = data]
  <2>2. /\ SameRequest(c, d) /\ d.pc = "answered" /\ d.runs = c.runs /\ d.answer = "ok"
        /\ d.data = data
    BY <1>1, LoadedFields
  <2> HIDE DEF d
  <2>3. Turn({c}, {d}, {})
    BY <1>1, <2>1, <2>2, OneGoesOn, Zenon DEF d
  <2> QED
    BY <1>3, <2>1, <2>2, <2>3, Zenon DEF Brought
<1>4. CASE \E data : /\ calls' = Replaced(c, {[Answered(c, "ok", 0) EXCEPT
                                                  !.runs = @ + 1, !.data = data]})
                     /\ c.kind = "write"
                     /\ \A r \in DOMAIN version : data[r] = version'[r]
  <2>1. PICK data : /\ calls' = Replaced(c, {[Answered(c, "ok", 0) EXCEPT
                                                !.runs = @ + 1, !.data = data]})
                    /\ \A r \in DOMAIN version : data[r] = version'[r]
    BY <1>4, Zenon
  <2> DEFINE d == [Answered(c, "ok", 0) EXCEPT !.runs = @ + 1, !.data = data]
  <2>2. /\ SameRequest(c, d) /\ d.pc = "answered" /\ d.runs = c.runs + 1 /\ d.answer = "ok"
        /\ d.data = data
    BY <1>1, Zenon DEF IsExchange, SameRequest, Answered
  <2> HIDE DEF d
  <2>3. d.runs \in 0 .. 1
    BY <1>1, <2>2
  <2>4. Turn({c}, {d}, {})
    BY <1>1, <2>1, <2>2, <2>3, OneGoesOn, Zenon DEF d
  <2> QED
    BY <1>4, <2>1, <2>2, <2>4, Zenon DEF Brought
<1>5. ServeLogout(c) \/ ServeMe(c) =>
        \E answer : /\ calls' = Replaced(c, {Answered(c, answer, 0)})
                    /\ c.kind = "logout" => answer # "401"
                    /\ c.kind \in {"load", "write"} => answer # "ok"
  <2> SUFFICES ASSUME ServeLogout(c) \/ ServeMe(c)
               PROVE  \E answer : /\ calls' = Replaced(c, {Answered(c, answer, 0)})
                                  /\ c.kind = "logout" => answer # "401"
                                  /\ c.kind \in {"load", "write"} => answer # "ok"
    OBVIOUS
  <2>1. CASE ServeLogout(c)
    <3> WITNESS "ok"
    <3> QED
      BY <2>1 DEF ServeLogout
  <2>2. CASE ServeMe(c)
    <3> WITNESS IF Authentic(c) THEN "ok" ELSE "401"
    <3> QED
      BY <2>2 DEF ServeMe
  <2> QED
    BY <2>1, <2>2, Zenon
<1>6. ServeLoad(c) => \/ calls' = Replaced(c, {Answered(c, "401", 0)}) /\ c.kind = "load"
                      \/ \E data : /\ calls' = Replaced(c, {[Answered(c, "ok", 0) EXCEPT
                                                                !.data = data]})
                                   /\ c.kind = "load"
                                   /\ \A r \in DOMAIN version :
                                         r \in c.get => data[r] = version'[r]
  <2> SUFFICES ASSUME ServeLoad(c), Admitted(c)
               PROVE  \E data : /\ calls' = Replaced(c, {[Answered(c, "ok", 0) EXCEPT
                                                             !.data = data]})
                                /\ c.kind = "load"
                                /\ \A r \in DOMAIN version : r \in c.get => data[r] = version'[r]
    BY Zenon DEF ServeLoad
  <2> DEFINE data == [r \in c.get |-> version[r]]
  <2>1. calls' = Replaced(c, {[Answered(c, "ok", 0) EXCEPT !.data = data]}) /\ c.kind = "load"
    BY DEF ServeLoad
  <2>2. \A r \in DOMAIN version : r \in c.get => data[r] = version'[r]
    BY DEF ServeLoad, pageVars
  <2> HIDE DEF data
  <2> QED
    BY <2>1, <2>2, Zenon
<1>7. ServeWrite(c) => \/ \E answer : /\ calls' = Replaced(c, {Answered(c, answer, 0)})
                                      /\ c.kind = "write" /\ answer # "ok"
                       \/ \E data : /\ calls' = Replaced(c, {[Answered(c, "ok", 0) EXCEPT
                                                                 !.runs = @ + 1, !.data = data]})
                                    /\ c.kind = "write"
                                    /\ \A r \in DOMAIN version : data[r] = version'[r]
  <2> SUFFICES ASSUME ServeWrite(c), NEW w,
                      calls' = Replaced(c, {[Answered(c, "ok", 0) EXCEPT
                                               !.runs = @ + 1,
                                               !.data = [r \in DOMAIN version |-> version'[r]]]})
               PROVE  \E data : /\ calls' = Replaced(c, {[Answered(c, "ok", 0) EXCEPT
                                                             !.runs = @ + 1, !.data = data]})
                                /\ c.kind = "write"
                                /\ \A r \in DOMAIN version : data[r] = version'[r]
    BY Zenon DEF ServeWrite
  <2>1. PICK data : data = [r \in DOMAIN version |-> version'[r]]
    BY Zenon
  <2>2. \A r \in DOMAIN version : data[r] = version'[r]
    BY <2>1, Zenon
  <2>3. /\ calls' = Replaced(c, {[Answered(c, "ok", 0) EXCEPT !.runs = @ + 1, !.data = data]})
        /\ c.kind = "write"
    BY <2>1, Zenon DEF ServeWrite
  <2> QED
    BY <2>2, <2>3, Zenon
<1>8. CASE ServeLogout(c) \/ ServeMe(c)
  BY <1>2, <1>5, <1>8, Zenon
<1>9. CASE ServeLoad(c)
  <2>1. "401" # "ok" /\ c.kind = "load" /\ c.kind # "logout"
    BY <1>9 DEF ServeLoad
  <2> QED
    BY <1>2, <1>3, <1>6, <1>9, <2>1, Zenon
<1>10. CASE ServeWrite(c)
  <2>1. c.kind = "write" /\ c.kind # "logout"
    BY <1>10, Zenon DEF ServeWrite
  <2>2. CASE \E answer : calls' = Replaced(c, {Answered(c, answer, 0)}) /\ answer # "ok"
    BY <1>2, <2>1, <2>2, Zenon
  <2> QED
    BY <1>4, <1>7, <1>10, <2>1, <2>2, Zenon
<1> QED
  BY <1>8, <1>9, <1>10, Zenon

LEMMA LoseTurns ==
    ASSUME CallsOK(calls, made), NEW c \in calls, Lose(c)
    PROVE  \E d : /\ Turn({c}, {d}, {}) /\ SameRequest(c, d)
                  /\ d.pc = "answered" /\ d.answer = "failed" /\ d.with = c.with
<1> DEFINE d == Answered(c, "failed", 0)
<1>1. IsExchange(c) /\ c.runs \in 0 .. 1
  BY DEF CallsOK, Typed
<1>2. /\ SameRequest(c, d) /\ d.pc = "answered" /\ d.runs = c.runs
      /\ d.answer = "failed" /\ d.with = c.with
  BY <1>1, AnsweredFields
<1>3. calls' = Replaced(c, {d}) /\ UNCHANGED made
  BY DEF Lose
<1> HIDE DEF d
<1>4. Turn({c}, {d}, {})
  BY <1>1, <1>2, <1>3, OneGoesOn, Zenon
<1> QED
  BY <1>2, <1>4, Zenon

-----------------------------------------------------------------------------
(* The steps of the client *)

LEMMA RetryTurns ==
    ASSUME CallsOK(calls, made), NEW c \in calls, Retry(c)
    PROVE  /\ c.kind \notin AuthKinds
           /\ \E d, new : /\ Turn({c}, {d}, new) /\ SameRequest(c, d) /\ d.answer # "ok"
                          /\ \A e \in new : e.kind = "refresh" /\ e.pc = "sent"
                          /\ \/ new = {} /\ UNCHANGED refreshing
                             \/ \E e : /\ new = {e} /\ e.tab = c.tab /\ e.id = made'
                                       /\ e.with = cookie
                                       /\ refreshing[c.tab] = 0
                                       /\ refreshing' = [refreshing EXCEPT ![c.tab] = made']
<1>1. /\ IsExchange(c) /\ c.tab \in Tab /\ c.runs = 0 /\ c.answer = "401" /\ made \in Nat
      /\ c.kind \notin NoRetryPaths \cup {"logout"} /\ c.pc = "answered"
  BY DEF CallsOK, Typed, Retry, MayRetry
<1>2. c.kind \notin AuthKinds
  BY <1>1 DEF AuthKinds, NoRetryPaths
<1>3. CASE refreshing[c.tab] # 0
  <2> DEFINE d == Waiting(c, refreshing[c.tab])
  <2>1. SameRequest(c, d) /\ d.pc = "waiting" /\ d.runs = 0 /\ d.answer # "ok"
    BY <1>1, WaitingFields
  <2>2. d.kind = c.kind
    BY <2>1 DEF SameRequest
  <2>3. calls' = Replaced(c, {d}) /\ UNCHANGED <<refreshing, made>>
    BY <1>3 DEF Retry
  <2> HIDE DEF d
  <2>4. Turn({c}, {d}, {})
    BY <1>1, <2>1, <2>2, <2>3, OneGoesOn
  <2> QED
    BY <1>2, <2>1, <2>3, <2>4, Zenon
<1>4. CASE refreshing[c.tab] = 0
  <2> DEFINE d == Waiting(c, made')
             e == Exchange(c.tab, made', "refresh")
  <2>1. SameRequest(c, d) /\ d.pc = "waiting" /\ d.runs = 0 /\ d.answer # "ok"
    BY <1>1, WaitingFields
  <2>2. d.kind = c.kind
    BY <2>1 DEF SameRequest
  <2>3. /\ IsExchange(e) /\ e.tab = c.tab /\ e.id = made' /\ e.kind = "refresh"
        /\ e.pc = "sent" /\ e.answer = "none" /\ e.runs = 0 /\ e.with = cookie
    BY ExchangeFields
  <2>4. /\ calls' = Replaced(c, {d, e}) /\ made' = made + 1
        /\ refreshing' = [refreshing EXCEPT ![c.tab] = made']
    BY <1>4 DEF Retry
  <2> HIDE DEF d, e
  <2>5. Typed(e, made') /\ e.id > made /\ made' \in Nat /\ made' >= made
    BY <1>1, <2>3, <2>4, FirstOfItsId
  <2>6. Typed(d, made)
    BY <1>1, <2>1, <2>2 DEF Typed, SameRequest, CallsOK
  <2>7. Turn({c}, {d}, {e})
    BY <2>1, <2>4, <2>5, <2>6 DEF Turn, Replaced
  <2> QED
    BY <1>2, <1>4, <2>1, <2>3, <2>4, <2>7, Zenon
<1> QED
  BY <1>3, <1>4, Zenon

LEMMA RefreshSettlesTurns ==
    ASSUME CallsOK(calls, made), NEW c \in calls, RefreshSettles(c)
    PROVE  /\ \A d \in Waiters(c) : d.kind \notin AuthKinds
           /\ \E back : /\ Turn({c} \cup Waiters(c), back, {})
                        /\ \A d \in Waiters(c) : \E e \in back : SameRequest(d, e)
                        /\ \A e \in back :
                              e.answer # "ok" /\ \E d \in Waiters(c) : SameRequest(d, e)
<1>1. \A d \in Waiters(c) : /\ IsExchange(d) /\ d \in calls /\ Typed(d, made) /\ d.runs = 0
                            /\ d.kind \notin NoRetryPaths \cup {"logout"}
  BY DEF CallsOK, Typed, Waiters
<1>2. \A d \in Waiters(c) : d.kind \notin AuthKinds
  BY <1>1 DEF AuthKinds, NoRetryPaths
<1> DEFINE Next1(d) == IF c.answer = "ok" THEN Resumed(d, c.pair) ELSE Refused(d)
           back == {Next1(d) : d \in Waiters(c)}
<1>3. \A d \in Waiters(c) : /\ SameRequest(d, Next1(d)) /\ Next1(d).runs = 0
                            /\ Next1(d).pc # "waiting" /\ Next1(d).answer # "ok"
  BY <1>1, ResumedFields, RefusedFields
<1>4. calls' = (calls \ ({c} \cup Waiters(c))) \cup back /\ UNCHANGED made
  BY DEF RefreshSettles
<1> HIDE DEF Next1
<1>5. \A d \in Waiters(c) : Typed(Next1(d), made)
  <2> SUFFICES ASSUME NEW d \in Waiters(c)
               PROVE  Typed(Next1(d), made)
    OBVIOUS
  <2>1. Next1(d).tab = d.tab /\ Next1(d).id = d.id /\ Next1(d).kind = d.kind
        /\ Next1(d).visit = d.visit /\ IsExchange(Next1(d))
    BY <1>3 DEF SameRequest
  <2> QED
    BY <1>1, <1>3, <2>1 DEF Typed
<1>6. \A d, e \in Waiters(c) : Next1(d).id = Next1(e).id => Next1(d) = Next1(e)
  BY <1>1, <1>3 DEF CallsOK, SameRequest
<1>7. Turn({c} \cup Waiters(c), back, {})
  <2>1. \A e \in back : Typed(e, made) /\ \E d \in {c} \cup Waiters(c) : SameRequest(d, e)
    BY <1>3, <1>5
  <2>2. \A d, e \in back : d.id = e.id => d = e
    BY <1>6
  <2>3. {c} \cup Waiters(c) \subseteq calls /\ made \in Nat
    BY <1>1 DEF CallsOK
  <2> HIDE DEF back
  <2> QED
    BY <1>4, <2>1, <2>2, <2>3 DEF Turn
<1> QED
  BY <1>2, <1>3, <1>7

LEMMA SubmitTurns ==
    ASSUME CallsOK(calls, made), NEW t \in Tab, NEW kind, kind \notin {"load", "write"},
           Submit(t, kind)
    PROVE  \E e : /\ Turn({}, {}, {e}) /\ e.tab = t /\ e.kind = kind /\ e.pc = "sent"
                  /\ e.kind \in {"refresh", "logout"} => e.with = cookie
<1> DEFINE e == Exchange(t, made', kind)
<1>1. /\ IsExchange(e) /\ e.tab = t /\ e.id = made' /\ e.kind = kind
      /\ e.pc = "sent" /\ e.answer = "none" /\ e.runs = 0
      /\ e.kind \in {"refresh", "logout"} => e.with = cookie
  BY ExchangeFields
<1>2. calls' = calls \cup {e} /\ made' = made + 1 /\ made \in Nat
  BY DEF Submit, CallsOK
<1> HIDE DEF e
<1>3. Typed(e, made') /\ e.id > made /\ made' \in Nat /\ made' >= made
  BY <1>1, <1>2, FirstOfItsId
<1>4. Turn({}, {}, {e})
  BY <1>2, <1>3, SomeBegin
<1> QED
  BY <1>1, <1>4, Zenon

LEMMA EndTurns ==
    ASSUME CallsOK(calls, made), NEW c \in calls,
           MountSettles(c) \/ MeSettles(c) \/ LogoutSettles(c)
    PROVE  Turn({c}, {}, {})
<1>1. calls' = Replaced(c, {}) /\ UNCHANGED made /\ made \in Nat
  BY DEF CallsOK, MountSettles, MeSettles, LogoutSettles
<1> QED
  BY <1>1, OneEnds

LEMMA RegisterSettlesTurns ==
    ASSUME CallsOK(calls, made), NEW c \in calls, RegisterSettles(c)
    PROVE  \E new : /\ Turn({c}, {}, new)
                    /\ \A e, f \in new : e = f
                    /\ \A e \in new : e.kind = "login" /\ e.tab = c.tab /\ e.pc = "sent"
<1> DEFINE e == Exchange(c.tab, made', "login")
           new == IF c.answer = "ok" THEN {e} ELSE {}
<1>1. /\ IsExchange(e) /\ e.tab = c.tab /\ e.id = made' /\ e.kind = "login"
      /\ e.pc = "sent" /\ e.answer = "none" /\ e.runs = 0
  BY ExchangeFields
<1>2. calls' = Replaced(c, new) /\ made' = made + 1 /\ made \in Nat /\ c.tab \in Tab
  BY DEF RegisterSettles, CallsOK, Typed
<1> HIDE DEF e
<1>3. Typed(e, made') /\ e.id > made /\ made' \in Nat /\ made' >= made
  BY <1>1, <1>2, FirstOfItsId
<1>4. Turn({c}, {}, new)
  BY <1>2, <1>3, OneEnds, Zenon
<1> QED
  BY <1>1, <1>4

LEMMA LoginSettlesTurns ==
    ASSUME CallsOK(calls, made), NEW c \in calls, LoginSettles(c)
    PROVE  \E new : /\ Turn({c}, {}, new)
                    /\ \A e, f \in new : e = f
                    /\ \A e \in new : e.kind = "me" /\ e.tab = c.tab
<1> DEFINE e == [Exchange(c.tab, made', "me") EXCEPT !.with = c.pair]
           new == IF c.answer = "ok" THEN {e} ELSE {}
<1>1. /\ IsExchange(e) /\ e.tab = c.tab /\ e.id = made' /\ e.kind = "me"
      /\ e.pc = "sent" /\ e.answer = "none" /\ e.runs = 0
  BY Zenon DEF IsExchange, Exchange
<1>2. calls' = Replaced(c, new) /\ made' = made + 1 /\ made \in Nat /\ c.tab \in Tab
  BY DEF LoginSettles, CallsOK, Typed
<1> HIDE DEF e
<1>3. Typed(e, made') /\ e.id > made /\ made' \in Nat /\ made' >= made
  BY <1>1, <1>2, FirstOfItsId
<1>4. Turn({c}, {}, new)
  BY <1>2, <1>3, OneEnds, Zenon
<1> QED
  BY <1>1, <1>4

-----------------------------------------------------------------------------
(* The tables of the pages *)

\* Every page of the book is one of these.
LEMMA BookPages ==
    ASSUME NEW p \in PageNames
    PROVE  \/ Book[p] \in {CandidateDashboard, ApplicationsList, OffersList, ProfilePage, ApplyForm,
                ApplicationDetail, OfferReview, NotificationsList, DocumentsPanel}
           \/ Book[p] \in {OrgDashboard, JobsList, Pipeline, OrgOffers, NewJob, EditJob, JobApplication,
                ScheduleInterview, CreateOffer, Interviewer, PipelineTemplates,
                TalentPools, TalentPoolDetail, Partnerships, GeneralSettings,
                TeamSettings, BillingSettings, ChecklistPanel}
           \/ Book[p] \in {AdminOverview, AdminOrganizations, AdminUniversities, AuditLog, RegisterOrganization,
                AcceptInvitation, ResetPassword, ForgotPassword, VerifyEmail, Login}
  BY DEF PageNames, Book

\* GETs are lists.
LEMMA GetsListed == \A p \in PageNames : Listed(Book[p].gets)
<1>1. \A P \in {CandidateDashboard, ApplicationsList, OffersList, ProfilePage, ApplyForm,
                ApplicationDetail, OfferReview, NotificationsList, DocumentsPanel} :
        Listed(P.gets)
  BY DEF Listed, CandidateDashboard, ApplicationsList, OffersList, MyProfile, AboutForm,
         HandleUpload, CvButtons, ExperienceEditor, EducationEditor, SkillsEditor, ProfilePage,
         ApplyForm, ApplicationDetail, OfferReview, NotificationsList, DocumentsPanel,
         SessionPage, Page, Write
<1>2. \A P \in {OrgDashboard, JobsList, Pipeline, OrgOffers, NewJob, EditJob, JobApplication,
                ScheduleInterview, CreateOffer, Interviewer, PipelineTemplates,
                TalentPools, TalentPoolDetail, Partnerships, GeneralSettings,
                TeamSettings, BillingSettings, ChecklistPanel} :
        Listed(P.gets)
  BY DEF Listed, OrgDashboard, JobsList, Pipeline, OrgOffers, NewJob, SaveJob, SaveStages,
         Lifecycle, EditJob, Acting, ScreeningButtons, DecisionButtons, AddToTalentPool,
         JobApplication, ScheduleInterview, CreateOffer, Interviewer, PipelineTemplates,
         TalentPools, TalentPoolDetail, BothPartnershipGets, Partnerships, GeneralSettings,
         Invite, ConfirmAction, TeamSettings, BillingSettings, ChecklistPanel, OrgPage, Page,
         Write
<1>3. \A P \in {AdminOverview, AdminOrganizations, AdminUniversities, AuditLog, RegisterOrganization,
                AcceptInvitation, ResetPassword, ForgotPassword, VerifyEmail, Login} :
        Listed(P.gets)
  BY DEF Listed, AdminOverview, Decisions, AdminOrganizations, AdminUniversities, AuditLog,
         OneForm, RegisterOrganization, AcceptInvitation, ResetPassword, ForgotPassword,
         VerifyEmail, Login, SessionPage, Page, Write
<1> QED
  BY <1>1, <1>2, <1>3, BookPages

LEMMA ReloadsListed == \A p \in PageNames : \A w \in Book[p].writes : Listed(w.reloads)
<1>1. \A P \in {CandidateDashboard, ApplicationsList, OffersList, ProfilePage, ApplyForm,
                ApplicationDetail, OfferReview, NotificationsList, DocumentsPanel} :
        \A w \in P.writes : Listed(w.reloads)
  BY DEF Listed, CandidateDashboard, ApplicationsList, OffersList, MyProfile, AboutForm,
         HandleUpload, CvButtons, ExperienceEditor, EducationEditor, SkillsEditor, ProfilePage,
         ApplyForm, ApplicationDetail, OfferReview, NotificationsList, DocumentsPanel,
         SessionPage, Page, Write
<1>2. \A P \in {OrgDashboard, JobsList, Pipeline, OrgOffers, NewJob, EditJob, JobApplication,
                ScheduleInterview, CreateOffer} :
        \A w \in P.writes : Listed(w.reloads)
  BY DEF Listed, OrgDashboard, JobsList, Pipeline, OrgOffers, NewJob, SaveJob, SaveStages,
         Lifecycle, EditJob, Acting, ScreeningButtons, DecisionButtons, AddToTalentPool,
         JobApplication, ScheduleInterview, CreateOffer, OrgPage, Page, Write
<1>3. \A P \in {Interviewer, PipelineTemplates, TalentPools, TalentPoolDetail, Partnerships,
                GeneralSettings, TeamSettings, BillingSettings, ChecklistPanel} :
        \A w \in P.writes : Listed(w.reloads)
  BY DEF Listed, Acting, Interviewer, PipelineTemplates, TalentPools, TalentPoolDetail,
         BothPartnershipGets, Partnerships, GeneralSettings, Invite, ConfirmAction,
         TeamSettings, BillingSettings, ChecklistPanel, OrgPage, Page, Write
<1>4. \A P \in {AdminOverview, AdminOrganizations, AdminUniversities, AuditLog, RegisterOrganization,
                AcceptInvitation, ResetPassword, ForgotPassword, VerifyEmail, Login} :
        \A w \in P.writes : Listed(w.reloads)
  BY DEF Listed, AdminOverview, Decisions, AdminOrganizations, AdminUniversities, AuditLog,
         OneForm, RegisterOrganization, AcceptInvitation, ResetPassword, ForgotPassword,
         VerifyEmail, Login, SessionPage, Page, Write
<1> QED
  BY <1>1, <1>2, <1>3, <1>4, BookPages

(* Locks: the state that disables a button is one value, but on the billing page. *)

All(name) == {<<name, "all">>}

\* The handlers of a page that share a lock, or have none.
LocksAre(P) ==
    \A w \in P.writes : /\ \A l \in w.lock : l = <<l[1], "all">>
                        /\ \A v \in P.writes : v.op = w.op => v.lock = w.lock

LEMMA ProfileLocks == LocksAre(ProfilePage)
<1>1. ProfilePage.writes = CvButtons \cup SkillsEditor
                     \cup {AboutForm, HandleUpload, ExperienceEditor, EducationEditor}
  BY DEF ProfilePage, SessionPage, Page
<1>2. \A w \in CvButtons : w.lock = {} /\ w.op \in {"setPrimary", "deleteCv"}
  BY DEF CvButtons, Write
<1>3. \A w \in SkillsEditor : w.lock = {} /\ w.op \in {"addSkill", "removeSkill"}
  <2> DEFINE Add == [Write("addSkill", {"skills"}) EXCEPT
                       !.shows = {"skills"}, !.form = {"newSkill"}, !.after = "given"]
             Remove == [Write("removeSkill", {"skills"}) EXCEPT !.shows = {"skills"}]
  <2>1. SkillsEditor = {Add, Remove}
    BY DEF SkillsEditor
  <2>2. Add.lock = {} /\ Add.op = "addSkill"
    BY DEF Write
  <2>3. Remove.lock = {} /\ Remove.op = "removeSkill"
    BY DEF Write
  <2> HIDE DEF Add, Remove
  <2> QED
    BY <2>1, <2>2, <2>3
<1>4. /\ AboutForm.lock = All("savingAbout") /\ AboutForm.op = "saveAbout"
      /\ HandleUpload.lock = All("uploading") /\ HandleUpload.op = "handleUpload"
      /\ ExperienceEditor.lock = All("savingExperience")
      /\ ExperienceEditor.op = "updateExperience"
      /\ EducationEditor.lock = All("savingEducation")
      /\ EducationEditor.op = "updateEducation"
  BY DEF All, AboutForm, HandleUpload, ExperienceEditor, EducationEditor, Write
<1>5. \A w \in ProfilePage.writes :
        w.lock = IF w.op = "saveAbout" THEN All("savingAbout")
                 ELSE IF w.op = "handleUpload" THEN All("uploading")
                 ELSE IF w.op = "updateExperience" THEN All("savingExperience")
                 ELSE IF w.op = "updateEducation" THEN All("savingEducation") ELSE {}
  BY <1>1, <1>2, <1>3, <1>4
<1>6. \A name : \A l \in All(name) : l = <<l[1], "all">>
  BY DEF All
<1>7. \A w \in ProfilePage.writes : \A l \in w.lock : l = <<l[1], "all">>
  BY <1>5, <1>6
<1>8. \A v, w \in ProfilePage.writes : v.op = w.op => v.lock = w.lock
  BY <1>5
<1> QED
  BY <1>7, <1>8 DEF LocksAre

LEMMA LocksOfPages == \A p \in PageNames \ {"billing"} : LocksAre(Book[p])
<1>1. \A name : \A l \in All(name) : l = <<l[1], "all">>
  BY DEF All
<1>2. LocksAre(ApplyForm)
  <2>1. \A w \in ApplyForm.writes : w.lock = All("submitting")
    BY Zenon DEF All, ApplyForm, SessionPage, Page, Write
  <2> QED
    BY <1>1, <2>1 DEF LocksAre
<1>3. LocksAre(ApplicationDetail)
  <2>1. \A w \in ApplicationDetail.writes : w.lock = All("withdrawing")
    BY Zenon DEF All, ApplicationDetail, SessionPage, Page, Write
  <2> QED
    BY <1>1, <2>1 DEF LocksAre
<1>4. LocksAre(OfferReview)
  <2>1. \A w \in OfferReview.writes : w.lock = All("submitting")
    BY Zenon DEF All, OfferReview, SessionPage, Page, Write
  <2> QED
    BY <1>1, <2>1 DEF LocksAre
<1>5. LocksAre(NotificationsList)
  <2>1. \A w \in NotificationsList.writes : w.lock = {}
    BY DEF NotificationsList, SessionPage, Page, Write
  <2> QED
    BY <1>1, <2>1, Zenon DEF LocksAre
<1>6. LocksAre(DocumentsPanel)
  <2>1. \A w \in DocumentsPanel.writes : w.lock = {}
    BY Zenon DEF DocumentsPanel, SessionPage, Page, Write
  <2> QED
    BY <1>1, <2>1 DEF LocksAre
<1>7. LocksAre(NewJob)
  <2>1. \A w \in NewJob.writes : w.lock = All("submitting")
    BY Zenon DEF All, NewJob, OrgPage, Page, Write
  <2> QED
    BY <1>1, <2>1 DEF LocksAre
<1>8. LocksAre(EditJob)
  <2>1. \A w \in EditJob.writes :
          w.lock = IF w.op = "saveJob" THEN All("savingJob")
              ELSE IF w.op = "saveStages" THEN All("savingStages")
              ELSE {}
    BY ZenonT(40) DEF All, SaveJob, SaveStages, Lifecycle, EditJob, OrgPage, Page, Write
  <2> QED
    BY <1>1, <2>1 DEF LocksAre
<1>9. LocksAre(JobApplication)
  <2>1. \A w \in JobApplication.writes :
          w.lock = IF w.op = "addToPool" THEN All("adding")
              ELSE All("acting")
    BY ZenonT(40) DEF All, Acting, ScreeningButtons, DecisionButtons, AddToTalentPool, JobApplication,
           OrgPage, Page, Write
  <2> QED
    BY <1>1, <2>1 DEF LocksAre
<1>10. LocksAre(ScheduleInterview)
  <2>1. \A w \in ScheduleInterview.writes : w.lock = All("submitting")
    BY Zenon DEF All, ScheduleInterview, OrgPage, Page, Write
  <2> QED
    BY <1>1, <2>1 DEF LocksAre
<1>11. LocksAre(CreateOffer)
  <2>1. \A w \in CreateOffer.writes : w.lock = All("submitting")
    BY Zenon DEF All, CreateOffer, OrgPage, Page, Write
  <2> QED
    BY <1>1, <2>1 DEF LocksAre
<1>12. LocksAre(Interviewer)
  <2>1. \A w \in Interviewer.writes : w.lock = All("submitting")
    BY Zenon DEF All, Interviewer, OrgPage, Page, Write
  <2> QED
    BY <1>1, <2>1 DEF LocksAre
<1>13. LocksAre(PipelineTemplates)
  <2>1. \A w \in PipelineTemplates.writes :
          w.lock = IF w.op = "createTemplate" THEN All("creating")
              ELSE {}
    BY Zenon DEF All, PipelineTemplates, OrgPage, Page, Write
  <2> QED
    BY <1>1, <2>1 DEF LocksAre
<1>14. LocksAre(TalentPools)
  <2>1. \A w \in TalentPools.writes : w.lock = All("creating")
    BY Zenon DEF All, TalentPools, OrgPage, Page, Write
  <2> QED
    BY <1>1, <2>1 DEF LocksAre
<1>15. LocksAre(TalentPoolDetail)
  <2>1. \A w \in TalentPoolDetail.writes : w.lock = {}
    BY DEF TalentPoolDetail, OrgPage, Page, Write
  <2> QED
    BY <1>1, <2>1 DEF LocksAre
<1>16. LocksAre(Partnerships)
  <2>1. \A w \in Partnerships.writes :
          w.lock = IF w.op = "addPartnership" THEN All("adding")
              ELSE {}
    BY Zenon DEF All, BothPartnershipGets, Partnerships, OrgPage, Page, Write
  <2> QED
    BY <1>1, <2>1 DEF LocksAre
<1>17. LocksAre(GeneralSettings)
  <2>1. \A w \in GeneralSettings.writes : w.lock = All("saving")
    BY Zenon DEF All, GeneralSettings, OrgPage, Page, Write
  <2> QED
    BY <1>1, <2>1 DEF LocksAre
<1>18. LocksAre(TeamSettings)
  <2>1. \A w \in TeamSettings.writes :
          w.lock = IF w.op = "invite" THEN All("inviting")
              ELSE All("acting")
    BY Zenon DEF All, Acting, Invite, ConfirmAction, TeamSettings, OrgPage, Page, Write
  <2> QED
    BY <1>1, <2>1 DEF LocksAre
<1>19. LocksAre(ChecklistPanel)
  <2>1. \A w \in ChecklistPanel.writes :
          w.lock = IF w.op = "createChecklist" THEN All("creating")
              ELSE {}
    BY Zenon DEF All, ChecklistPanel, OrgPage, Page, Write
  <2> QED
    BY <1>1, <2>1 DEF LocksAre
<1>20. LocksAre(AdminOrganizations)
  <2>1. \A w \in AdminOrganizations.writes : w.lock = All("acting")
    BY Zenon DEF All, Decisions, AdminOrganizations, SessionPage, Page, Write
  <2> QED
    BY <1>1, <2>1 DEF LocksAre
<1>21. LocksAre(AdminUniversities)
  <2>1. \A w \in AdminUniversities.writes : w.lock = All("creating")
    BY Zenon DEF All, AdminUniversities, SessionPage, Page, Write
  <2> QED
    BY <1>1, <2>1 DEF LocksAre
<1>22. LocksAre(RegisterOrganization)
  <2>1. \A w \in RegisterOrganization.writes : w.lock = All("submitting")
    BY Zenon DEF All, OneForm, RegisterOrganization, Page, Write
  <2> QED
    BY <1>1, <2>1 DEF LocksAre
<1>23. LocksAre(AcceptInvitation)
  <2>1. \A w \in AcceptInvitation.writes : w.lock = All("submitting")
    BY Zenon DEF All, OneForm, AcceptInvitation, Page, Write
  <2> QED
    BY <1>1, <2>1 DEF LocksAre
<1>24. LocksAre(ResetPassword)
  <2>1. \A w \in ResetPassword.writes : w.lock = All("submitting")
    BY Zenon DEF All, OneForm, ResetPassword, Page, Write
  <2> QED
    BY <1>1, <2>1 DEF LocksAre
<1>25. LocksAre(ForgotPassword)
  <2>1. \A w \in ForgotPassword.writes : w.lock = All("submitting")
    BY Zenon DEF All, OneForm, ForgotPassword, Page, Write
  <2> QED
    BY <1>1, <2>1 DEF LocksAre
<1>26. LocksAre(CandidateDashboard)
  BY DEF LocksAre, CandidateDashboard, SessionPage, Page
<1>27. LocksAre(ApplicationsList)
  BY DEF LocksAre, ApplicationsList, SessionPage, Page
<1>28. LocksAre(OffersList)
  BY DEF LocksAre, OffersList, SessionPage, Page
<1>29. LocksAre(OrgDashboard)
  BY DEF LocksAre, OrgDashboard, OrgPage, Page
<1>30. LocksAre(JobsList)
  BY DEF LocksAre, JobsList, OrgPage, Page
<1>31. LocksAre(Pipeline)
  BY DEF LocksAre, Pipeline, OrgPage, Page
<1>32. LocksAre(OrgOffers)
  BY DEF LocksAre, OrgOffers, OrgPage, Page
<1>33. LocksAre(AdminOverview)
  BY DEF LocksAre, AdminOverview, SessionPage, Page
<1>34. LocksAre(AuditLog)
  BY DEF LocksAre, AuditLog, SessionPage, Page
<1>35. LocksAre(VerifyEmail)
  BY DEF LocksAre, VerifyEmail, Page
<1>36. LocksAre(Login)
  BY DEF LocksAre, Login, Page
<1> QED
  BY <1>2, <1>3, <1>4, <1>5, <1>6, <1>7, <1>8, <1>9, <1>10, <1>11, <1>12, <1>13, <1>14, <1>15,
     <1>16, <1>17, <1>18, <1>19, <1>20, <1>21, <1>22, <1>23, <1>24, <1>25, <1>26, <1>27, <1>28,
     <1>29, <1>30, <1>31, <1>32, <1>33, <1>34, <1>35, <1>36, ProfileLocks DEF PageNames, Book
-----------------------------------------------------------------------------
(* The state of the tabs *)

IsView(v) ==
    v \in [page : {v.page}, visit : {v.visit}, stage : {v.stage}, key : {v.key},
           shown : {v.shown}, locks : {v.locks}, text : {v.text}, wrote : {v.wrote},
           missed : {v.missed}]

ViewsOK ==
    /\ view = [t \in Tab |-> view[t]]
    /\ \A t \in Tab : /\ IsView(view[t])
                      /\ view[t].page \in PageNames /\ view[t].visit \in 0 .. made

\* A request of a page was sent by the mount of the page that it names.
Sent(c) ==
    c.kind \in {"load", "write"} =>
        /\ c.page \in PageNames
        /\ c.visit = view[c.tab].visit => c.page = view[c.tab].page
        /\ c.kind = "write" => \E w \in Book[c.page].writes : w.op = c.op

IInv ==
    /\ CallsOK(calls, made)
    /\ ViewsOK
    /\ \A c \in calls : Sent(c)

LEMMA BlankFields ==
    ASSUME NEW p, NEW visit
    PROVE  /\ IsView(Blank(p, visit))
           /\ Blank(p, visit).page = p /\ Blank(p, visit).visit = visit
           /\ Blank(p, visit).stage = "closed" /\ Blank(p, visit).locks = {}
  BY DEF IsView, Blank

\* The tab shows the mount it showed before.
SameMount(v, w) == IsView(w) /\ w.page = v.page /\ w.visit = v.visit

ViewsMove ==
    /\ view' = [t \in Tab |-> view'[t]]
    /\ \A t \in Tab : \/ SameMount(view[t], view'[t])
                      \/ \E p \in PageNames : view'[t] = Blank(p, made)

LEMMA ViewsMoved ==
    ASSUME IInv, ViewsMove, made' \in Nat, made' >= made
    PROVE  ViewsOK'
<1> SUFFICES ASSUME NEW t \in Tab
             PROVE  /\ IsView(view'[t])
                    /\ view'[t].page \in PageNames /\ view'[t].visit \in 0 .. made'
  BY DEF ViewsOK, ViewsMove
<1>1. made \in Nat /\ view[t].page \in PageNames /\ view[t].visit \in 0 .. made
  BY DEF IInv, CallsOK, ViewsOK
<1>2. CASE SameMount(view[t], view'[t])
  BY <1>1, <1>2 DEF SameMount
<1>3. CASE \E p \in PageNames : view'[t] = Blank(p, made)
  BY <1>1, <1>3, BlankFields
<1> QED
  BY <1>2, <1>3 DEF ViewsMove

\* What was sent stays so, whatever becomes of the tabs.
LEMMA SentStays ==
    ASSUME IInv, ViewsMove, NEW c \in calls, NEW d, SameRequest(c, d)
    PROVE  Sent(d)'
<1>1. /\ d.kind = c.kind /\ d.tab = c.tab /\ d.page = c.page /\ d.visit = c.visit
      /\ d.op = c.op /\ c.tab \in Tab /\ Sent(c) /\ Typed(c, made) /\ made \in Nat
  BY DEF IInv, CallsOK, SameRequest, Typed
<1> SUFFICES ASSUME c.kind \in {"load", "write"}, c.visit = view'[c.tab].visit
             PROVE  c.page = view'[c.tab].page
  BY <1>1 DEF Sent
<1>2. c.visit \in Nat /\ c.visit < made
  BY <1>1 DEF Typed
<1>3. CASE SameMount(view[c.tab], view'[c.tab])
  BY <1>1, <1>3 DEF Sent, SameMount
<1>4. CASE \E p \in PageNames : view'[c.tab] = Blank(p, made)
  BY <1>1, <1>2, <1>4, BlankFields
<1> QED
  BY <1>1, <1>3, <1>4 DEF ViewsMove

LEMMA TurnKeepsIInv ==
    ASSUME IInv, ViewsMove, NEW gone, NEW back, NEW new, Turn(gone, back, new),
           \A d \in new : Sent(d)'
    PROVE  IInv'
<1>1. CallsOK(calls', made')
  BY TurnKeepsCalls DEF IInv
<1>2. \A c \in calls : SameRequest(c, c)
  BY DEF IInv, CallsOK, Typed, SameRequest
<1>3. \A d \in calls' : Sent(d)'
  BY <1>2, SentStays DEF Turn
<1>4. ViewsOK'
  BY ViewsMoved DEF Turn
<1> QED
  BY <1>1, <1>3, <1>4 DEF IInv

LEMMA ViewsStay ==
    ASSUME IInv, UNCHANGED view
    PROVE  ViewsMove
  BY DEF IInv, ViewsOK, ViewsMove, SameMount

-----------------------------------------------------------------------------
(* The steps of the pages: what they do to the tabs and to the exchanges *)

SameLocks(v, w) == w.locks = v.locks /\ (w.stage = "left" <=> v.stage = "left")

LocksMove ==
    /\ view' = [t \in Tab |-> view'[t]]
    /\ \A t \in Tab : \/ SameMount(view[t], view'[t]) /\ SameLocks(view[t], view'[t])
                      \/ \E p \in PageNames : view'[t] = Blank(p, made)

LEMMA LocksMoveViews ==
    ASSUME LocksMove
    PROVE  ViewsMove
  BY DEF LocksMove, ViewsMove

\* One tab's view becomes v.
Becomes(t, v) ==
    /\ view' = [u \in Tab |-> view'[u]]
    /\ view'[t] = v
    /\ \A u \in Tab \ {t} : view'[u] = view[u]

LEMMA TabMoves ==
    ASSUME IInv, NEW t \in Tab, NEW v, Becomes(t, v),
           \/ SameMount(view[t], v) /\ SameLocks(view[t], v)
           \/ \E p \in PageNames : v = Blank(p, made)
    PROVE  LocksMove /\ ViewsMove
<1>1. \A u \in Tab : SameMount(view[u], view[u]) /\ SameLocks(view[u], view[u])
  BY DEF IInv, ViewsOK, SameMount, SameLocks
<1>2. LocksMove
  BY <1>1 DEF Becomes, LocksMove
<1> QED
  BY <1>2, LocksMoveViews

LEMMA ViewsStand ==
    ASSUME IInv, UNCHANGED view
    PROVE  LocksMove /\ ViewsMove
  BY ViewsStay DEF IInv, ViewsOK, LocksMove, SameMount, SameLocks

\* A step of this kind neither sends nor ends a request of AuthProvider, and starts and
\* ends no handler.
PageStep == IInv' /\ LocksMove /\ WritesStay /\ OtherCalls' = OtherCalls

LEMMA TypeSteps ==
    ASSUME IInv, NEW t \in Tab, NEW f, Type(t, f)
    PROVE  PageStep
<1> DEFINE v == [view[t] EXCEPT !.text = [@ EXCEPT ![f] = typed']]
<1>1. IsView(view[t]) /\ view = [u \in Tab |-> view[u]] /\ made \in Nat
  BY DEF IInv, ViewsOK, CallsOK
<1>2. Becomes(t, v)
  BY <1>1 DEF Type, Becomes
<1>3. SameMount(view[t], v) /\ SameLocks(view[t], v)
  BY <1>1 DEF SameMount, SameLocks, IsView
<1>4. LocksMove /\ ViewsMove
  BY <1>2, <1>3, TabMoves
<1>5. UNCHANGED <<calls, made>>
  BY DEF Type, clientVars
<1>6. Turn({}, {}, {})
  BY <1>1, <1>5 DEF Turn
<1> QED
  BY <1>4, <1>5, <1>6, TurnKeepsIInv, TurnKeepsWrites DEF PageStep, OtherCalls, IInv

LEMMA RedirectSteps ==
    ASSUME IInv, NEW t \in Tab, Redirect(t)
    PROVE  PageStep
<1>1. view = [u \in Tab |-> view[u]] /\ made \in Nat
  BY DEF IInv, ViewsOK, CallsOK
<1>2. Becomes(t, Blank("login", made))
  BY <1>1 DEF Redirect, Becomes
<1>3. "login" \in PageNames
  BY DEF PageNames, Book
<1>4. LocksMove /\ ViewsMove
  BY <1>2, <1>3, TabMoves
<1>5. UNCHANGED <<calls, made>>
  BY DEF Redirect, clientVars
<1>6. Turn({}, {}, {})
  BY <1>1, <1>5 DEF Turn
<1> QED
  BY <1>4, <1>5, <1>6, TurnKeepsIInv, TurnKeepsWrites DEF PageStep, OtherCalls, IInv

\* GETs sent by the mount a tab shows.
LEMMA LoadsAreSent ==
    ASSUME IInv, NEW t \in Tab, NEW v, Becomes(t, v), SameMount(view[t], v),
           NEW gets, Listed(gets), NEW k, NEW p \in PageNames, NEW visit \in 0 .. made,
           visit = view[t].visit => p = view[t].page
    PROVE  \A d \in Loads(t, p, visit, gets, k) : Sent(d)' /\ d.kind = "load"
<1>1. \A d \in Loads(t, p, visit, gets, k) :
         d.kind = "load" /\ d.tab = t /\ d.page = p /\ d.visit = visit
  BY LoadsFields DEF IInv, CallsOK
<1> QED
  BY <1>1 DEF Sent, Becomes, SameMount

LEMMA FrameGetsListed == \A p : Listed(FrameGets(p))
<1>1. Listed(<<{"organization"}>>)
  BY DEF Listed
<1>2. Listed(<<>>)
  BY DEF Listed
<1> QED
  BY <1>1, <1>2 DEF FrameGets

LEMMA EnterSteps ==
    ASSUME IInv, NEW t \in Tab, Enter(t)
    PROVE  PageStep
<1> DEFINE p == view[t].page
           framed == Book[p].layout = "org"
           gets == IF framed THEN FrameGets(p) ELSE Book[p].gets
           new == Loads(t, p, view[t].visit, gets, 1)
           v == [view[t] EXCEPT !.stage = IF framed THEN "framed" ELSE "open"]
<1>1. /\ IsView(view[t]) /\ view = [u \in Tab |-> view[u]] /\ made \in Nat
      /\ p \in PageNames /\ view[t].visit \in 0 .. made
  BY DEF IInv, ViewsOK, CallsOK
<1>2. Becomes(t, v)
  BY <1>1 DEF Enter, Becomes
<1>3. SameMount(view[t], v) /\ SameLocks(view[t], v)
  BY <1>1 DEF SameMount, SameLocks, IsView, Enter
<1>4. Listed(gets)
  BY <1>1, GetsListed, FrameGetsListed
<1>5. calls' = calls \cup new /\ made' = made + Len(gets)
  BY DEF Enter
<1>6. view[t].visit = view[t].visit => p = view[t].page
  OBVIOUS
<1> HIDE DEF v, p, gets
<1>7. LocksMove /\ ViewsMove
  BY <1>2, <1>3, TabMoves
<1>8. \A d \in new : Sent(d)' /\ d.kind = "load"
  BY <1>1, <1>2, <1>3, <1>4, <1>6, LoadsAreSent, LoadsFields
<1>9. Turn({}, {}, new)
  BY <1>1, <1>4, <1>5, LoadsFields, SomeBegin DEF IInv, Listed
<1> QED
  BY <1>7, <1>8, <1>9, TurnKeepsIInv, TurnKeepsWrites, TurnKeepsOthers DEF PageStep, IInv

LEMMA ChooseSteps ==
    ASSUME IInv, NEW t \in Tab, Choose(t)
    PROVE  PageStep
<1> DEFINE p == view[t].page
           gets == Book[p].gets
           k == 3 - view[t].key
           new == Loads(t, p, view[t].visit, gets, k)
           v == [view[t] EXCEPT !.key = k]
<1>1. /\ IsView(view[t]) /\ view = [u \in Tab |-> view[u]] /\ made \in Nat
      /\ p \in PageNames /\ view[t].visit \in 0 .. made
  BY DEF IInv, ViewsOK, CallsOK
<1>2. Becomes(t, v)
  BY <1>1 DEF Choose, Becomes
<1>3. SameMount(view[t], v) /\ SameLocks(view[t], v)
  BY <1>1 DEF SameMount, SameLocks, IsView
<1>4. Listed(gets)
  BY <1>1, GetsListed
<1>5. calls' = calls \cup new /\ made' = made + Len(gets)
  BY DEF Choose
<1>6. view[t].visit = view[t].visit => p = view[t].page
  OBVIOUS
<1> HIDE DEF v, p, gets, k
<1>7. LocksMove /\ ViewsMove
  BY <1>2, <1>3, TabMoves
<1>8. \A d \in new : Sent(d)' /\ d.kind = "load"
  BY <1>1, <1>2, <1>3, <1>4, <1>6, LoadsAreSent, LoadsFields
<1>9. Turn({}, {}, new)
  BY <1>1, <1>4, <1>5, LoadsFields, SomeBegin DEF IInv, Listed
<1> QED
  BY <1>7, <1>8, <1>9, TurnKeepsIInv, TurnKeepsWrites, TurnKeepsOthers DEF PageStep, IInv

LEMMA LoadSettlesSteps ==
    ASSUME IInv, NEW c \in calls, LoadSettles(c)
    PROVE  PageStep
<1> DEFINE t == c.tab
<1>1. /\ t \in Tab /\ IsView(view[t]) /\ view = [u \in Tab |-> view[u]] /\ made \in Nat
      /\ c.kind = "load"
  BY DEF IInv, ViewsOK, CallsOK, Typed, LoadSettles
<1>2. calls' = Replaced(c, {}) /\ UNCHANGED made
  BY DEF LoadSettles
<1>3. Turn({c}, {}, {})
  BY <1>1, <1>2, OneEnds DEF IInv
<1>4. LocksMove /\ ViewsMove
  <2>1. CASE UNCHANGED view
    BY <2>1, ViewsStand
  <2>2. CASE \E shown, text :
               view' = [view EXCEPT ![t].shown = shown, ![t].text = text]
    <3>1. PICK shown, text : view' = [view EXCEPT ![t].shown = shown, ![t].text = text]
      BY <2>2, Zenon
    <3> DEFINE v == [view[t] EXCEPT !.shown = shown, !.text = text]
    <3>2. Becomes(t, v)
      BY <1>1, <3>1, Zenon DEF Becomes
    <3>3. SameMount(view[t], v) /\ SameLocks(view[t], v)
      BY <1>1, Zenon DEF SameMount, SameLocks, IsView
    <3> QED
      BY <1>1, <3>2, <3>3, TabMoves
  <2>3. CASE \E missed : view' = [view EXCEPT ![t].missed = missed]
    <3>1. PICK missed : view' = [view EXCEPT ![t].missed = missed]
      BY <2>3, Zenon
    <3> DEFINE v == [view[t] EXCEPT !.missed = missed]
    <3>2. Becomes(t, v)
      BY <1>1, <3>1 DEF Becomes
    <3>3. SameMount(view[t], v) /\ SameLocks(view[t], v)
      BY <1>1 DEF SameMount, SameLocks, IsView
    <3> QED
      BY <1>1, <3>2, <3>3, TabMoves
  <2> QED
    BY <2>1, <2>2, <2>3, Zenon DEF LoadSettles
<1> QED
  BY <1>1, <1>3, <1>4, TurnKeepsIInv, TurnKeepsWrites, TurnKeepsOthers
     DEF PageStep, IInv

LEMMA FrameSettlesSteps ==
    ASSUME IInv, NEW c \in calls, FrameSettles(c)
    PROVE  PageStep
<1> DEFINE t == c.tab
           gets == Book[c.page].gets
           new == Loads(t, c.page, c.visit, gets, 1)
<1>1. /\ t \in Tab /\ IsView(view[t]) /\ view = [u \in Tab |-> view[u]] /\ made \in Nat
      /\ c.kind = "load" /\ c.page = view[t].page /\ c.visit = view[t].visit
      /\ view[t].stage = "framed" /\ c.visit \in 0 .. made /\ c.page \in PageNames
  BY Zenon DEF IInv, ViewsOK, CallsOK, Typed, FrameSettles, Sent, Here
<1>2. PICK shown, missed, stage :
        /\ view' = [[view EXCEPT ![t].shown = shown, ![t].missed = missed]
                       EXCEPT ![t].stage = stage]
        /\ stage # "left"
        /\ \/ calls' = Replaced(c, new) /\ made' = made + Len(gets)
           \/ calls' = Replaced(c, {}) /\ UNCHANGED made
  <2> DEFINE shown == IF c.answer = "ok"
                      THEN [view[t].shown EXCEPT !["organization"] =
                              [version |-> c.data["organization"], key |-> 1]]
                      ELSE view[t].shown
             missed == IF c.answer = "ok" THEN view[t].missed ELSE c.get
  <2>1. \/ /\ view' = [[view EXCEPT ![t].shown = shown, ![t].missed = missed]
                         EXCEPT ![t].stage = "open"]
           /\ calls' = Replaced(c, new) /\ made' = made + Len(gets)
        \/ /\ view' = [[view EXCEPT ![t].shown = shown, ![t].missed = missed]
                         EXCEPT ![t].stage = "gated"]
           /\ calls' = Replaced(c, {}) /\ UNCHANGED made
    BY DEF FrameSettles
  <2> HIDE DEF shown, missed
  <2> QED
    BY <2>1, Zenon
<1> DEFINE v == [view[t] EXCEPT !.shown = shown, !.missed = missed, !.stage = stage]
<1>3. Becomes(t, v)
  BY <1>1, <1>2, Zenon DEF Becomes
<1>4. SameMount(view[t], v) /\ SameLocks(view[t], v)
  BY <1>1, <1>2, Zenon DEF SameMount, SameLocks, IsView
<1>5. Listed(gets)
  BY <1>1, GetsListed
<1> HIDE DEF v, gets
<1>6. LocksMove /\ ViewsMove
  BY <1>1, <1>3, <1>4, TabMoves
<1>7. \A d \in new : Sent(d)' /\ d.kind = "load"
  BY <1>1, <1>3, <1>4, <1>5, LoadsAreSent, LoadsFields
<1>8. CASE calls' = Replaced(c, new) /\ made' = made + Len(gets)
  <2>1. Turn({c}, {}, new)
    BY <1>1, <1>5, <1>8, LoadsFields, OneEnds DEF IInv, Listed
  <2> QED
    BY <1>1, <1>6, <1>7, <2>1, TurnKeepsIInv, TurnKeepsWrites, TurnKeepsOthers
       DEF PageStep, IInv
<1>9. CASE calls' = Replaced(c, {}) /\ UNCHANGED made
  <2>1. Turn({c}, {}, {})
    BY <1>1, <1>9, OneEnds DEF IInv
  <2> QED
    BY <1>1, <1>6, <2>1, TurnKeepsIInv, TurnKeepsWrites, TurnKeepsOthers
       DEF PageStep, IInv
<1> QED
  BY <1>2, <1>8, <1>9

\* The answer to a request of a page.
LEMMA PageAnswerSteps ==
    ASSUME IInv, NEW c \in calls, ServeLoad(c) \/ ServeWrite(c)
    PROVE  PageStep
<1>1. UNCHANGED <<made, view>> /\ c.kind \in {"load", "write"}
  BY Zenon DEF ServeLoad, ServeWrite, pageVars
<1>2. PICK d : Turn({c}, {d}, {}) /\ SameRequest(c, d)
  BY <1>1, AnswerTurns, Zenon DEF IInv
<1>3. LocksMove /\ ViewsMove
  BY <1>1, ViewsStand
<1> QED
  BY <1>1, <1>2, <1>3, TurnKeepsIInv, TurnKeepsWrites, TurnKeepsOthers DEF PageStep, IInv

-----------------------------------------------------------------------------
(* Locks follow the handlers in flight *)

LocksOK(t) ==
    view[t].page # "billing" =>
        /\ view[t].stage # "left" =>
              \A l : l \in view[t].locks <=> \E c \in Writes(t) : l \in LocksOf(c)
        /\ \A c, d \in Writes(t) : c # d => LocksOf(c) \cap LocksOf(d) = {}

LocksInv == \A t \in Tab : LocksOK(t)

\* Two moments of one request have the same locks.
LEMMA LocksOfSame ==
    ASSUME NEW c, NEW d, SameRequest(c, d)
    PROVE  LocksOf(d) = LocksOf(c)
  BY DEF LocksOf, Ops, SameRequest

LEMMA LocksKept ==
    ASSUME IInv, LocksInv, IInv', LocksMove, WritesStay
    PROVE  LocksInv'
<1> SUFFICES ASSUME NEW t \in Tab, view'[t].page # "billing"
             PROVE  /\ view'[t].stage # "left" =>
                          \A l : l \in view'[t].locks <=>
                                    \E c \in Writes(t)' : l \in LocksOf(c)
                    /\ \A c, d \in Writes(t)' : c # d => LocksOf(c) \cap LocksOf(d) = {}
  BY DEF LocksInv, LocksOK, LocksOf, Ops
<1>1. \A c \in calls : Typed(c, made) /\ made \in Nat
  BY DEF IInv, CallsOK
<1>2. \A d \in Writes(t)' : d \in calls' /\ d.kind = "write" /\ d.tab = t
                            /\ view'[t].visit = d.visit /\ view'[t].stage # "left"
  BY DEF Writes, Here
<1>3. CASE \E p \in PageNames : view'[t] = Blank(p, made)
  <2>1. view'[t].locks = {} /\ view'[t].visit = made
    BY <1>3, BlankFields
  <2>2. \A d \in calls' : d.kind = "write" => d.visit # made
    BY <1>1 DEF WritesStay, SameRequest, Typed
  <2>3. Writes(t)' = {}
    BY <1>2, <2>1, <2>2
  <2> QED
    BY <2>1, <2>3
<1>4. CASE SameMount(view[t], view'[t]) /\ SameLocks(view[t], view'[t])
  <2>1. \A d \in Writes(t)' : \E c \in Writes(t) : SameRequest(c, d)
    BY <1>2, <1>4 DEF WritesStay, Writes, Here, SameRequest, SameMount, SameLocks
  <2>2. \A c \in Writes(t) : \E d \in Writes(t)' : SameRequest(c, d)
    BY <1>4 DEF WritesStay, Writes, Here, SameRequest, SameMount, SameLocks
  <2>3. \A l : (\E d \in Writes(t)' : l \in LocksOf(d))
                  <=> (\E c \in Writes(t) : l \in LocksOf(c))
    BY <2>1, <2>2, LocksOfSame
  <2>4. view[t].page # "billing" /\ view'[t].locks = view[t].locks
        /\ (view'[t].stage # "left" => view[t].stage # "left")
    BY <1>4 DEF SameMount, SameLocks
  <2>5. ASSUME NEW c \in Writes(t)', NEW d \in Writes(t)', c # d
        PROVE  LocksOf(c) \cap LocksOf(d) = {}
    <3>1. PICK a \in Writes(t) : SameRequest(a, c)
      BY <2>1
    <3>2. PICK b \in Writes(t) : SameRequest(b, d)
      BY <2>1
    <3>3. c.id # d.id
      BY <1>2, <2>5 DEF IInv, CallsOK
    <3>4. a # b
      BY <3>1, <3>2, <3>3 DEF SameRequest
    <3>5. LocksOf(a) \cap LocksOf(b) = {}
      BY <2>4, <3>4 DEF LocksInv, LocksOK
    <3> QED
      BY <3>1, <3>2, <3>5, LocksOfSame
  <2> QED
    BY <2>3, <2>4, <2>5 DEF LocksInv, LocksOK
<1> QED
  BY <1>3, <1>4 DEF LocksMove

\* All the handlers of that name have the locks of the one that was called.
LEMMA LocksOfCall ==
    ASSUME NEW c, c.page \in PageNames \ {"billing"}, NEW w \in Ops(c)
    PROVE  LocksOf(c) = w.lock
<1>1. /\ w \in Book[c.page].writes /\ w.op = c.op
      /\ \A v \in Ops(c) : v \in Book[c.page].writes /\ v.op = w.op
  BY DEF Ops
<1>2. \A v \in Ops(c) : v.lock = w.lock
  BY <1>1, LocksOfPages DEF LocksAre
<1> QED
  BY <1>2 DEF LocksOf

LEMMA LocksAreWhole ==
    ASSUME NEW c, c.page \in PageNames \ {"billing"}, NEW l \in LocksOf(c)
    PROVE  l = <<l[1], "all">>
  BY LocksOfPages DEF LocksOf, Ops, LocksAre

LEMMA OtherTabsKeepLocks ==
    ASSUME LocksInv, NEW t \in Tab, NEW v, Becomes(t, v),
           \A u \in Tab \ {t} : Writes(u)' = Writes(u),
           LocksOK(t)'
    PROVE  LocksInv'
<1>1. \A u \in Tab \ {t} : view'[u] = view[u]
  BY DEF Becomes
<1>2. \A u \in Tab \ {t} : LocksOK(u)'
  BY <1>1 DEF LocksInv, LocksOK, LocksOf, Ops
<1> QED
  BY <1>2 DEF LocksInv

LEMMA ClickSteps ==
    ASSUME IInv, LocksInv, NEW t \in Tab, NEW w \in Book[view[t].page].writes, Click(t, w)
    PROVE  IInv' /\ LocksInv' /\ OtherCalls' = OtherCalls
<1>1. /\ IsView(view[t]) /\ view = [u \in Tab |-> view[u]] /\ made \in Nat
      /\ view[t].page \in PageNames /\ view[t].visit \in 0 .. made
  BY DEF IInv, ViewsOK, CallsOK
<1> DEFINE text == [f \in DOMAIN view[t].text |->
                      IF f \in w.form /\ w.after = "given" THEN 0 ELSE view[t].text[f]]
           v == [view[t] EXCEPT !.locks = Locked(view[t], w), !.text = text]
<1>2. PICK e :
         /\ IsExchange(e) /\ e.tab = t /\ e.id = made' /\ e.kind = "write"
         /\ e.pc = "sent" /\ e.answer = "none" /\ e.runs = 0
         /\ e.page = view[t].page /\ e.visit = view[t].visit /\ e.op = w.op
         /\ calls' = calls \cup {e} /\ made' = made + 1
  <2> DEFINE e == [Exchange(t, made', "write") EXCEPT
                      !.page = view[t].page, !.visit = view[t].visit, !.op = w.op,
                      !.key = view[t].key, !.text = TextOf(view[t], w)]
  <2>1. /\ IsExchange(e) /\ e.tab = t /\ e.id = made' /\ e.kind = "write"
        /\ e.pc = "sent" /\ e.answer = "none" /\ e.runs = 0
        /\ e.page = view[t].page /\ e.visit = view[t].visit /\ e.op = w.op
    BY Zenon DEF IsExchange, Exchange
  <2>2. calls' = calls \cup {e} /\ made' = made + 1
    BY DEF Click
  <2> HIDE DEF e
  <2> QED
    BY <2>1, <2>2
<1>3. Becomes(t, v)
  BY <1>1, Zenon DEF Click, Becomes
<1> HIDE DEF text
<1>4. SameMount(view[t], v) /\ v.stage = view[t].stage /\ v.locks = Locked(view[t], w)
  BY <1>1, Zenon DEF SameMount, IsView
<1>5. w.lock \cap view[t].locks = {} /\ view[t].stage = "open"
  BY DEF Click, Usable
<1> HIDE DEF v
<1>6. ViewsMove
  BY <1>1, <1>3, <1>4 DEF ViewsMove, Becomes, IInv, ViewsOK, SameMount
<1>7. Typed(e, made') /\ e.id > made /\ made' \in Nat /\ made' >= made
  BY <1>1, <1>2, FirstOfItsId
<1>8. Turn({}, {}, {e})
  BY <1>2, <1>7, SomeBegin DEF IInv
<1>9. Sent(e)'
  BY <1>1, <1>2, <1>3, <1>4 DEF Sent, Becomes, SameMount
<1>10. IInv' /\ OtherCalls' = OtherCalls
  BY <1>2, <1>6, <1>8, <1>9, TurnKeepsIInv, TurnKeepsOthers
<1>11. \A u \in Tab \ {t} : Writes(u)' = Writes(u)
  BY <1>2, <1>3 DEF Writes, Here, Becomes
<1>12. Writes(t)' = Writes(t) \cup {e}
  BY <1>2, <1>3, <1>4, <1>5 DEF Writes, Here, Becomes, SameMount
<1>13. LocksOK(t)'
  <2> SUFFICES ASSUME view[t].page # "billing"
               PROVE  /\ \A l : l \in v.locks <=> \E c \in Writes(t)' : l \in LocksOf(c)
                      /\ \A c, d \in Writes(t)' : c # d => LocksOf(c) \cap LocksOf(d) = {}
    BY <1>3, <1>4 DEF LocksOK, LocksOf, Ops, Becomes, SameMount
  <2>1. /\ \A l : l \in view[t].locks <=> \E c \in Writes(t) : l \in LocksOf(c)
        /\ \A c, d \in Writes(t) : c # d => LocksOf(c) \cap LocksOf(d) = {}
    BY <1>5 DEF LocksInv, LocksOK
  <2>2. LocksOf(e) = w.lock
    BY <1>1, <1>2, LocksOfCall DEF Ops
  <2>3. \A c \in Writes(t) : c.page \in PageNames \ {"billing"}
    BY DEF Writes, Here, IInv, Sent
  <2>4. \A l \in view[t].locks \cup w.lock : l = <<l[1], "all">>
    BY <1>1, <1>2, <2>1, <2>2, <2>3, LocksAreWhole
  <2>5. \A l \in view[t].locks : \A m \in w.lock : l[1] # m[1]
    BY <1>5, <2>4
  <2>6. v.locks = view[t].locks \cup w.lock
    BY <1>4, <2>5 DEF Locked
  <2>7. \A c \in Writes(t) : LocksOf(c) \cap LocksOf(e) = {}
    BY <1>5, <2>1, <2>2
  <2> QED
    BY <1>12, <2>1, <2>2, <2>6, <2>7
<1> QED
  BY <1>3, <1>10, <1>11, <1>13, OtherTabsKeepLocks

LEMMA WriteSettlesSteps ==
    ASSUME IInv, LocksInv, NEW c \in calls, WriteSettles(c)
    PROVE  IInv' /\ LocksInv' /\ OtherCalls' = OtherCalls
<1> DEFINE t == c.tab
<1>1. /\ t \in Tab /\ IsView(view[t]) /\ view = [u \in Tab |-> view[u]] /\ made \in Nat
      /\ c.kind = "write" /\ c.page \in PageNames /\ c.visit \in 0 .. made
      /\ c.visit = view[t].visit => c.page = view[t].page
  BY DEF IInv, ViewsOK, CallsOK, Typed, WriteSettles, Sent
<1>2. PICK w \in Ops(c) :
        /\ IF c.answer = "ok"
           THEN calls' = Replaced(c, Reloads(w, c)) /\ made' = made + Len(w.reloads)
           ELSE calls' = Replaced(c, {}) /\ UNCHANGED made
        /\ view' = CASE ~ Here(c) -> view
                     [] Here(c) /\ c.answer = "ok" ->
                          [view EXCEPT ![c.tab] =
                              [Done(view[c.tab], w, c) EXCEPT
                                  !.stage = IF w.leaves THEN "left" ELSE @]]
                     [] OTHER -> [view EXCEPT ![c.tab] = Failed(@, w)]
  BY Zenon DEF WriteSettles
<1>3. w \in Book[c.page].writes /\ Listed(w.reloads)
  BY <1>1, ReloadsListed DEF Ops
<1>4. PICK v : /\ Becomes(t, v) /\ SameMount(view[t], v)
               /\ ~ Here(c) => v = view[t]
               /\ Here(c) => /\ v.stage \in {view[t].stage, "left"}
                             /\ v.locks = Unlocked(view[t], w)
  <2>1. CASE ~ Here(c)
    <3>1. view' = view
      BY <1>2, <2>1
    <3>2. Becomes(t, view[t]) /\ SameMount(view[t], view[t])
      BY <1>1, <3>1 DEF Becomes, SameMount
    <3> QED
      BY <2>1, <3>2
  <2>2. CASE Here(c) /\ c.answer = "ok"
    <3>1. view' = [view EXCEPT ![c.tab] =
                      [Done(view[c.tab], w, c) EXCEPT
                          !.stage = IF w.leaves THEN "left" ELSE @]]
      BY <1>2, <2>2
    <3> DEFINE d == Done(view[t], w, c)
               v == [d EXCEPT !.stage = IF w.leaves THEN "left" ELSE @]
    <3>5. Becomes(t, v)
      <4>1. view' = [view EXCEPT ![t] = v]
        BY <3>1
      <4> HIDE DEF v
      <4> QED
        BY <1>1, <4>1 DEF Becomes
    <3>2. /\ SameMount(view[t], d) /\ d.stage = view[t].stage
          /\ d.locks = Unlocked(view[t], w)
      BY <1>1, Zenon DEF Done, SameMount, IsView
    <3> HIDE DEF d
    <3>3. /\ SameMount(view[t], v) /\ v.stage \in {view[t].stage, "left"}
          /\ v.locks = Unlocked(view[t], w)
      BY <3>2 DEF SameMount, IsView
    <3> HIDE DEF v
    <3> QED
      BY <2>2, <3>3, <3>5
  <2>3. CASE Here(c) /\ c.answer # "ok"
    <3> DEFINE v == Failed(view[t], w)
    <3>1. view' = [view EXCEPT ![t] = v]
      BY <1>2, <2>3
    <3>2. /\ SameMount(view[t], v) /\ v.stage \in {view[t].stage, "left"}
          /\ v.locks = Unlocked(view[t], w)
      BY <1>1 DEF Failed, SameMount, IsView
    <3> HIDE DEF v
    <3>3. Becomes(t, v)
      BY <1>1, <3>1 DEF Becomes
    <3> QED
      BY <2>3, <3>2, <3>3
  <2> QED
    BY <2>1, <2>2, <2>3
<1>5. ViewsMove
  BY <1>1, <1>4 DEF ViewsMove, Becomes, IInv, ViewsOK, SameMount
<1>6. PICK new : /\ Turn({c}, {}, new) /\ calls' = Replaced(c, new)
                 /\ \A d \in new : Sent(d)' /\ d.kind = "load"
  <2>1. CASE c.answer = "ok"
    <3> DEFINE new == Loads(t, c.page, c.visit, w.reloads, c.key)
    <3>1. calls' = Replaced(c, new) /\ made' = made + Len(w.reloads)
      BY <1>2, <2>1 DEF Reloads
    <3>2. Turn({c}, {}, new)
      BY <1>1, <1>3, <3>1, LoadsFields, OneEnds DEF IInv, Listed
    <3>3. \A d \in new : Sent(d)' /\ d.kind = "load"
      BY <1>1, <1>3, <1>4, LoadsAreSent, LoadsFields
    <3> QED
      BY <3>1, <3>2, <3>3
  <2>2. CASE c.answer # "ok"
    <3>1. calls' = Replaced(c, {}) /\ UNCHANGED made
      BY <1>2, <2>2
    <3>2. Turn({c}, {}, {})
      BY <1>1, <3>1, OneEnds DEF IInv
    <3> QED
      BY <3>1, <3>2
  <2> QED
    BY <2>1, <2>2
<1>7. IInv' /\ OtherCalls' = OtherCalls
  BY <1>1, <1>5, <1>6, TurnKeepsIInv, TurnKeepsOthers
<1>8. \A u \in Tab \ {t} : Writes(u)' = Writes(u)
  BY <1>4, <1>6 DEF Writes, Here, Becomes, Replaced
<1>9. LocksOK(t)'
  <2>1. CASE ~ Here(c)
    <3>1. Writes(t)' = Writes(t) /\ view'[t] = view[t]
      BY <1>4, <1>6, <2>1 DEF Writes, Here, Becomes, Replaced
    <3> QED
      BY <1>1, <3>1 DEF LocksInv, LocksOK, LocksOf, Ops
  <2>2. CASE Here(c) /\ v.stage = "left"
    <3>1. Writes(t)' = {} /\ view'[t].stage = "left"
      BY <1>4, <2>2 DEF Writes, Here, Becomes
    <3> QED
      BY <3>1 DEF LocksOK
  <2>3. CASE Here(c) /\ v.stage = view[t].stage /\ v.stage # "left"
    <3> SUFFICES ASSUME view[t].page # "billing"
                 PROVE  /\ \A l : l \in v.locks <=> \E d \in Writes(t)' : l \in LocksOf(d)
                        /\ \A d, e \in Writes(t)' : d # e => LocksOf(d) \cap LocksOf(e) = {}
      BY <1>4, Zenon DEF LocksOK, LocksOf, Ops, Becomes, SameMount
    <3>1. /\ \A l : l \in view[t].locks <=> \E d \in Writes(t) : l \in LocksOf(d)
          /\ \A d, e \in Writes(t) : d # e => LocksOf(d) \cap LocksOf(e) = {}
      BY <1>1, <2>3 DEF LocksInv, LocksOK
    <3>2. Writes(t)' = Writes(t) \ {c} /\ c \in Writes(t)
      BY <1>1, <1>4, <1>6, <2>3 DEF Writes, Here, Becomes, Replaced, SameMount
    <3>3. \A d \in Writes(t) : d.page \in PageNames \ {"billing"}
      BY DEF Writes, Here, IInv, Sent
    <3>4. LocksOf(c) = w.lock
      BY <3>2, <3>3, LocksOfCall
    <3>5. \A l \in view[t].locks \cup w.lock : l = <<l[1], "all">>
      BY <3>1, <3>2, <3>3, <3>4, LocksAreWhole
    <3>6. \A l \in view[t].locks : l \in w.lock <=> \E m \in w.lock : l[1] = m[1]
      BY <3>5
    <3>7. v.locks = view[t].locks \ w.lock
      BY <1>4, <2>3, <3>6 DEF Unlocked
    <3>8. \A d \in Writes(t) \ {c} : LocksOf(d) \cap w.lock = {}
      BY <3>1, <3>2, <3>4
    <3> QED
      BY <3>1, <3>2, <3>4, <3>7, <3>8
  <2> QED
    BY <1>4, <2>1, <2>2, <2>3
<1> QED
  BY <1>1, <1>4, <1>7, <1>8, <1>9, OtherTabsKeepLocks

-----------------------------------------------------------------------------
(* The session: who holds which pair of tokens *)

UsedByOther(s, p, t) == \E u \in s : u[1] = p /\ u[2] # t

\* Requests that take a refresh token along, and answers that bring one.
Presents(c) == c.kind \in {"refresh", "logout"}
Carries(c) == c.kind \in {"refresh", "login"} /\ c.pc = "answered" /\ c.answer = "ok"

TokensOK ==
    /\ issued \in Nat /\ cookie \in 0 .. issued /\ alive \subseteq 1 .. issued
    /\ refreshing = [t \in Tab |-> refreshing[t]]

\* The refresh in flight is the one its tab remembers.
RefreshKnown == \A c \in AuthCalls : c.kind = "refresh" => refreshing[c.tab] = c.id

PresentsIssued == \A c \in AuthCalls : Presents(c) => c.with \in 0 .. issued

\* A pair on its way to a tab is good, and nobody has it yet.
PairsFresh ==
    \A c \in AuthCalls : Carries(c) =>
        /\ c.pair \in alive /\ c.pair # cookie
        /\ \A d \in AuthCalls : /\ Presents(d) => d.with # c.pair
                                /\ Carries(d) /\ d.pair = c.pair => d = c

\* A cookie that is no longer good was used by others than the tab, or by the tab in the
\* refresh whose answer is on its way.
CookieUsed ==
    cookie # 0 /\ cookie \notin alive =>
        \A t \in Tab :
            \/ UsedByOther(spent, cookie, t)
            \/ \E c \in AuthCalls : /\ Carries(c) /\ c.kind = "refresh"
                                    /\ c.tab = t /\ c.with = cookie

SentUsed ==
    \A c \in AuthCalls :
        c.kind = "refresh" /\ c.pc = "sent" /\ c.with # 0 /\ c.with \notin alive =>
            UsedByOther(spent, c.with, c.tab)

RefusedUsed ==
    \A c \in AuthCalls :
        c.kind = "refresh" /\ c.pc = "answered" /\ c.answer = "401" =>
            c.with = 0 \/ UsedByOther(spent, c.with, c.tab)

SessionInv ==
    TokensOK /\ RefreshKnown /\ PresentsIssued /\ PairsFresh /\ CookieUsed /\ SentUsed
      /\ RefusedUsed

LEMMA SessionStands ==
    ASSUME SessionInv, UNCHANGED <<issued, alive, spent, cookie, refreshing>>,
           AuthCalls' = AuthCalls
    PROVE  SessionInv'
  BY DEF SessionInv, TokensOK, RefreshKnown, PresentsIssued, PairsFresh, CookieUsed, SentUsed,
         RefusedUsed, UsedByOther, Presents, Carries

LEMMA AuthTurn ==
    ASSUME NEW gone, NEW back, NEW new, Turn(gone, back, new)
    PROVE  AuthCalls' = (AuthCalls \ gone) \cup {d \in back \cup new : d.kind \in AuthKinds}
  BY DEF Turn, AuthCalls

LEMMA UsedStays ==
    ASSUME spent \subseteq spent', NEW p, NEW t, UsedByOther(spent, p, t)
    PROVE  UsedByOther(spent', p, t)
  BY DEF UsedByOther

\* A tab has one refresh in flight.
LEMMA OneRefresh ==
    ASSUME IInv, SessionInv, NEW c \in AuthCalls, NEW d \in AuthCalls,
           c.kind = "refresh", d.kind = "refresh", c.tab = d.tab
    PROVE  c = d
  BY DEF IInv, CallsOK, SessionInv, RefreshKnown, AuthCalls

LEMMA RefreshKinds ==
    ASSUME IInv, NEW c \in AuthCalls
    PROVE  c \in calls /\ c.kind \in {"refresh", "login", "logout"} /\ c.tab \in Tab
           /\ c.id \in Nat /\ c.id # 0
  BY DEF IInv, CallsOK, Typed, AuthCalls, AuthKinds

LEMMA ServeRefreshKeeps ==
    ASSUME IInv, SessionInv, NEW c \in calls, ServeRefresh(c)
    PROVE  SessionInv'
<1>1. PICK d : /\ Turn({c}, {d}, {}) /\ SameRequest(c, d)
               /\ d.pc = "answered" /\ d.with = c.with
               /\ c.with \in alive => d.answer = "ok" /\ d.pair = issued'
               /\ c.with \notin alive => d.answer = "401"
  BY ServeRefreshTurns, Zenon DEF IInv
<1>2. c \in AuthCalls /\ c.kind = "refresh" /\ c.pc = "sent" /\ d.kind = "refresh"
      /\ d.tab = c.tab /\ d.id = c.id /\ c.tab \in Tab
  BY <1>1 DEF ServeRefresh, AuthCalls, AuthKinds, SameRequest, IInv, CallsOK, Typed
<1>3. AuthCalls' = (AuthCalls \ {c}) \cup {d}
  BY <1>1, <1>2, AuthTurn DEF AuthKinds
<1>4. UNCHANGED <<cookie, refreshing>>
  BY DEF ServeRefresh, session
<1>5. CASE c.with \in alive
  <2>1. /\ issued' = issued + 1 /\ alive' = (alive \ {c.with}) \cup {issued'}
        /\ spent' = spent \cup {<<c.with, c.tab>>}
    BY <1>5 DEF ServeRefresh
  <2>2. TokensOK'
    BY <1>4, <2>1 DEF SessionInv, TokensOK
  <2>3. RefreshKnown'
    BY <1>2, <1>3, <1>4 DEF SessionInv, RefreshKnown
  <2>4. PresentsIssued'
    BY <1>1, <1>2, <1>3, <2>1 DEF SessionInv, PresentsIssued, TokensOK, Presents
  <2>5. PairsFresh'
    <3>1. \A x \in AuthCalls : Carries(x) =>
             /\ x.pair \in alive \ {c.with} /\ x.pair # cookie /\ x.pair # issued'
             /\ \A y \in AuthCalls : /\ Presents(y) => y.with # x.pair
                                     /\ Carries(y) /\ y.pair = x.pair => y = x
      BY <1>2, <2>1 DEF SessionInv, PairsFresh, TokensOK, Presents
    <3>2. \A y \in AuthCalls : Presents(y) => y.with # issued'
      BY <2>1 DEF SessionInv, PresentsIssued, TokensOK
    <3>3. cookie # issued' /\ c.with # issued'
      BY <1>5, <2>1 DEF SessionInv, TokensOK
    <3> QED
      BY <1>1, <1>3, <1>4, <1>5, <2>1, <3>1, <3>2, <3>3 DEF PairsFresh, Presents, Carries
  <2>6. \A t \in Tab \ {c.tab} : UsedByOther(spent', c.with, t)
    <3> DEFINE u == <<c.with, c.tab>>
    <3>1. u \in spent' /\ u[1] = c.with /\ u[2] = c.tab
      BY <2>1
    <3> HIDE DEF u
    <3> QED
      BY <3>1 DEF UsedByOther
  <2>7. spent \subseteq spent'
    BY <2>1
  <2>8. CookieUsed'
    <3> SUFFICES ASSUME cookie # 0, cookie \notin alive', NEW t \in Tab
                 PROVE  \/ UsedByOther(spent', cookie, t)
                        \/ \E x \in AuthCalls' : /\ Carries(x) /\ x.kind = "refresh"
                                                 /\ x.tab = t /\ x.with = cookie
      BY <1>4 DEF CookieUsed, Carries, UsedByOther
    <3>1. CASE cookie = c.with
      <4>1. Carries(d)
        BY <1>1, <1>2, <1>5 DEF Carries
      <4> QED
        BY <1>1, <1>2, <1>3, <2>6, <3>1, <4>1
    <3>2. CASE cookie # c.with
      <4>1. cookie \notin alive
        BY <2>1, <3>2
      <4>2. CASE UsedByOther(spent, cookie, t)
        BY <2>7, <4>2, UsedStays
      <4>3. CASE \E x \in AuthCalls : /\ Carries(x) /\ x.kind = "refresh"
                                      /\ x.tab = t /\ x.with = cookie
        BY <1>3, <3>2, <4>3
      <4> QED
        BY <4>1, <4>2, <4>3 DEF SessionInv, CookieUsed
    <3> QED
      BY <3>1, <3>2
  <2>9. SentUsed'
    <3> SUFFICES ASSUME NEW x \in AuthCalls', x.kind = "refresh", x.pc = "sent",
                        x.with # 0, x.with \notin alive'
                 PROVE  UsedByOther(spent', x.with, x.tab)
      BY DEF SentUsed
    <3>1. x \in AuthCalls /\ x # c
      BY <1>1, <1>2, <1>3
    <3>2. CASE x.with = c.with
      BY <1>2, <2>6, <3>1, <3>2, OneRefresh, RefreshKinds
    <3>3. CASE x.with # c.with
      BY <2>1, <2>7, <3>1, <3>3, UsedStays DEF SessionInv, SentUsed
    <3> QED
      BY <3>2, <3>3
  <2>10. RefusedUsed'
    BY <1>1, <1>3, <1>5, <2>7, UsedStays DEF SessionInv, RefusedUsed
  <2> QED
    BY <2>2, <2>3, <2>4, <2>5, <2>8, <2>9, <2>10 DEF SessionInv
<1>6. CASE c.with \notin alive
  <2>1. UNCHANGED <<issued, alive, spent>>
    BY <1>6 DEF ServeRefresh
  <2>2. ~ Carries(c) /\ ~ Carries(d)
    BY <1>1, <1>2, <1>6 DEF Carries
  <2>3. TokensOK' /\ RefreshKnown' /\ PresentsIssued'
    BY <1>1, <1>2, <1>3, <1>4, <2>1
       DEF SessionInv, TokensOK, RefreshKnown, PresentsIssued, Presents
  <2>4. PairsFresh'
    BY <1>1, <1>2, <1>3, <1>4, <2>1, <2>2 DEF SessionInv, PairsFresh, Presents, Carries
  <2>5. CookieUsed'
    BY <1>3, <1>4, <2>1, <2>2 DEF SessionInv, CookieUsed, UsedByOther, Carries
  <2>6. SentUsed'
    BY <1>1, <1>3, <2>1 DEF SessionInv, SentUsed, UsedByOther
  <2>7. RefusedUsed'
    BY <1>1, <1>2, <1>3, <1>6, <2>1 DEF SessionInv, SentUsed, RefusedUsed, UsedByOther
  <2> QED
    BY <2>3, <2>4, <2>5, <2>6, <2>7 DEF SessionInv
<1> QED
  BY <1>5, <1>6

LEMMA ServeLoginKeeps ==
    ASSUME IInv, SessionInv, NEW c \in calls, ServeLogin(c)
    PROVE  SessionInv'
<1>1. PICK d : /\ Turn({c}, {d}, {}) /\ SameRequest(c, d)
               /\ d.pc = "answered"
               /\ d.kind = "login" /\ d.answer = "ok" =>
                     d.pair = issued' /\ issued' = issued + 1
                                      /\ alive' = alive \cup {issued'}
  BY ServeLoginTurns, Zenon DEF IInv
<1>2. /\ UNCHANGED <<cookie, refreshing, spent>> /\ c.kind \in {"login", "register"}
      /\ d.kind = c.kind /\ issued \in Nat
      /\ \/ UNCHANGED <<issued, alive>>
         \/ issued' = issued + 1 /\ alive' = alive \cup {issued'}
  BY <1>1 DEF ServeLogin, session, SameRequest, SessionInv, TokensOK
<1>3. /\ \A x \in AuthCalls' : x \in AuthCalls \/ (x = d /\ d.kind = "login")
      /\ \A x \in AuthCalls : x.kind # "login" => x \in AuthCalls'
      /\ \A x \in AuthCalls : x # c => x \in AuthCalls'
  BY <1>1, <1>2, AuthTurn DEF AuthKinds, AuthCalls
<1>4. ~ Presents(d)
  BY <1>2 DEF Presents
<1>5. TokensOK'
  BY <1>2 DEF SessionInv, TokensOK
<1>6. RefreshKnown'
  BY <1>2, <1>3 DEF SessionInv, RefreshKnown
<1>7. PresentsIssued'
  BY <1>2, <1>3, <1>4 DEF SessionInv, PresentsIssued, Presents
<1>8. PairsFresh'
  <2>1. \A x \in AuthCalls : Carries(x) => x.pair # issued + 1
    BY <1>2 DEF SessionInv, PairsFresh, TokensOK
  <2>2. \A x \in AuthCalls : Presents(x) => x.with # issued + 1
    BY <1>2 DEF SessionInv, PresentsIssued
  <2>3. cookie # issued + 1
    BY <1>2 DEF SessionInv, TokensOK
  <2> QED
    BY <1>1, <1>2, <1>3, <1>4, <2>1, <2>2, <2>3 DEF SessionInv, PairsFresh, Carries, Presents
<1>9. CookieUsed'
  BY <1>2, <1>3 DEF SessionInv, CookieUsed, UsedByOther, Carries
<1>10. SentUsed'
  BY <1>2, <1>3 DEF SessionInv, SentUsed, UsedByOther
<1>11. RefusedUsed'
  BY <1>2, <1>3 DEF SessionInv, RefusedUsed, UsedByOther
<1> QED
  BY <1>5, <1>6, <1>7, <1>8, <1>9, <1>10, <1>11 DEF SessionInv

LEMMA ServeLogoutKeeps ==
    ASSUME IInv, SessionInv, NEW c \in calls, ServeLogout(c)
    PROVE  SessionInv'
<1>1. UNCHANGED <<issued, made, cookie, refreshing>>
  BY DEF ServeLogout, session
<1>2. PICK d : /\ Turn({c}, {d}, {}) /\ SameRequest(c, d)
               /\ c.kind = "logout" => d.with = c.with
  BY <1>1, AnswerTurns, Zenon DEF IInv
<1>3. /\ d.with = c.with /\ d.kind = "logout" /\ c.kind = "logout" /\ c \in AuthCalls
  BY <1>2 DEF ServeLogout, SameRequest, AuthCalls, AuthKinds
<1>4. AuthCalls' = (AuthCalls \ {c}) \cup {d}
  BY <1>2, <1>3, AuthTurn DEF AuthKinds
<1>5. /\ alive' = alive \ {c.with} /\ spent \subseteq spent'
      /\ \A t \in Tab : UsedByOther(spent', c.with, t)
  <2> DEFINE u == <<c.with, "logout">>
  <2>1. alive' = alive \ {c.with} /\ spent' = spent \cup {u} /\ u[1] = c.with
        /\ u[2] = "logout"
    BY DEF ServeLogout
  <2> HIDE DEF u
  <2> QED
    BY <2>1, ClientAssumption DEF UsedByOther
<1>6. ~ Carries(c) /\ ~ Carries(d) /\ Presents(c)
  BY <1>3 DEF Carries, Presents
<1>7. TokensOK' /\ RefreshKnown' /\ PresentsIssued'
  BY <1>1, <1>3, <1>4, <1>5, <1>6
     DEF SessionInv, TokensOK, RefreshKnown, PresentsIssued, Presents
<1>8. PairsFresh'
  BY <1>1, <1>3, <1>4, <1>5, <1>6 DEF SessionInv, PairsFresh, Carries, Presents
<1>9. CookieUsed'
  <2>1. \A t \in Tab : UsedByOther(spent, cookie, t) => UsedByOther(spent', cookie, t)
    BY <1>5, UsedStays
  <2>2. \A x \in AuthCalls : Carries(x) => x \in AuthCalls'
    BY <1>4, <1>6
  <2> QED
    BY <1>1, <1>5, <2>1, <2>2 DEF SessionInv, CookieUsed, Carries
<1>10. SentUsed'
  BY <1>3, <1>4, <1>5, UsedStays, RefreshKinds DEF SessionInv, SentUsed
<1>11. RefusedUsed'
  BY <1>3, <1>4, <1>5, UsedStays DEF SessionInv, RefusedUsed
<1> QED
  BY <1>7, <1>8, <1>9, <1>10, <1>11 DEF SessionInv

LEMMA LoseKeeps ==
    ASSUME IInv, SessionInv, NEW c \in calls, Lose(c)
    PROVE  SessionInv'
<1>1. PICK d : /\ Turn({c}, {d}, {}) /\ SameRequest(c, d)
               /\ d.pc = "answered" /\ d.answer = "failed" /\ d.with = c.with
  BY LoseTurns, Zenon DEF IInv
<1>2. UNCHANGED <<issued, alive, cookie, refreshing>> /\ d.kind = c.kind /\ d.tab = c.tab
      /\ d.id = c.id
  BY <1>1 DEF Lose, session, SameRequest
<1>3. /\ \A x \in AuthCalls' : x \in AuthCalls \/ (x = d /\ c \in AuthCalls)
      /\ \A x \in AuthCalls : x # c => x \in AuthCalls'
  BY <1>1, <1>2, AuthTurn DEF AuthKinds, AuthCalls
<1>4. /\ spent \subseteq spent'
      /\ Carries(c) /\ c.kind = "refresh" => \A t \in Tab : UsedByOther(spent', c.with, t)
  <2> DEFINE u == <<c.with, "lost">>
  <2>1. /\ spent' = IF c.kind = "refresh" /\ c.answer = "ok" THEN spent \cup {u} ELSE spent
        /\ u[1] = c.with /\ u[2] = "lost"
    BY DEF Lose
  <2> HIDE DEF u
  <2> QED
    BY <2>1, ClientAssumption DEF UsedByOther, Carries
<1>5. ~ Carries(d)
  BY <1>1 DEF Carries
<1>6. TokensOK' /\ RefreshKnown' /\ PresentsIssued'
  BY <1>1, <1>2, <1>3 DEF SessionInv, TokensOK, RefreshKnown, PresentsIssued, Presents
<1>7. PairsFresh'
  BY <1>1, <1>2, <1>3, <1>5 DEF SessionInv, PairsFresh, Presents, Carries
<1>8. CookieUsed'
  <2>1. \A t \in Tab : UsedByOther(spent, cookie, t) => UsedByOther(spent', cookie, t)
    BY <1>4, UsedStays
  <2> QED
    BY <1>2, <1>3, <1>4, <2>1 DEF SessionInv, CookieUsed, Carries
<1>9. SentUsed'
  BY <1>1, <1>3, <1>4, UsedStays, <1>2 DEF SessionInv, SentUsed
<1>10. RefusedUsed'
  BY <1>1, <1>3, <1>4, UsedStays DEF SessionInv, RefusedUsed
<1> QED
  BY <1>6, <1>7, <1>8, <1>9, <1>10 DEF SessionInv

LEMMA RetryKeeps ==
    ASSUME IInv, SessionInv, NEW c \in calls, Retry(c)
    PROVE  SessionInv'
<1>1. UNCHANGED <<issued, alive, spent, cookie>>
  BY DEF Retry, tokens, session
<1>2. CallsOK(calls, made)
  BY DEF IInv
<1>3. PICK d, new :
         /\ Turn({c}, {d}, new) /\ SameRequest(c, d)
         /\ \A e \in new : e.kind = "refresh" /\ e.pc = "sent"
         /\ \/ new = {} /\ UNCHANGED refreshing
            \/ \E e : /\ new = {e} /\ e.tab = c.tab /\ e.id = made' /\ e.with = cookie
                      /\ refreshing[c.tab] = 0
                      /\ refreshing' = [refreshing EXCEPT ![c.tab] = made']
         /\ c.kind \notin AuthKinds
  BY <1>2, RetryTurns, Zenon
<1>4. AuthCalls' = AuthCalls \cup new
  BY <1>3, AuthTurn DEF AuthCalls, AuthKinds, SameRequest
<1>5. CASE new = {} /\ UNCHANGED refreshing
  BY <1>1, <1>4, <1>5, SessionStands
<1>6. ASSUME NEW e, new = {e}, e.tab = c.tab, e.id = made', e.with = cookie,
             refreshing[c.tab] = 0, refreshing' = [refreshing EXCEPT ![c.tab] = made']
      PROVE  SessionInv'
  <2>1. /\ e.kind = "refresh" /\ e.pc = "sent" /\ ~ Carries(e) /\ c.tab \in Tab
        /\ AuthCalls' = AuthCalls \cup {e}
    BY <1>3, <1>4, <1>6 DEF Carries, IInv, CallsOK, Typed
  <2>2. \A x \in AuthCalls : x.kind = "refresh" => x.tab # c.tab
    BY <1>6, RefreshKinds DEF SessionInv, RefreshKnown
  <2>3. TokensOK'
    BY <1>1, <1>6, <2>1 DEF SessionInv, TokensOK
  <2>4. RefreshKnown'
    BY <1>6, <2>1, <2>2, RefreshKinds DEF SessionInv, TokensOK, RefreshKnown
  <2>5. PresentsIssued'
    BY <1>1, <1>6, <2>1 DEF SessionInv, TokensOK, PresentsIssued
  <2>6. PairsFresh'
    BY <1>1, <1>6, <2>1 DEF SessionInv, PairsFresh, Presents
  <2>7. CookieUsed'
    BY <1>1, <2>1 DEF SessionInv, CookieUsed
  <2>8. SentUsed'
    BY <1>1, <1>6, <2>1, <2>2 DEF SessionInv, SentUsed, CookieUsed
  <2>9. RefusedUsed'
    BY <1>1, <2>1 DEF SessionInv, RefusedUsed
  <2> QED
    BY <2>3, <2>4, <2>5, <2>6, <2>7, <2>8, <2>9 DEF SessionInv
<1> QED
  BY <1>3, <1>5, <1>6

LEMMA RefreshSettlesKeeps ==
    ASSUME IInv, SessionInv, NEW c \in calls, RefreshSettles(c)
    PROVE  SessionInv'
<1>1. /\ UNCHANGED <<issued, alive, spent>> /\ c.kind = "refresh" /\ c \in AuthCalls
      /\ c.tab \in Tab /\ c.pc = "answered"
      /\ refreshing' = [refreshing EXCEPT ![c.tab] = 0]
      /\ cookie' = IF c.answer = "ok" THEN c.pair ELSE cookie
  BY DEF RefreshSettles, Settles, tokens, AuthCalls, AuthKinds, IInv, CallsOK, Typed
<1>2. /\ \A d \in Waiters(c) : d.kind \notin AuthKinds
      /\ \E back : /\ Turn({c} \cup Waiters(c), back, {})
                   /\ \A e \in back : \E d \in Waiters(c) : SameRequest(d, e)
  BY RefreshSettlesTurns, Zenon DEF IInv
<1>3. AuthCalls' = AuthCalls \ {c}
  BY <1>2, AuthTurn DEF AuthCalls, SameRequest
<1>4. \A x \in AuthCalls' : x.kind = "refresh" => x.tab # c.tab
  BY <1>1, <1>3, OneRefresh
<1>5. RefreshKnown'
  BY <1>1, <1>3, <1>4, RefreshKinds DEF SessionInv, TokensOK, RefreshKnown
<1>6. CASE c.answer = "ok"
  <2>1. Carries(c) /\ cookie' = c.pair
    BY <1>1, <1>6 DEF Carries
  <2>2. c.pair \in alive
    BY <1>1, <2>1 DEF SessionInv, PairsFresh
  <2>3. TokensOK'
    BY <1>1, <2>1, <2>2 DEF SessionInv, TokensOK
  <2>4. PairsFresh'
    BY <1>1, <1>3, <2>1, <2>2 DEF SessionInv, PairsFresh
  <2>5. CookieUsed'
    BY <1>1, <2>1, <2>2 DEF CookieUsed
  <2>6. PresentsIssued' /\ SentUsed' /\ RefusedUsed'
    BY <1>1, <1>3 DEF SessionInv, PresentsIssued, SentUsed, RefusedUsed
  <2> QED
    BY <1>5, <2>3, <2>4, <2>5, <2>6 DEF SessionInv
<1>7. CASE c.answer # "ok"
  <2>1. ~ Carries(c) /\ UNCHANGED cookie
    BY <1>1, <1>7 DEF Carries
  <2>2. TokensOK'
    BY <1>1, <2>1 DEF SessionInv, TokensOK
  <2>3. PairsFresh'
    BY <1>1, <1>3, <2>1 DEF SessionInv, PairsFresh
  <2>4. CookieUsed'
    BY <1>1, <1>3, <2>1 DEF SessionInv, CookieUsed
  <2>5. PresentsIssued' /\ SentUsed' /\ RefusedUsed'
    BY <1>1, <1>3 DEF SessionInv, PresentsIssued, SentUsed, RefusedUsed
  <2> QED
    BY <1>5, <2>2, <2>3, <2>4, <2>5 DEF SessionInv
<1> QED
  BY <1>6, <1>7

\* A request other than a refresh is sent.
LEMMA SentKeeps ==
    ASSUME IInv, SessionInv, NEW gone, NEW new, Turn(gone, {}, new),
           \A c \in gone : c.kind \notin AuthKinds,
           \A e \in new : /\ e.kind \in {"login", "register", "logout"} /\ e.pc = "sent"
                          /\ e.kind = "logout" => e.with = cookie,
           UNCHANGED <<issued, alive, spent, cookie, refreshing>>
    PROVE  SessionInv'
<1>1. /\ AuthCalls \subseteq AuthCalls'
      /\ \A x \in AuthCalls' : x \in AuthCalls \/ x \in new
  BY AuthTurn DEF AuthCalls
<1>2. \A e \in new : /\ ~ Carries(e) /\ e.kind # "refresh"
                     /\ Presents(e) => e.with = cookie
  BY DEF Carries, Presents
<1>3. TokensOK' /\ RefreshKnown' /\ PresentsIssued'
  BY <1>1, <1>2 DEF SessionInv, TokensOK, RefreshKnown, PresentsIssued
<1>4. PairsFresh'
  BY <1>1, <1>2 DEF SessionInv, PairsFresh
<1>5. CookieUsed' /\ SentUsed' /\ RefusedUsed'
  BY <1>1, <1>2 DEF SessionInv, CookieUsed, SentUsed, RefusedUsed
<1> QED
  BY <1>3, <1>4, <1>5 DEF SessionInv

LEMMA LoginSettlesKeeps ==
    ASSUME IInv, SessionInv, NEW c \in calls, LoginSettles(c)
    PROVE  SessionInv'
<1>1. /\ UNCHANGED <<issued, alive, spent, refreshing>> /\ c.kind = "login"
      /\ c \in AuthCalls /\ c.pc = "answered"
      /\ cookie' = IF c.answer = "ok" THEN c.pair ELSE cookie
  BY DEF LoginSettles, Settles, tokens, AuthCalls, AuthKinds
<1>2. AuthCalls' = AuthCalls \ {c}
  <2>1. PICK new : Turn({c}, {}, new) /\ \A e \in new : e.kind = "me"
    BY LoginSettlesTurns DEF IInv
  <2> QED
    BY <2>1, AuthTurn DEF AuthKinds
<1>3. c.answer = "ok" => Carries(c) /\ c.pair \in alive /\ cookie' = c.pair
  BY <1>1 DEF Carries, SessionInv, PairsFresh
<1>4. c.answer # "ok" => ~ Carries(c) /\ UNCHANGED cookie
  BY <1>1 DEF Carries
<1>5. TokensOK' /\ RefreshKnown' /\ PresentsIssued' /\ SentUsed' /\ RefusedUsed'
  BY <1>1, <1>2, <1>3
     DEF SessionInv, TokensOK, RefreshKnown, PresentsIssued, SentUsed, RefusedUsed
<1>6. PairsFresh'
  BY <1>1, <1>2, <1>3, <1>4 DEF SessionInv, PairsFresh
<1>7. CookieUsed'
  BY <1>1, <1>2, <1>3, <1>4 DEF SessionInv, CookieUsed
<1> QED
  BY <1>5, <1>6, <1>7 DEF SessionInv

LEMMA LogoutSettlesKeeps ==
    ASSUME IInv, SessionInv, NEW c \in calls, LogoutSettles(c)
    PROVE  SessionInv'
<1>1. /\ UNCHANGED <<issued, alive, spent, refreshing>> /\ c.kind = "logout"
      /\ cookie' \in {0, cookie}
  BY DEF LogoutSettles, tokens
<1>2. AuthCalls' = AuthCalls \ {c}
  <2>1. Turn({c}, {}, {})
    BY EndTurns DEF IInv
  <2> QED
    BY <2>1, AuthTurn
<1>3. ~ Carries(c)
  BY <1>1 DEF Carries
<1>4. TokensOK' /\ RefreshKnown' /\ PresentsIssued' /\ SentUsed' /\ RefusedUsed'
  BY <1>1, <1>2
     DEF SessionInv, TokensOK, RefreshKnown, PresentsIssued, SentUsed, RefusedUsed
<1>5. PairsFresh'
  BY <1>1, <1>2 DEF SessionInv, PairsFresh, TokensOK
<1>6. CookieUsed'
  BY <1>1, <1>2, <1>3 DEF SessionInv, CookieUsed
<1> QED
  BY <1>4, <1>5, <1>6 DEF SessionInv

-----------------------------------------------------------------------------
(* The invariant and the theorems *)

FullInv == IInv /\ SessionInv /\ LocksInv

\* A step that leaves the handlers of the pages alone.
LEMMA AuthStep ==
    ASSUME FullInv, LocksMove, NEW gone, NEW back, NEW new, Turn(gone, back, new),
           \A c \in gone : c.kind = "write" => \E d \in back : SameRequest(c, d),
           \A e \in new : e.kind \notin {"load", "write"},
           SessionInv'
    PROVE  FullInv'
<1>1. WritesStay
  BY TurnKeepsWrites DEF FullInv, IInv
<1>2. \A e \in new : Sent(e)'
  BY DEF Sent
<1>3. IInv'
  BY <1>2, LocksMoveViews, TurnKeepsIInv DEF FullInv
<1>4. LocksInv'
  BY <1>1, <1>3, LocksKept DEF FullInv
<1> QED
  BY <1>3, <1>4 DEF FullInv

LEMMA PageStepKeeps ==
    ASSUME FullInv, PageStep, UNCHANGED <<issued, alive, spent, cookie, refreshing>>
    PROVE  FullInv'
<1>1. SessionInv'
  BY SessionStands, OthersKeepAuth DEF FullInv, PageStep
<1>2. LocksInv'
  BY LocksKept DEF FullInv, PageStep
<1> QED
  BY <1>1, <1>2 DEF FullInv, PageStep

LEMMA ServerKeeps ==
    ASSUME FullInv, NEW c \in calls, ServerStep(c)
    PROVE  FullInv'
<1>1. CASE ServeLoad(c) \/ ServeWrite(c)
  <2>1. PageStep
    BY <1>1, PageAnswerSteps DEF FullInv
  <2>2. UNCHANGED <<issued, alive, spent, cookie, refreshing>>
    BY <1>1, Zenon DEF ServeLoad, ServeWrite, tokens, session
  <2> QED
    BY <2>1, <2>2, PageStepKeeps
<1>2. CASE ServeAuth(c) /\ UNCHANGED pageVars
  <2>1. LocksMove
    BY <1>2, ViewsStand DEF FullInv, pageVars
  <2>2. \E d : Turn({c}, {d}, {}) /\ SameRequest(c, d)
    <3>1. CASE ServeRefresh(c)
      BY <3>1, ServeRefreshTurns, Zenon DEF FullInv, IInv
    <3>2. CASE ServeLogin(c)
      BY <3>2, ServeLoginTurns, Zenon DEF FullInv, IInv
    <3>3. CASE ServeLogout(c) \/ ServeMe(c)
      <4>1. UNCHANGED made
        BY <3>3 DEF ServeLogout, ServeMe
      <4> QED
        BY <3>3, <4>1, AnswerTurns, Zenon DEF FullInv, IInv
    <3> QED
      BY <1>2, <3>1, <3>2, <3>3, Zenon DEF ServeAuth
  <2>3. SessionInv'
    <3>1. CASE ServeMe(c)
      <4>1. c.kind \notin AuthKinds
        BY <3>1 DEF ServeMe, AuthKinds
      <4>2. AuthCalls' = AuthCalls
        BY <2>2, <4>1, TurnKeepsAuth
      <4>3. UNCHANGED <<issued, alive, spent, cookie, refreshing>>
        BY <3>1 DEF ServeMe, tokens, session
      <4> QED
        BY <4>2, <4>3, SessionStands DEF FullInv
    <3> QED
      BY <1>2, <3>1, ServeRefreshKeeps, ServeLoginKeeps, ServeLogoutKeeps
         DEF ServeAuth, FullInv
  <2> QED
    BY <2>1, <2>2, <2>3, AuthStep
<1> QED
  BY <1>1, <1>2 DEF ServerStep

LEMMA ClientKeeps ==
    ASSUME FullInv, NEW c \in calls, ClientStep(c)
    PROVE  FullInv'
<1>1. CallsOK(calls, made) /\ IInv /\ SessionInv /\ c.tab \in Tab
      /\ view = [u \in Tab |-> view[u]]
  BY DEF FullInv, IInv, ViewsOK, CallsOK, Typed
<1>2. UNCHANGED view => LocksMove
  BY <1>1, ViewsStand
<1>3. CASE Retry(c) /\ UNCHANGED pageVars
  <2>1. SessionInv'
    BY <1>1, <1>3, RetryKeeps
  <2>2. PICK d, new : /\ Turn({c}, {d}, new) /\ SameRequest(c, d)
                      /\ \A e \in new : e.kind = "refresh" /\ e.pc = "sent"
    BY <1>1, <1>3, RetryTurns, Zenon
  <2> QED
    BY <1>2, <1>3, <2>1, <2>2, AuthStep DEF pageVars
<1>4. CASE RefreshSettles(c) /\ UNCHANGED pageVars
  <2>1. SessionInv'
    BY <1>1, <1>4, RefreshSettlesKeeps
  <2>2. PICK back : /\ Turn({c} \cup Waiters(c), back, {})
                    /\ \A d \in Waiters(c) : \E e \in back : SameRequest(d, e)
    BY <1>1, <1>4, RefreshSettlesTurns, Zenon
  <2>3. c.kind = "refresh"
    BY <1>4 DEF RefreshSettles
  <2> QED
    BY <1>2, <1>4, <2>1, <2>2, <2>3, AuthStep DEF pageVars
<1>5. CASE MountSettles(c) /\ UNCHANGED pageVars
  <2>1. Turn({c}, {}, {})
    BY <1>1, <1>5, EndTurns
  <2>2. c.kind = "mount" /\ UNCHANGED <<issued, alive, spent, cookie, refreshing>>
    BY <1>5 DEF MountSettles, tokens
  <2>3. SessionInv'
    BY <1>1, <2>1, <2>2, SessionStands, TurnKeepsAuth DEF AuthKinds
  <2> QED
    BY <1>2, <1>5, <2>1, <2>2, <2>3, AuthStep DEF pageVars
<1>6. CASE RegisterSettles(c) /\ UNCHANGED pageVars
  <2>1. PICK new : /\ Turn({c}, {}, new)
                   /\ \A e \in new : e.kind = "login" /\ e.tab = c.tab /\ e.pc = "sent"
    BY <1>1, <1>6, RegisterSettlesTurns
  <2>2. c.kind = "register" /\ UNCHANGED <<issued, alive, spent, cookie, refreshing>>
    BY <1>6 DEF RegisterSettles, tokens, session
  <2>3. SessionInv'
    BY <1>1, <2>1, <2>2, SentKeeps DEF AuthKinds
  <2> QED
    BY <1>2, <1>6, <2>1, <2>2, <2>3, AuthStep DEF pageVars
<1>7. CASE LoginSettles(c) /\ UNCHANGED pageVars
  <2>1. PICK new : Turn({c}, {}, new) /\ \A e \in new : e.kind = "me" /\ e.tab = c.tab
    BY <1>1, <1>7, LoginSettlesTurns, Zenon
  <2>2. c.kind = "login" /\ SessionInv'
    BY <1>1, <1>7, LoginSettlesKeeps, Zenon DEF LoginSettles
  <2> QED
    BY <1>2, <1>7, <2>1, <2>2, AuthStep DEF pageVars
<1>8. CASE SignIn(c)
  <2>1. Turn({c}, {}, {})
    BY <1>1, <1>8, EndTurns DEF SignIn
  <2>2. c.kind = "me" /\ UNCHANGED <<issued, alive, spent, cookie, refreshing>>
    BY <1>8 DEF SignIn, MeSettles, tokens
  <2>3. SessionInv'
    BY <1>1, <2>1, <2>2, SessionStands, TurnKeepsAuth DEF AuthKinds
  <2>4. LocksMove
    <3>1. CASE view' = [view EXCEPT ![c.tab] = Blank(Home, made)]
      <4>1. Becomes(c.tab, Blank(Home, made))
        BY <1>1, <3>1 DEF Becomes
      <4> QED
        BY <1>1, <4>1, TabMoves, FrontendAssumption
    <3> QED
      BY <1>2, <1>8, <3>1 DEF SignIn
  <2> QED
    BY <2>1, <2>2, <2>3, <2>4, AuthStep
<1>9. CASE LoggedOut(c)
  <2>1. Turn({c}, {}, {})
    BY <1>1, <1>9, EndTurns DEF LoggedOut
  <2>2. c.kind = "logout" /\ SessionInv'
    BY <1>1, <1>9, LogoutSettlesKeeps, Zenon DEF LoggedOut, LogoutSettles
  <2>3. Becomes(c.tab, Blank("login", made))
    BY <1>1, <1>9 DEF Becomes, LoggedOut
  <2>4. "login" \in PageNames
    BY DEF PageNames, Book
  <2>5. LocksMove
    BY <1>1, <2>3, <2>4, TabMoves
  <2> QED
    BY <2>1, <2>2, <2>5, AuthStep
<1>10. CASE FrameSettles(c) \/ LoadSettles(c)
  <2>1. PageStep
    BY <1>1, <1>10, FrameSettlesSteps, LoadSettlesSteps
  <2>2. UNCHANGED <<issued, alive, spent, cookie, refreshing>>
    BY <1>10 DEF FrameSettles, LoadSettles, tokens, session
  <2> QED
    BY <2>1, <2>2, PageStepKeeps
<1>11. CASE WriteSettles(c)
  <2>1. IInv' /\ LocksInv' /\ AuthCalls' = AuthCalls
    BY <1>11, WriteSettlesSteps, OthersKeepAuth DEF FullInv
  <2>2. UNCHANGED <<issued, alive, spent, cookie, refreshing>>
    BY <1>11 DEF WriteSettles, tokens, session
  <2> QED
    BY <1>1, <2>1, <2>2, SessionStands DEF FullInv
<1> QED
  BY <1>3, <1>4, <1>5, <1>6, <1>7, <1>8, <1>9, <1>10, <1>11 DEF ClientStep

LEMMA UserKeeps ==
    ASSUME FullInv, NEW t \in Tab, UserStep(t)
    PROVE  FullInv'
<1>1. CallsOK(calls, made) /\ IInv /\ SessionInv /\ LocksInv
  BY DEF FullInv, IInv
<1>2. ASSUME NEW f, Type(t, f)
      PROVE  FullInv'
  <2>1. UNCHANGED <<issued, alive, spent, cookie, refreshing>>
    BY <1>2 DEF Type, clientVars, tokens, session
  <2> QED
    BY <1>1, <1>2, <2>1, TypeSteps, PageStepKeeps
<1>3. ASSUME NEW w \in Book[view[t].page].writes, Click(t, w)
      PROVE  FullInv'
  <2>1. UNCHANGED <<issued, alive, spent, cookie, refreshing>>
    BY <1>3 DEF Click, tokens, session
  <2>2. IInv' /\ LocksInv' /\ AuthCalls' = AuthCalls
    BY <1>1, <1>3, ClickSteps, OthersKeepAuth
  <2> QED
    BY <1>1, <2>1, <2>2, SessionStands DEF FullInv
<1>4. CASE Choose(t)
  <2>1. UNCHANGED <<issued, alive, spent, cookie, refreshing>>
    BY <1>4 DEF Choose, tokens, session
  <2> QED
    BY <1>1, <1>4, <2>1, ChooseSteps, PageStepKeeps
<1>5. ASSUME NEW kind \in {"login", "register", "logout"}, Submit(t, kind), UNCHANGED view
      PROVE  FullInv'
  <2>1. UNCHANGED <<issued, alive, spent, cookie, refreshing>>
    BY <1>5 DEF Submit, tokens, session
  <2>2. PICK e : /\ Turn({}, {}, {e}) /\ e.kind = kind /\ e.pc = "sent"
                 /\ e.kind \in {"refresh", "logout"} => e.with = cookie
    BY <1>1, <1>5, SubmitTurns
  <2>3. SessionInv'
    BY <1>1, <2>1, <2>2, SentKeeps
  <2>4. LocksMove
    BY <1>1, <1>5, ViewsStand
  <2> QED
    BY <2>2, <2>3, <2>4, AuthStep
<1>6. \A kind \in {"login", "register"} : SubmitLogin(t, kind) => FullInv'
  BY <1>5 DEF SubmitLogin, pageVars
<1>7. LogOut(t) => FullInv'
  BY <1>5 DEF LogOut, pageVars
<1> QED
  BY <1>2, <1>3, <1>4, <1>6, <1>7 DEF UserStep

LEMMA FullInvStep == FullInv /\ [Next]_vars => FullInv'
<1> SUFFICES ASSUME FullInv, [Next]_vars
             PROVE  FullInv'
  OBVIOUS
<1>1. IInv /\ SessionInv /\ LocksInv /\ CallsOK(calls, made)
  BY DEF FullInv, IInv
<1>2. CASE Advance
  <2>1. ASSUME NEW t \in Tab, Enter(t) \/ Redirect(t)
        PROVE  FullInv'
    <3>1. PageStep
      BY <1>1, <2>1, EnterSteps, RedirectSteps
    <3>2. UNCHANGED <<issued, alive, spent, cookie, refreshing>>
      BY <2>1 DEF Enter, Redirect, clientVars, tokens, session
    <3> QED
      BY <3>1, <3>2, PageStepKeeps
  <2> QED
    BY <1>2, <2>1, ServerKeeps, ClientKeeps DEF Advance, Progress
<1>3. CASE Faults
  <2>1. LocksMove
    BY <1>1, <1>3, ViewsStand DEF Faults, pageVars
  <2>2. CASE Lapse
    <3>1. UNCHANGED <<issued, alive, spent, cookie, refreshing, calls, made>>
      BY <2>2 DEF Lapse, session
    <3>2. Turn({}, {}, {})
      BY <1>1, <3>1 DEF Turn, CallsOK
    <3>3. SessionInv'
      BY <1>1, <3>1, SessionStands DEF AuthCalls
    <3> QED
      BY <2>1, <3>2, <3>3, AuthStep
  <2>3. ASSUME NEW c \in calls, Lose(c)
        PROVE  FullInv'
    <3>1. PICK d : Turn({c}, {d}, {}) /\ SameRequest(c, d)
      BY <1>1, <2>3, LoseTurns, Zenon
    <3>2. SessionInv'
      BY <1>1, <2>3, LoseKeeps
    <3> QED
      BY <2>1, <3>1, <3>2, AuthStep
  <2> QED
    BY <1>3, <2>2, <2>3 DEF Faults
<1>4. CASE Use
  BY <1>4, UserKeeps DEF Use
<1>5. CASE UNCHANGED vars
  <2>1. UNCHANGED <<issued, alive, spent, cookie, refreshing, calls, made, view>>
    BY <1>5 DEF vars, clientVars, pageVars, tokens, session
  <2>2. Turn({}, {}, {})
    BY <1>1, <2>1 DEF Turn, CallsOK
  <2>3. SessionInv'
    BY <1>1, <2>1, SessionStands DEF AuthCalls
  <2>4. LocksMove
    BY <1>1, <2>1, ViewsStand
  <2> QED
    BY <2>2, <2>3, <2>4, AuthStep
<1> QED
  BY <1>2, <1>3, <1>4, <1>5 DEF Next

\* Tabs are numbered: no two have the same Ordinal.
LEMMA Ordinals ==
    ASSUME IsFiniteSet(Tab)
    PROVE  /\ Cardinality(Tab) \in Nat
           /\ Ordinal \in [Tab -> 1 .. Cardinality(Tab)]
           /\ \A t, u \in Tab : Ordinal[t] = Ordinal[u] => t = u
<1>1. Cardinality(Tab) \in Nat /\ ExistsBijection(Tab, 1 .. Cardinality(Tab))
  BY FS_CardinalityType, Fun_ExistsBijSymmetric
<1>2. PICK f \in [Tab -> 1 .. Cardinality(Tab)] : \A t, u \in Tab : f[t] = f[u] => t = u
  BY <1>1 DEF ExistsBijection, Bijection, Injection, Surjection, IsInjective
<1> QED
  BY <1>1, <1>2 DEF Ordinal

LEMMA InitKeeps ==
    ASSUME IsFiniteSet(Tab), Init
    PROVE  FullInv
<1>1. /\ issued = 1 /\ alive = {1} /\ spent = {} /\ cookie \in {0, 1}
  BY DEF Init, OnePage, AllTabs
<1>2. /\ view = [t \in Tab |-> view[t]]
      /\ \A t \in Tab : /\ IsView(view[t]) /\ view[t].page \in PageNames
                        /\ view[t].visit = 0 /\ view[t].locks = {}
  <2>1. "login" \in PageNames /\ Home \in PageNames
    BY FrontendAssumption DEF PageNames, Book
  <2>2. \A p : /\ IsView(Blank(p, 0)) /\ Blank(p, 0).page = p
               /\ Blank(p, 0).visit = 0 /\ Blank(p, 0).locks = {}
    BY BlankFields
  <2>3. LET v == [Blank("login", 0) EXCEPT !.stage = "left"]
        IN  IsView(v) /\ v.page = "login" /\ v.visit = 0 /\ v.locks = {}
    BY <2>2 DEF IsView
  <2>4. CASE AllTabs
    BY <2>1, <2>2, <2>4 DEF AllTabs
  <2>5. CASE OnePage
    <3>1. PICK p \in PageNames :
             view = [t \in Tab |-> IF t = FirstTab THEN Blank(p, 0)
                                   ELSE [Blank("login", 0) EXCEPT !.stage = "left"]]
      BY <2>5 DEF OnePage
    <3> QED
      BY <2>1, <2>2, <2>3, <3>1
  <2> QED
    BY <2>4, <2>5 DEF Init
<1>3. CASE OnePage
  <2>1. calls = {} /\ made = 0 /\ refreshing = [t \in Tab |-> 0]
    BY <1>3 DEF OnePage
  <2>2. IInv
    BY <1>2, <2>1 DEF IInv, CallsOK, ViewsOK
  <2>3. SessionInv
    BY <1>1, <2>1
       DEF SessionInv, TokensOK, RefreshKnown, PresentsIssued, PairsFresh, CookieUsed, SentUsed,
           RefusedUsed, AuthCalls
  <2>4. LocksInv
    BY <1>2, <2>1 DEF LocksInv, LocksOK, Writes
  <2> QED
    BY <2>2, <2>3, <2>4 DEF FullInv
<1>4. CASE AllTabs
  <2>1. /\ made = 2 * Cardinality(Tab) /\ refreshing = [t \in Tab |-> 2 * Ordinal[t] - 1]
        /\ calls = UNION {Mounting(t, refreshing[t]) : t \in Tab}
    BY <1>4 DEF AllTabs
  <2> DEFINE R(t) == Exchange(t, refreshing[t], "refresh")
             M(t) == [Exchange(t, refreshing[t] + 1, "mount") EXCEPT
                         !.pc = "waiting", !.awaits = refreshing[t]]
  <2>2. calls = {R(t) : t \in Tab} \cup {M(t) : t \in Tab}
    <3>1. \A t \in Tab : Mounting(t, refreshing[t]) = {R(t), M(t)}
      BY DEF Mounting
    <3> HIDE DEF R, M
    <3> QED
      BY <2>1, <3>1
  <2>3. \A t \in Tab :
          /\ IsExchange(R(t)) /\ R(t).tab = t /\ R(t).id = refreshing[t] /\ R(t).kind = "refresh"
          /\ R(t).pc = "sent" /\ R(t).answer = "none" /\ R(t).runs = 0 /\ R(t).with = cookie
    BY ExchangeFields
  <2>4. ASSUME NEW t \in Tab
        PROVE
          /\ IsExchange(M(t)) /\ M(t).tab = t /\ M(t).id = refreshing[t] + 1
          /\ M(t).kind = "mount" /\ M(t).pc = "waiting" /\ M(t).answer = "none"
          /\ M(t).runs = 0
    BY Zenon DEF IsExchange, Exchange
  <2> HIDE DEF R, M
  <2>5. /\ made \in Nat
        /\ \A t \in Tab : refreshing[t] \in 1 .. made /\ refreshing[t] + 1 \in 1 .. made
        /\ \A t, u \in Tab : /\ refreshing[t] # refreshing[u] + 1
                             /\ refreshing[t] = refreshing[u] => t = u
    <3>1. \A t \in Tab : Ordinal[t] \in 1 .. Cardinality(Tab)
                         /\ refreshing[t] = 2 * Ordinal[t] - 1
      BY <2>1, Ordinals
    <3> QED
      BY <2>1, <3>1, Ordinals
  <2>6. CallsOK(calls, made)
    <3>1. \A c \in calls : Typed(c, made)
      BY <2>2, <2>3, <2>4, <2>5 DEF Typed, NoRetryPaths
    <3>2. \A c, d \in calls : c.id = d.id => c = d
      BY <2>2, <2>3, <2>4, <2>5
    <3> QED
      BY <2>5, <3>1, <3>2 DEF CallsOK
  <2>7. \A c \in calls : c.kind \in {"refresh", "mount"}
    BY <2>2, <2>3, <2>4
  <2>8. IInv
    BY <1>2, <2>5, <2>6, <2>7 DEF IInv, ViewsOK, Sent
  <2>9. SessionInv
    <3>1. \A c \in AuthCalls : /\ c.kind = "refresh" /\ c.id = refreshing[c.tab]
                               /\ c.pc = "sent" /\ c.with = cookie
      BY <2>2, <2>3, <2>4 DEF AuthCalls, AuthKinds
    <3>2. refreshing = [t \in Tab |-> refreshing[t]]
      BY <2>1
    <3> QED
      BY <1>1, <3>1, <3>2
         DEF SessionInv, TokensOK, RefreshKnown, PresentsIssued, PairsFresh, CookieUsed, SentUsed,
             RefusedUsed, Carries
  <2>10. LocksInv
    BY <1>2, <2>7 DEF LocksInv, LocksOK, Writes
  <2> QED
    BY <2>8, <2>9, <2>10 DEF FullInv
<1> QED
  BY <1>3, <1>4 DEF Init

(* The inductive invariant: calls in flight have distinct ids and a handler ran at most *)
(* once for each; a cookie that is no longer good was used by another tab or by a      *)
(* refresh whose answer is on its way; the locks of a page are those of the handlers   *)
(* it has in flight.                                                                   *)
THEOREM FullInvHolds ==
    ASSUME IsFiniteSet(Tab)
    PROVE  Spec => []FullInv
<1>1. Init => FullInv
  BY InitKeeps
<1> QED
  BY <1>1, FullInvStep, PTL DEF Spec

(* A refresh is refused only where another tab, a logout or a lost answer used the token *)
(* that it presents: rawRequest() and the shared promise of api.ts never use one twice.   *)
THEOREM RefusalsAreExplained ==
    ASSUME IsFiniteSet(Tab)
    PROVE  Spec => []RefusedForCause
<1>1. FullInv => RefusedForCause
  BY DEF FullInv, SessionInv, RefusedUsed, UsedByOther, RefusedForCause, AuthCalls, AuthKinds
<1> QED
  BY <1>1, FullInvHolds, PTL

(* The retry of apiFetch() after a refresh, in api.ts, never runs a handler of the server *)
(* a second time.                                                                       *)
THEOREM WritesRunOnce ==
    ASSUME IsFiniteSet(Tab)
    PROVE  Spec => []CallsRunOnce
<1>1. FullInv => CallsRunOnce
  BY DEF FullInv, IInv, CallsOK, Typed, CallsRunOnce
<1> QED
  BY <1>1, FullInvHolds, PTL

(* On every page but the billing page a button is disabled exactly while a handler that   *)
(* shares its lock awaits its answer, and two such handlers never run at once.          *)
THEOREM ButtonsFollowHandlers ==
    ASSUME IsFiniteSet(Tab)
    PROVE  Spec => []LocksFollowWrites
<1>1. FullInv => LocksFollowWrites
  BY DEF FullInv, LocksInv, LocksOK, LocksFollowWrites
<1> QED
  BY <1>1, FullInvHolds, PTL

-----------------------------------------------------------------------------
(* The forms of the pages *)

\* Of the forms only the one for a new skill is emptied before it is sent.
LEMMA GivenForms ==
    \A p \in PageNames : \A w \in Book[p].writes :
        w.after = "given" => \A f \in w.form : <<p, f>> \in ClearedAtOnce
<1>11. \A w \in ApplyForm.writes : w.after # "given"
  BY Zenon DEF ApplyForm, SessionPage, Page, Write
<1>12. \A w \in ApplicationDetail.writes : w.after # "given"
  BY Zenon DEF ApplicationDetail, SessionPage, Page, Write
<1>13. \A w \in OfferReview.writes : w.after # "given"
  BY Zenon DEF OfferReview, SessionPage, Page, Write
<1>14. \A w \in NotificationsList.writes : w.after # "given"
  BY DEF NotificationsList, SessionPage, Page, Write
<1>15. \A w \in DocumentsPanel.writes : w.after # "given"
  BY Zenon DEF DocumentsPanel, SessionPage, Page, Write
<1>16. \A w \in NewJob.writes : w.after # "given"
  BY Zenon DEF NewJob, OrgPage, Page, Write
<1>17. \A w \in EditJob.writes : w.after # "given"
  BY Zenon DEF SaveJob, SaveStages, Lifecycle, EditJob, OrgPage, Page, Write
<1>18. \A w \in JobApplication.writes : w.after # "given"
  BY Zenon DEF Acting, ScreeningButtons, DecisionButtons, AddToTalentPool, JobApplication, OrgPage,
         Page, Write
<1>19. \A w \in ScheduleInterview.writes : w.after # "given"
  BY Zenon DEF ScheduleInterview, OrgPage, Page, Write
<1>20. \A w \in CreateOffer.writes : w.after # "given"
  BY Zenon DEF CreateOffer, OrgPage, Page, Write
<1>21. \A w \in Interviewer.writes : w.after # "given"
  BY Zenon DEF Interviewer, OrgPage, Page, Write
<1>22. \A w \in PipelineTemplates.writes : w.after # "given"
  BY Zenon DEF PipelineTemplates, OrgPage, Page, Write
<1>23. \A w \in TalentPools.writes : w.after # "given"
  BY Zenon DEF TalentPools, OrgPage, Page, Write
<1>24. \A w \in TalentPoolDetail.writes : w.after # "given"
  BY DEF TalentPoolDetail, OrgPage, Page, Write
<1>25. \A w \in Partnerships.writes : w.after # "given"
  BY Zenon DEF BothPartnershipGets, Partnerships, OrgPage, Page, Write
<1>26. \A w \in GeneralSettings.writes : w.after # "given"
  BY Zenon DEF GeneralSettings, OrgPage, Page, Write
<1>27. \A w \in TeamSettings.writes : w.after # "given"
  BY Zenon DEF Acting, Invite, ConfirmAction, TeamSettings, OrgPage, Page, Write
<1>28. \A w \in BillingSettings.writes : w.after # "given"
  BY Zenon DEF BillingSettings, OrgPage, Page, Write
<1>29. \A w \in ChecklistPanel.writes : w.after # "given"
  BY Zenon DEF ChecklistPanel, OrgPage, Page, Write
<1>30. \A w \in AdminOrganizations.writes : w.after # "given"
  BY Zenon DEF Decisions, AdminOrganizations, SessionPage, Page, Write
<1>31. \A w \in AdminUniversities.writes : w.after # "given"
  BY Zenon DEF AdminUniversities, SessionPage, Page, Write
<1>32. \A w \in RegisterOrganization.writes : w.after # "given"
  BY Zenon DEF OneForm, RegisterOrganization, Page, Write
<1>33. \A w \in AcceptInvitation.writes : w.after # "given"
  BY Zenon DEF OneForm, AcceptInvitation, Page, Write
<1>34. \A w \in ResetPassword.writes : w.after # "given"
  BY Zenon DEF OneForm, ResetPassword, Page, Write
<1>35. \A w \in ForgotPassword.writes : w.after # "given"
  BY Zenon DEF OneForm, ForgotPassword, Page, Write
<1>36. \A w \in CandidateDashboard.writes : FALSE
  BY DEF CandidateDashboard, SessionPage, Page
<1>37. \A w \in ApplicationsList.writes : FALSE
  BY DEF ApplicationsList, SessionPage, Page
<1>38. \A w \in OffersList.writes : FALSE
  BY DEF OffersList, SessionPage, Page
<1>39. \A w \in OrgDashboard.writes : FALSE
  BY DEF OrgDashboard, OrgPage, Page
<1>40. \A w \in JobsList.writes : FALSE
  BY DEF JobsList, OrgPage, Page
<1>41. \A w \in Pipeline.writes : FALSE
  BY DEF Pipeline, OrgPage, Page
<1>42. \A w \in OrgOffers.writes : FALSE
  BY DEF OrgOffers, OrgPage, Page
<1>43. \A w \in AdminOverview.writes : FALSE
  BY DEF AdminOverview, SessionPage, Page
<1>44. \A w \in AuditLog.writes : FALSE
  BY DEF AuditLog, SessionPage, Page
<1>45. \A w \in VerifyEmail.writes : FALSE
  BY DEF VerifyEmail, Page
<1>46. \A w \in Login.writes : FALSE
  BY DEF Login, Page
<1>5. \A w \in ProfilePage.writes : w.after = "given" => w.form = {"newSkill"}
  <2>1. ProfilePage.writes = CvButtons \cup SkillsEditor
                     \cup {AboutForm, HandleUpload, ExperienceEditor, EducationEditor}
    BY DEF ProfilePage, SessionPage, Page
  <2>2. \A w \in CvButtons : w.after # "given"
    BY DEF CvButtons, Write
  <2>3. \A w \in SkillsEditor : w.after = "given" => w.form = {"newSkill"}
    <3> DEFINE Add == [Write("addSkill", {"skills"}) EXCEPT
                         !.shows = {"skills"}, !.form = {"newSkill"}, !.after = "given"]
               Remove == [Write("removeSkill", {"skills"}) EXCEPT !.shows = {"skills"}]
    <3>1. SkillsEditor = {Add, Remove}
      BY DEF SkillsEditor
    <3>2. Add.form = {"newSkill"}
      BY DEF Write
    <3>3. Remove.after # "given"
      BY DEF Write
    <3> HIDE DEF Add, Remove
    <3> QED
      BY <3>1, <3>2, <3>3
  <2>4. /\ AboutForm.after # "given" /\ HandleUpload.after # "given"
        /\ ExperienceEditor.after # "given" /\ EducationEditor.after # "given"
    BY DEF AboutForm, HandleUpload, ExperienceEditor, EducationEditor, Write
  <2> QED
    BY <2>1, <2>2, <2>3, <2>4
<1>6. \A p \in PageNames \ {"profile"} : \A w \in Book[p].writes : w.after # "given"
  BY <1>11, <1>12, <1>13, <1>14, <1>15, <1>16, <1>17, <1>18, <1>19, <1>20, <1>21, <1>22, <1>23,
     <1>24, <1>25, <1>26, <1>27, <1>28, <1>29, <1>30, <1>31, <1>32, <1>33, <1>34, <1>35, <1>36,
     <1>37, <1>38, <1>39, <1>40, <1>41, <1>42, <1>43, <1>44, <1>45, <1>46 DEF PageNames, Book
<1>7. Book["profile"] = ProfilePage
  BY DEF Book
<1> QED
  BY <1>5, <1>6, <1>7 DEF ClearedAtOnce

\* A page, a resource and the form whose fields the answer for it sets: the page is shown
\* when the answer is here, and asks for it once.
Seeding == {<<"editJob", "job", "job">>, <<"createOffer", "application", "offer">>}

LEMMA Seeds ==
    \A p \in PageNames : \A s \in Book[p].seeds :
        <<p, s[2]>> \in Overwritten \/ <<p, s[1], s[2]>> \in Seeding
<1>1. \A P \in {CandidateDashboard, ApplicationsList, OffersList, ApplyForm, ApplicationDetail,
                OfferReview, NotificationsList, DocumentsPanel} :
        \A s \in P.seeds : FALSE
  BY Zenon DEF CandidateDashboard, ApplicationsList, OffersList, ApplyForm, ApplicationDetail,
         OfferReview, NotificationsList, DocumentsPanel, SessionPage, Page, Write
<1>2. \A P \in {OrgDashboard, JobsList, Pipeline, OrgOffers, NewJob, JobApplication, ScheduleInterview} :
        \A s \in P.seeds : FALSE
  BY Zenon DEF OrgDashboard, JobsList, Pipeline, OrgOffers, NewJob, Acting, ScreeningButtons,
         DecisionButtons, AddToTalentPool, JobApplication, ScheduleInterview, OrgPage, Page,
         Write
<1>3. \A P \in {Interviewer, PipelineTemplates, TalentPools, TalentPoolDetail, Partnerships,
                GeneralSettings, TeamSettings, BillingSettings, ChecklistPanel} :
        \A s \in P.seeds : FALSE
  BY ZenonT(40) DEF Acting, Interviewer, PipelineTemplates, TalentPools, TalentPoolDetail,
         BothPartnershipGets, Partnerships, GeneralSettings, Invite, ConfirmAction,
         TeamSettings, BillingSettings, ChecklistPanel, OrgPage, Page, Write
<1>4. \A P \in {AdminOverview, AdminOrganizations, AdminUniversities, AuditLog, RegisterOrganization} :
        \A s \in P.seeds : FALSE
  BY Zenon DEF AdminOverview, Decisions, AdminOrganizations, AdminUniversities, AuditLog, OneForm,
         RegisterOrganization, SessionPage, Page, Write
<1>5. \A P \in {AcceptInvitation, ResetPassword, ForgotPassword, VerifyEmail, Login} :
        \A s \in P.seeds : FALSE
  BY DEF OneForm, AcceptInvitation, ResetPassword, ForgotPassword, VerifyEmail, Login, Page,
         Write
<1>6. Book["profile"].seeds = {<<"about", "about">>}
  <2>1. ProfilePage.seeds = {<<"about", "about">>}
    BY DEF ProfilePage, SessionPage, Page
  <2> QED
    BY <2>1 DEF Book
<1>7. Book["editJob"].seeds = {<<"job", "job">>, <<"stages", "stages">>}
  <2>1. EditJob.seeds = {<<"job", "job">>, <<"stages", "stages">>}
    BY DEF EditJob, OrgPage, Page
  <2> QED
    BY <2>1 DEF Book
<1>8. Book["createOffer"].seeds = {<<"application", "offer">>}
  <2>1. CreateOffer.seeds = {<<"application", "offer">>}
    BY DEF CreateOffer, OrgPage, Page
  <2> QED
    BY <2>1 DEF Book
<1>9. \A p \in PageNames \ {"profile", "editJob", "createOffer"} :
         \A s \in Book[p].seeds : FALSE
  BY <1>1, <1>2, <1>3, <1>4, <1>5 DEF PageNames, Book
<1> QED
  BY <1>6, <1>7, <1>8, <1>9 DEF Overwritten, Seeding

\* Page P shows its form only once the one GET that brings r has set it, and no handler asks
\* for r again.
FormSetOnce(P, r, f) ==
    /\ P.layout = "org" /\ ~ P.keyed /\ r \in P.blank \ P.absent /\ r # "organization"
    /\ \A i, j \in DOMAIN P.gets : r \in P.gets[i] /\ r \in P.gets[j] => i = j
    /\ \E i \in DOMAIN P.gets : r \in P.gets[i]
    /\ \E w \in P.writes : f \in w.form
    /\ \A w \in P.writes : \A i \in DOMAIN w.reloads : FALSE

LEMMA SeedPages == FormSetOnce(EditJob, "job", "job") /\ FormSetOnce(CreateOffer, "application", "offer")
<1>1. /\ EditJob.layout = "org" /\ ~ EditJob.keyed /\ "job" \in EditJob.blank \ EditJob.absent
      /\ EditJob.gets = <<{"job"}, {"stages"}, {"templates"}>>
  BY DEF EditJob, OrgPage, Page
<1>2. /\ EditJob.writes = {SaveJob, SaveStages} \cup Lifecycle
  BY DEF EditJob, OrgPage, Page
<1>3. SaveJob.form = {"job"} /\ SaveJob.reloads = <<>> /\ SaveStages.reloads = <<>>
  BY DEF SaveJob, SaveStages, Write
<1>4. \A w \in Lifecycle : w.reloads = <<>>
  BY DEF Lifecycle, Write
<1>5. /\ CreateOffer.layout = "org" /\ ~ CreateOffer.keyed
      /\ "application" \in CreateOffer.blank \ CreateOffer.absent
      /\ CreateOffer.gets = <<{"application"}, {"offer"}>>
  BY DEF CreateOffer, OrgPage, Page
<1>6. \A w \in CreateOffer.writes : w.form = {"offer"} /\ w.reloads = <<>>
  BY Zenon DEF CreateOffer, OrgPage, Page, Write
<1>7. \E w \in CreateOffer.writes : TRUE
  BY DEF CreateOffer, OrgPage, Page, Write
<1>8. FormSetOnce(EditJob, "job", "job")
  BY <1>1, <1>2, <1>3, <1>4 DEF FormSetOnce
<1>9. FormSetOnce(CreateOffer, "application", "offer")
  BY <1>5, <1>6, <1>7 DEF FormSetOnce
<1> QED
  BY <1>8, <1>9

-----------------------------------------------------------------------------
(* What may still overwrite a form *)

SeedOf(p, r, f) == <<p, r, f>> \in Seeding

LEMMA SeedPagesAre ==
    ASSUME NEW p, NEW r, NEW f, SeedOf(p, r, f)
    PROVE  p \in PageNames /\ FormSetOnce(Book[p], r, f)
<1>1. Book["editJob"] = EditJob /\ Book["createOffer"] = CreateOffer
      /\ {"editJob", "createOffer"} \subseteq PageNames
  BY DEF Book, PageNames
<1>2. <<p, r, f>> = <<"editJob", "job", "job">> \/ <<p, r, f>> = <<"createOffer", "application", "offer">>
  BY DEF SeedOf, Seeding
<1> QED
  BY <1>1, <1>2, SeedPages

LEMMA LoginPage == "login" \in PageNames /\ Book["login"].layout = "none" /\ Forms("login") = {}
<1>1. Book["login"] = Login /\ "login" \in PageNames
  BY DEF Book, PageNames
<1>2. Login.layout = "none" /\ Login.writes = {}
  BY DEF Login, Page
<1> QED
  BY <1>1, <1>2 DEF Forms

\* GETs that bring r to the page a tab shows, and handlers of that page, in flight.
LoadsOf(t, r) ==
    {c \in calls : /\ c.kind = "load" /\ c.tab = t /\ c.visit = view[t].visit
                   /\ r \in c.get}
HandlersOf(t) == {c \in calls : c.kind = "write" /\ c.tab = t /\ c.visit = view[t].visit}

\* The page is shown, so that its form can be typed into.
Begun(t, r, f) ==
    \/ Has(view[t], r)
    \/ f \in DOMAIN view[t].text /\ view[t].text[f] # 0
    \/ HandlersOf(t) # {}

\* The answer that sets the form is awaited once, and before the user can type.
SeedOK(t, r, f) ==
    /\ \A c, d \in LoadsOf(t, r) : c = d
    /\ Begun(t, r, f) => LoadsOf(t, r) = {}
    /\ view[t].stage \in {"closed", "framed"} => LoadsOf(t, r) = {} /\ ~ Begun(t, r, f)

SeedsOK(t) == \A r, f : SeedOf(view[t].page, r, f) => SeedOK(t, r, f)

ShapeOK(t) ==
    /\ DOMAIN view[t].shown = Resources(view[t].page)
    /\ DOMAIN view[t].text = Forms(view[t].page)

TabOK(t) == SeedsOK(t) /\ ShapeOK(t)

SignKinds == {"login", "register", "me"}
SignCalls == {c \in calls : c.kind \in SignKinds}

\* One request at a time signs a tab in, and on the login page.
SignInv ==
    \A c \in SignCalls : /\ view[c.tab].page = "login"
                         /\ \A d \in SignCalls : d.tab = c.tab => d = c

EditsInv == typed \in Nat /\ SignInv /\ \A t \in Tab : TabOK(t)

\* What EditsAreKept says of one tab.
KeptIn(t) ==
    LET v == view[t]
    IN  view'[t].page = v.page =>
          \A f \in DOMAIN v.text :
              \/ v.text[f] = 0 \/ view'[t].text[f] # 0
              \/ <<v.page, f>> \in Overwritten \cup ClearedAtOnce
              \/ \E c \in Writes(t) \ calls' :
                    c.answer = "ok" /\ \E w \in Ops(c) : f \in w.form

\* The requests a page of tab t has in flight were so before.
NoneSent(t) ==
    \A d \in calls' : d.kind \in {"load", "write"} /\ d.tab = t =>
        \E c \in calls : SameRequest(c, d)

LEMMA SeedKept ==
    ASSUME IInv, IInv', NEW t \in Tab, NEW r, NEW f, SeedOK(t, r, f),
           \A d \in LoadsOf(t, r)' : \E c \in LoadsOf(t, r) : SameRequest(c, d),
           Begun(t, r, f)' => Begun(t, r, f),
           view'[t].stage \in {"closed", "framed"} => view[t].stage \in {"closed", "framed"}
    PROVE  SeedOK(t, r, f)'
<1>1. ASSUME NEW c \in LoadsOf(t, r)', NEW d \in LoadsOf(t, r)'
      PROVE  c = d
  <2>1. c.id = d.id /\ c \in calls' /\ d \in calls'
    BY <1>1 DEF SeedOK, SameRequest, LoadsOf
  <2> QED
    BY <2>1 DEF IInv, CallsOK
<1>2. LoadsOf(t, r) = {} => LoadsOf(t, r)' = {}
  OBVIOUS
<1> HIDE DEF LoadsOf, Begun
<1> QED
  BY <1>1, <1>2 DEF SeedOK

\* A tab that a step does not touch.
LEMMA TabStands ==
    ASSUME IInv, IInv', NEW t \in Tab, TabOK(t), view'[t] = view[t], NoneSent(t)
    PROVE  TabOK(t)' /\ KeptIn(t)
<1>1. ShapeOK(t)'
  BY DEF TabOK, ShapeOK
<1>2. ASSUME NEW r, NEW f, SeedOf(view[t].page, r, f)
      PROVE  SeedOK(t, r, f)'
  <2>1. SeedOK(t, r, f)
    BY <1>2 DEF TabOK, SeedsOK
  <2>2. \A d \in LoadsOf(t, r)' : \E c \in LoadsOf(t, r) : SameRequest(c, d)
    BY DEF LoadsOf, NoneSent, SameRequest
  <2>3. HandlersOf(t)' # {} => HandlersOf(t) # {}
    BY DEF HandlersOf, NoneSent, SameRequest
  <2>4. Begun(t, r, f)' => Begun(t, r, f)
    BY <2>3 DEF Begun, Has
  <2> QED
    BY <2>1, <2>2, <2>4, SeedKept
<1>3. SeedsOK(t)'
  BY <1>2 DEF SeedsOK, SeedOf, Seeding
<1> QED
  BY <1>1, <1>3 DEF TabOK, KeptIn

\* A tab that shows a page anew.
LEMMA TabIsBlank ==
    ASSUME IInv, IInv', NEW t \in Tab, NEW p \in PageNames, view'[t] = Blank(p, made),
           NoneSent(t)
    PROVE  TabOK(t)'
<1>1. PICK v : /\ view'[t] = v
               /\ v.page = p /\ v.visit = made /\ v.stage = "closed"
               /\ DOMAIN v.shown = Resources(p) /\ DOMAIN v.text = Forms(p)
               /\ \A r \in Resources(p) : v.shown[r].version = 0
               /\ \A f \in Forms(p) : v.text[f] = 0
  BY DEF Blank
<1>2. \A c \in calls : c.kind \in {"load", "write"} => c.visit # made
  BY DEF IInv, CallsOK, Typed
<1>3. \A d \in calls' : d.kind \in {"load", "write"} /\ d.tab = t => d.visit # made
  BY <1>2 DEF NoneSent, SameRequest
<1>4. ASSUME NEW r, NEW f, SeedOf(p, r, f)
      PROVE  SeedOK(t, r, f)'
  <2>1. r \in Resources(p)
    BY <1>4, SeedPagesAre DEF FormSetOnce, Resources, ElementsOf
  <2>2. LoadsOf(t, r)' = {} /\ HandlersOf(t)' = {}
    BY <1>1, <1>3 DEF LoadsOf, HandlersOf
  <2>3. ~ Begun(t, r, f)'
    BY <1>1, <2>1, <2>2 DEF Begun, Has
  <2> QED
    BY <2>2, <2>3 DEF SeedOK
<1>5. SeedsOK(t)'
  BY <1>1, <1>4 DEF SeedsOK, SeedOf, Seeding
<1>6. ShapeOK(t)'
  BY <1>1 DEF ShapeOK, Resources, Forms
<1> QED
  BY <1>5, <1>6 DEF TabOK

LEMMA SignTurn ==
    ASSUME IInv, IInv', SignInv, NEW gone, NEW back, NEW new, Turn(gone, back, new),
           \A c \in SignCalls : c \notin gone \/ back # {} => view'[c.tab].page = "login",
           \A e \in new : e.kind \in SignKinds =>
               /\ view'[e.tab].page = "login" /\ back = {}
               /\ \A d \in SignCalls : d.tab = e.tab => d \in gone
               /\ \A d \in new : d = e
    PROVE  SignInv'
<1>1. \A c \in calls : SameRequest(c, c)
  BY DEF IInv, CallsOK, Typed, SameRequest
<1>2. \A d \in SignCalls' : \/ d \in new
                            \/ \E c \in SignCalls : /\ c \notin gone \/ back # {}
                                                    /\ SameRequest(c, d)
  <2> SUFFICES ASSUME NEW d \in SignCalls', d \notin new
               PROVE  \E c \in SignCalls : /\ c \notin gone \/ back # {}
                                           /\ SameRequest(c, d)
    OBVIOUS
  <2>1. d \in calls \ gone \/ d \in back
    BY DEF SignCalls, Turn
  <2>2. CASE d \in calls \ gone
    BY <1>1, <2>2 DEF SignCalls
  <2>3. CASE d \in back
    <3>1. PICK c \in gone : SameRequest(c, d)
      BY <2>3 DEF Turn
    <3>2. c \in SignCalls
      BY <3>1 DEF SignCalls, SameRequest, Turn
    <3> QED
      BY <2>3, <3>1, <3>2
  <2> QED
    BY <2>1, <2>2, <2>3
<1>3. \A d \in SignCalls' : d.kind \in SignKinds /\ d \in calls'
  BY DEF SignCalls
<1>4. ASSUME NEW d \in SignCalls'
      PROVE  view'[d.tab].page = "login"
  BY <1>2, <1>3, <1>4 DEF SameRequest
<1>5. ASSUME NEW c \in SignCalls', NEW d \in SignCalls', d.tab = c.tab
      PROVE  d = c
  <2>1. CASE c \in new \/ d \in new
    BY <1>2, <1>3, <1>5, <2>1 DEF SameRequest
  <2>2. CASE c \notin new /\ d \notin new
    <3>1. PICK e \in SignCalls : SameRequest(e, c)
      BY <1>2, <2>2
    <3>2. PICK g \in SignCalls : SameRequest(g, d)
      BY <1>2, <2>2
    <3>3. e = g
      BY <1>5, <3>1, <3>2 DEF SameRequest, SignInv
    <3> QED
      BY <1>3, <3>1, <3>2, <3>3 DEF SameRequest, IInv, CallsOK
  <2> QED
    BY <2>1, <2>2
<1> QED
  BY <1>4, <1>5 DEF SignInv

\* A step that begins no request of a page, and leaves a page only for another one.
LEMMA OffPageSteps ==
    ASSUME IInv, IInv', EditsInv, UNCHANGED typed,
           NEW gone, NEW back, NEW new, Turn(gone, back, new),
           \A e \in new : e.kind \notin {"load", "write"},
           \A t \in Tab : \/ view'[t] = view[t]
                          \/ \E p \in PageNames : /\ view'[t] = Blank(p, made)
                                                  /\ p = "login" \/ p # view[t].page,
           \A c \in SignCalls : c \notin gone \/ back # {} => view'[c.tab].page = "login",
           \A e \in new : e.kind \in SignKinds =>
               /\ view'[e.tab].page = "login" /\ back = {}
               /\ \A d \in SignCalls : d.tab = e.tab => d \in gone
               /\ \A d \in new : d = e
    PROVE  EditsInv' /\ \A t \in Tab : KeptIn(t)
<1>1. SignInv'
  BY SignTurn DEF EditsInv
<1>2. ASSUME NEW t \in Tab
      PROVE  NoneSent(t)
  <2>1. \A c \in calls : SameRequest(c, c)
    BY DEF IInv, CallsOK, Typed, SameRequest
  <2> QED
    BY <2>1 DEF Turn, NoneSent
<1>3. ASSUME NEW t \in Tab
      PROVE  TabOK(t)' /\ KeptIn(t)
  <2>1. CASE view'[t] = view[t]
    BY <1>2, <2>1, TabStands DEF EditsInv
  <2>2. ASSUME NEW p \in PageNames, view'[t] = Blank(p, made), p = "login" \/ p # view[t].page
        PROVE  TabOK(t)' /\ KeptIn(t)
    <3>1. TabOK(t)'
      BY <1>2, <2>2, TabIsBlank
    <3>2. view[t].page = "login" => DOMAIN view[t].text = {}
      BY LoginPage DEF EditsInv, TabOK, ShapeOK
    <3>3. view'[t].page = p
      BY <2>2, BlankFields
    <3> QED
      BY <2>2, <3>1, <3>2, <3>3 DEF KeptIn
  <2> QED
    BY <2>1, <2>2
<1> QED
  BY <1>1, <1>3 DEF EditsInv

\* A step of the page in tab t.
LEMMA OnPageSteps ==
    ASSUME IInv, IInv', EditsInv, typed' \in Nat, OtherCalls' = OtherCalls, NEW t \in Tab,
           view'[t].page = view[t].page, TabOK(t)', KeptIn(t),
           \A u \in Tab \ {t} : view'[u] = view[u] /\ NoneSent(u)
    PROVE  EditsInv' /\ \A u \in Tab : KeptIn(u)
<1>1. SignCalls' = SignCalls
  <2>1. /\ SignCalls = {c \in OtherCalls : c.kind \in SignKinds}
        /\ SignCalls' = {c \in OtherCalls' : c.kind \in SignKinds}
    BY DEF SignCalls, OtherCalls, SignKinds
  <2> QED
    BY <2>1
<1>2. SignInv'
  <2>1. \A c \in SignCalls : c.tab \in Tab
    BY DEF SignCalls, IInv, CallsOK, Typed
  <2> QED
    BY <1>1, <2>1 DEF EditsInv, SignInv
<1>3. \A u \in Tab \ {t} : TabOK(u)' /\ KeptIn(u)
  BY TabStands DEF EditsInv
<1> QED
  BY <1>2, <1>3 DEF EditsInv

-----------------------------------------------------------------------------
(* The steps keep what the user typed *)

LEMMA OthersSendNone ==
    ASSUME IInv, NEW t \in Tab, NEW new, calls' \subseteq calls \cup new,
           \A d \in new : d.tab = t
    PROVE  \A u \in Tab \ {t} : NoneSent(u)
<1>1. \A c \in calls : SameRequest(c, c)
  BY DEF IInv, CallsOK, Typed, SameRequest
<1> QED
  BY <1>1 DEF NoneSent

LEMMA LoadsGet ==
    ASSUME made \in Nat, NEW t \in Tab, NEW p, NEW visit \in 0 .. made, NEW gets, NEW k,
           Listed(gets)
    PROVE  \A d \in Loads(t, p, visit, gets, k) :
               \E i \in DOMAIN gets : d.id = made + i /\ d.get = gets[i]
<1> DEFINE D(i) == [Exchange(t, made + i, "load") EXCEPT
                       !.page = p, !.visit = visit, !.get = gets[i], !.key = k]
<1>1. Loads(t, p, visit, gets, k) = {D(i) : i \in DOMAIN gets}
  BY DEF Loads
<1>2. ASSUME NEW i
      PROVE  D(i).id = made + i /\ D(i).get = gets[i]
  BY DEF Exchange
<1> HIDE DEF D
<1> QED
  BY <1>1, <1>2

\* A page that can be typed into has what its form is set from.
LEMMA UsableBegun ==
    ASSUME NEW t \in Tab, Usable(view[t]), NEW r, NEW f, SeedOf(view[t].page, r, f)
    PROVE  Begun(t, r, f)
  BY SeedPagesAre DEF FormSetOnce, Usable, Begun

LEMMA TypeEdits ==
    ASSUME IInv, IInv', EditsInv, OtherCalls' = OtherCalls, NEW t \in Tab, NEW f, Type(t, f)
    PROVE  EditsInv' /\ \A u \in Tab : KeptIn(u)
<1>1. /\ IsView(view[t]) /\ view = [u \in Tab |-> view[u]]
      /\ typed' \in Nat /\ typed' # 0 /\ TabOK(t)
  BY DEF IInv, ViewsOK, EditsInv, Type
<1>2. PICK v : /\ Becomes(t, v) /\ SameMount(view[t], v) /\ v.stage = view[t].stage
               /\ v.shown = view[t].shown /\ DOMAIN v.text = DOMAIN view[t].text
               /\ \A g \in DOMAIN v.text : v.text[g] \in {view[t].text[g], typed'}
  <2> DEFINE text == [view[t].text EXCEPT ![f] = typed']
             v == [view[t] EXCEPT !.text = text]
  <2>1. Becomes(t, v)
    BY <1>1 DEF Type, Becomes
  <2>2. /\ SameMount(view[t], v) /\ v.stage = view[t].stage /\ v.shown = view[t].shown
        /\ v.text = text
    BY <1>1 DEF SameMount, IsView
  <2>3. /\ DOMAIN text = DOMAIN view[t].text
        /\ \A g \in DOMAIN text : text[g] \in {view[t].text[g], typed'}
    OBVIOUS
  <2> HIDE DEF v, text
  <2> QED
    BY <2>1, <2>2, <2>3
<1>3. UNCHANGED calls /\ Usable(view[t])
  BY DEF Type, clientVars
<1>4. \A u \in Tab : NoneSent(u)
  BY <1>3 DEF NoneSent, IInv, CallsOK, Typed, SameRequest
<1>5. view'[t] = v /\ v.page = view[t].page /\ v.visit = view[t].visit
  BY <1>2 DEF Becomes, SameMount
<1>6. KeptIn(t)
  BY <1>1, <1>2, <1>5 DEF KeptIn
<1>7. ASSUME NEW r, NEW g, SeedOf(view[t].page, r, g)
      PROVE  SeedOK(t, r, g)'
  <2>1. SeedOK(t, r, g) /\ Begun(t, r, g)
    BY <1>1, <1>3, <1>7, UsableBegun DEF TabOK, SeedsOK
  <2>2. \A d \in LoadsOf(t, r)' : \E c \in LoadsOf(t, r) : SameRequest(c, d)
    BY <1>3, <1>5 DEF LoadsOf, IInv, CallsOK, Typed, SameRequest
  <2> QED
    BY <1>2, <1>5, <2>1, <2>2, SeedKept
<1>8. TabOK(t)'
  BY <1>1, <1>2, <1>5, <1>7 DEF TabOK, SeedsOK, ShapeOK
<1> QED
  BY <1>1, <1>2, <1>4, <1>5, <1>6, <1>8, OnPageSteps DEF Becomes

LEMMA ClickEdits ==
    ASSUME IInv, IInv', EditsInv, OtherCalls' = OtherCalls, NEW t \in Tab,
           NEW w \in Book[view[t].page].writes, Click(t, w)
    PROVE  EditsInv' /\ \A u \in Tab : KeptIn(u)
<1>1. /\ IsView(view[t]) /\ view = [u \in Tab |-> view[u]] /\ view[t].page \in PageNames
      /\ TabOK(t)
  BY DEF IInv, ViewsOK, EditsInv
<1>2. PICK v : /\ Becomes(t, v) /\ SameMount(view[t], v) /\ v.stage = view[t].stage
               /\ v.shown = view[t].shown /\ DOMAIN v.text = DOMAIN view[t].text
               /\ \A g \in DOMAIN v.text :
                    \/ v.text[g] = view[t].text[g]
                    \/ g \in w.form /\ w.after = "given" /\ v.text[g] = 0
  <2> DEFINE text == [g \in DOMAIN view[t].text |->
                        IF g \in w.form /\ w.after = "given" THEN 0 ELSE view[t].text[g]]
             v == [view[t] EXCEPT !.locks = Locked(view[t], w), !.text = text]
  <2>1. Becomes(t, v)
    BY <1>1, Zenon DEF Click, Becomes
  <2>2. /\ SameMount(view[t], v) /\ v.stage = view[t].stage /\ v.shown = view[t].shown
        /\ v.text = text
    BY <1>1, Zenon DEF SameMount, IsView
  <2>3. /\ DOMAIN text = DOMAIN view[t].text
        /\ \A g \in DOMAIN text : \/ text[g] = view[t].text[g]
                                  \/ g \in w.form /\ w.after = "given" /\ text[g] = 0
    OBVIOUS
  <2> HIDE DEF v, text
  <2> QED
    BY <2>1, <2>2, <2>3
<1>3. Usable(view[t]) /\ typed' = typed
  BY DEF Click
<1>4. PICK e : calls' = calls \cup {e} /\ e.kind = "write" /\ e.tab = t
  <2> DEFINE e == [Exchange(t, made', "write") EXCEPT
                      !.page = view[t].page, !.visit = view[t].visit, !.op = w.op,
                      !.key = view[t].key, !.text = TextOf(view[t], w)]
  <2>1. e.kind = "write" /\ e.tab = t
    BY DEF Exchange
  <2>2. calls' = calls \cup {e}
    BY DEF Click
  <2> HIDE DEF e
  <2> QED
    BY <2>1, <2>2
<1>5. view'[t] = v /\ v.page = view[t].page /\ v.visit = view[t].visit
  BY <1>2 DEF Becomes, SameMount
<1>6. KeptIn(t)
  <2>1. w.after = "given" => \A f \in w.form : <<view[t].page, f>> \in ClearedAtOnce
    BY <1>1, GivenForms
  <2> QED
    BY <1>2, <1>5, <2>1 DEF KeptIn
<1>7. ASSUME NEW r, NEW g, SeedOf(view[t].page, r, g)
      PROVE  SeedOK(t, r, g)'
  <2>1. SeedOK(t, r, g) /\ Begun(t, r, g)
    BY <1>1, <1>3, <1>7, UsableBegun DEF TabOK, SeedsOK
  <2>2. \A d \in LoadsOf(t, r)' : \E c \in LoadsOf(t, r) : SameRequest(c, d)
    BY <1>4, <1>5 DEF LoadsOf, IInv, CallsOK, Typed, SameRequest
  <2> QED
    BY <1>2, <1>5, <2>1, <2>2, SeedKept
<1>8. TabOK(t)'
  BY <1>1, <1>2, <1>5, <1>7 DEF TabOK, SeedsOK, ShapeOK
<1>9. \A u \in Tab \ {t} : NoneSent(u)
  <2> DEFINE new == {e}
  <2>1. calls' \subseteq calls \cup new /\ \A d \in new : d.tab = t
    BY <1>4
  <2> HIDE DEF new
  <2> QED
    BY <2>1, OthersSendNone
<1>10. \A u \in Tab \ {t} : view'[u] = view[u]
  BY <1>2 DEF Becomes
<1> QED
  BY <1>3, <1>5, <1>6, <1>8, <1>9, <1>10, OnPageSteps DEF EditsInv

LEMMA ChooseEdits ==
    ASSUME IInv, IInv', EditsInv, OtherCalls' = OtherCalls, NEW t \in Tab, Choose(t)
    PROVE  EditsInv' /\ \A u \in Tab : KeptIn(u)
<1>1. /\ IsView(view[t]) /\ view = [u \in Tab |-> view[u]] /\ view[t].page \in PageNames
      /\ TabOK(t) /\ made \in Nat /\ view[t].visit \in 0 .. made
  BY DEF IInv, ViewsOK, CallsOK, EditsInv
<1>2. PICK v : /\ Becomes(t, v) /\ v.page = view[t].page
               /\ v.shown = view[t].shown /\ v.text = view[t].text
  <2> DEFINE v == [view[t] EXCEPT !.key = 3 - view[t].key]
  <2>1. Becomes(t, v)
    BY <1>1, Zenon DEF Choose, Becomes
  <2>2. v.page = view[t].page /\ v.shown = view[t].shown /\ v.text = view[t].text
    BY <1>1 DEF IsView
  <2> HIDE DEF v
  <2> QED
    BY <2>1, <2>2
<1>3. Book[view[t].page].keyed /\ typed' = typed
  BY DEF Choose
<1>4. PICK new : calls' = calls \cup new /\ \A d \in new : d.tab = t
  <2> DEFINE gets == Book[view[t].page].gets
             k == 3 - view[t].key
             new == Loads(t, view[t].page, view[t].visit, gets, k)
  <2>1. calls' = calls \cup new
    BY DEF Choose
  <2>2. Listed(gets)
    BY <1>1, GetsListed
  <2> HIDE DEF gets, k
  <2>3. \A d \in new : d.tab = t
    BY <1>1, <2>2, LoadsFields
  <2> HIDE DEF new
  <2> QED
    BY <2>1, <2>3
<1>5. view'[t] = v
  BY <1>2 DEF Becomes
<1>6. KeptIn(t)
  BY <1>2, <1>5 DEF KeptIn
<1>7. TabOK(t)'
  <2>1. \A r, f : ~ SeedOf(view[t].page, r, f)
    BY <1>3, SeedPagesAre DEF FormSetOnce
  <2> QED
    BY <1>1, <1>2, <1>5, <2>1 DEF TabOK, SeedsOK, ShapeOK, SeedOf, Seeding
<1>8. \A u \in Tab \ {t} : view'[u] = view[u] /\ NoneSent(u)
  BY <1>2, <1>4, OthersSendNone DEF Becomes
<1> QED
  BY <1>2, <1>3, <1>5, <1>6, <1>7, <1>8, OnPageSteps DEF EditsInv

LEMMA EnterEdits ==
    ASSUME IInv, IInv', EditsInv, OtherCalls' = OtherCalls, NEW t \in Tab, Enter(t)
    PROVE  EditsInv' /\ \A u \in Tab : KeptIn(u)
<1> DEFINE p == view[t].page
           framed == Book[p].layout = "org"
           gets == IF framed THEN FrameGets(p) ELSE Book[p].gets
           new == Loads(t, p, view[t].visit, gets, 1)
<1>1. /\ IsView(view[t]) /\ view = [u \in Tab |-> view[u]] /\ p \in PageNames
      /\ TabOK(t) /\ made \in Nat /\ view[t].visit \in 0 .. made
  BY DEF IInv, ViewsOK, CallsOK, EditsInv
<1>2. PICK v : /\ Becomes(t, v) /\ SameMount(view[t], v)
               /\ v.shown = view[t].shown /\ v.text = view[t].text
  <2> DEFINE v == [view[t] EXCEPT !.stage = IF framed THEN "framed" ELSE "open"]
  <2>1. Becomes(t, v)
    BY <1>1 DEF Enter, Becomes
  <2>2. SameMount(view[t], v) /\ v.shown = view[t].shown /\ v.text = view[t].text
    BY <1>1 DEF SameMount, IsView
  <2> HIDE DEF v
  <2> QED
    BY <2>1, <2>2
<1>3. view[t].stage = "closed" /\ typed' = typed /\ calls' = calls \cup new
  BY DEF Enter
<1>4. Listed(gets)
  BY <1>1, GetsListed, FrameGetsListed
<1>5. framed => \A i \in DOMAIN gets : gets[i] = {"organization"}
  BY DEF FrameGets
<1> HIDE DEF gets
<1>6. \A d \in new : d.kind = "load" /\ d.tab = t /\ \E i \in DOMAIN gets : d.get = gets[i]
  BY <1>1, <1>4, LoadsFields, LoadsGet
<1> HIDE DEF new
<1>7. view'[t] = v /\ v.page = p /\ v.visit = view[t].visit
  BY <1>2 DEF Becomes, SameMount
<1>8. KeptIn(t)
  BY <1>2, <1>7 DEF KeptIn
<1>9. ASSUME NEW r, NEW f, SeedOf(p, r, f)
      PROVE  SeedOK(t, r, f)'
  <2>1. SeedOK(t, r, f)
    BY <1>1, <1>9 DEF TabOK, SeedsOK
  <2>2. \A d \in new : r \notin d.get
    BY <1>5, <1>6, <1>9, SeedPagesAre DEF FormSetOnce
  <2>3. \A d \in LoadsOf(t, r)' : \E c \in LoadsOf(t, r) : SameRequest(c, d)
    BY <1>3, <1>7, <2>2 DEF LoadsOf, IInv, CallsOK, Typed, SameRequest
  <2>4. Begun(t, r, f)' => Begun(t, r, f)
    BY <1>2, <1>3, <1>6, <1>7 DEF Begun, Has, HandlersOf
  <2> QED
    BY <1>3, <2>1, <2>3, <2>4, SeedKept
<1>10. TabOK(t)'
  BY <1>1, <1>2, <1>7, <1>9 DEF TabOK, SeedsOK, ShapeOK
<1>11. \A u \in Tab \ {t} : view'[u] = view[u] /\ NoneSent(u)
  BY <1>2, <1>3, <1>6, OthersSendNone DEF Becomes
<1> QED
  BY <1>3, <1>7, <1>8, <1>10, <1>11, OnPageSteps DEF EditsInv

\* The frame of a page gives way to the page, which asks once for what sets its form.
LEMMA FrameSettlesEdits ==
    ASSUME IInv, IInv', EditsInv, OtherCalls' = OtherCalls, NEW c \in calls, FrameSettles(c)
    PROVE  EditsInv' /\ \A u \in Tab : KeptIn(u)
<1> DEFINE t == c.tab
           gets == Book[c.page].gets
           all == Loads(t, c.page, c.visit, gets, 1)
<1>1. /\ t \in Tab /\ IsView(view[t]) /\ view = [u \in Tab |-> view[u]] /\ made \in Nat
      /\ c.kind = "load" /\ c.page = view[t].page /\ c.visit = view[t].visit
      /\ view[t].stage = "framed" /\ c.visit \in 0 .. made /\ c.page \in PageNames
      /\ TabOK(t) /\ typed' = typed
  BY Zenon DEF IInv, ViewsOK, CallsOK, Typed, FrameSettles, Sent, Here, EditsInv
<1>2. PICK new, v :
        /\ Becomes(t, v) /\ SameMount(view[t], v) /\ v.stage \in {"open", "gated"}
        /\ v.text = view[t].text /\ DOMAIN v.shown = DOMAIN view[t].shown
        /\ \A r \in DOMAIN view[t].shown : r # "organization" => v.shown[r] = view[t].shown[r]
        /\ new \in {all, {}} /\ calls' = Replaced(c, new)
  <2> DEFINE shown == IF c.answer = "ok"
                      THEN [view[t].shown EXCEPT !["organization"] =
                              [version |-> c.data["organization"], key |-> 1]]
                      ELSE view[t].shown
             missed == IF c.answer = "ok" THEN view[t].missed ELSE c.get
  <2>1. \/ /\ view' = [[view EXCEPT ![t].shown = shown, ![t].missed = missed]
                         EXCEPT ![t].stage = "open"]
           /\ calls' = Replaced(c, all)
        \/ /\ view' = [[view EXCEPT ![t].shown = shown, ![t].missed = missed]
                         EXCEPT ![t].stage = "gated"]
           /\ calls' = Replaced(c, {})
    BY DEF FrameSettles
  <2>2. DOMAIN shown = DOMAIN view[t].shown
    OBVIOUS
  <2>3. \A r : r \in DOMAIN view[t].shown /\ r # "organization" => shown[r] = view[t].shown[r]
    OBVIOUS
  <2> HIDE DEF shown, missed
  <2>4. PICK stage : /\ view' = [[view EXCEPT ![t].shown = shown, ![t].missed = missed]
                                   EXCEPT ![t].stage = stage]
                     /\ stage \in {"open", "gated"}
                     /\ calls' = Replaced(c, all) \/ calls' = Replaced(c, {})
    BY <2>1, Zenon
  <2> DEFINE v == [view[t] EXCEPT !.shown = shown, !.missed = missed, !.stage = stage]
  <2>5. Becomes(t, v)
    BY <1>1, <2>4, Zenon DEF Becomes
  <2>6. /\ SameMount(view[t], v) /\ v.stage = stage /\ v.text = view[t].text
        /\ v.shown = shown
    BY <1>1, Zenon DEF SameMount, IsView
  <2> HIDE DEF v, all
  <2> QED
    BY <2>2, <2>3, <2>4, <2>5, <2>6
<1>3. Listed(gets)
  BY <1>1, GetsListed
<1> HIDE DEF gets
<1>4. \A d \in all : /\ d.kind = "load" /\ d.tab = t
                    /\ \E i \in DOMAIN gets : d.id = made + i /\ d.get = gets[i]
  BY <1>1, <1>3, LoadsFields, LoadsGet
<1>5. calls' = (calls \ {c}) \cup new /\ new \subseteq all
  BY <1>2 DEF Replaced
<1> HIDE DEF all
<1>6. view'[t] = v /\ v.page = view[t].page /\ v.visit = view[t].visit
  BY <1>2 DEF Becomes, SameMount
<1>7. KeptIn(t)
  BY <1>2, <1>6 DEF KeptIn
<1>8. ASSUME NEW r, NEW f, SeedOf(view[t].page, r, f)
      PROVE  SeedOK(t, r, f)'
  <2>1. SeedOK(t, r, f) /\ LoadsOf(t, r) = {} /\ ~ Begun(t, r, f)
    BY <1>1, <1>8 DEF TabOK, SeedsOK, SeedOK
  <2>2. FormSetOnce(Book[view[t].page], r, f)
    BY <1>8, SeedPagesAre
  <2>3. r \in DOMAIN view[t].shown
    BY <1>1, <2>2, Zenon DEF TabOK, ShapeOK, Resources, ElementsOf, FormSetOnce
  <2>4. ~ Begun(t, r, f)'
    <3>1. HandlersOf(t)' = {}
      BY <1>4, <1>5, <1>6, <2>1 DEF Begun, HandlersOf
    <3>2. r # "organization"
      BY <2>2 DEF FormSetOnce
    <3> QED
      BY <1>2, <1>6, <2>1, <2>3, <3>1, <3>2 DEF Begun, Has
  <2>5. ASSUME NEW d \in LoadsOf(t, r)', NEW e \in LoadsOf(t, r)'
        PROVE  d = e
    <3>1. d \in new /\ e \in new /\ r \in d.get /\ r \in e.get /\ d \in calls' /\ e \in calls'
      BY <1>5, <1>6, <2>1 DEF LoadsOf
    <3>2. d.id = e.id
      <4>1. PICK i \in DOMAIN gets : d.id = made + i /\ d.get = gets[i]
        BY <1>4, <1>5, <3>1
      <4>2. PICK j \in DOMAIN gets : e.id = made + j /\ e.get = gets[j]
        BY <1>4, <1>5, <3>1
      <4>3. gets = Book[view[t].page].gets
        BY <1>1 DEF gets
      <4>4. i = j
        BY <2>2, <3>1, <4>1, <4>2, <4>3, Zenon DEF FormSetOnce
      <4> QED
        BY <4>1, <4>2, <4>4
    <3> QED
      BY <3>1, <3>2 DEF IInv, CallsOK
  <2> QED
    BY <1>2, <1>6, <2>4, <2>5 DEF SeedOK
<1>9. TabOK(t)'
  BY <1>1, <1>2, <1>6, <1>8 DEF TabOK, SeedsOK, ShapeOK
<1>10. \A u \in Tab \ {t} : NoneSent(u)
  <2>1. calls' \subseteq calls \cup new /\ \A d \in new : d.tab = t
    BY <1>4, <1>5
  <2> QED
    BY <1>1, <2>1, OthersSendNone
<1>11. \A u \in Tab \ {t} : view'[u] = view[u]
  BY <1>2 DEF Becomes
<1> QED
  BY <1>1, <1>6, <1>7, <1>9, <1>10, <1>11, OnPageSteps DEF EditsInv

LEMMA LoadSettlesEdits ==
    ASSUME IInv, IInv', EditsInv, OtherCalls' = OtherCalls, NEW c \in calls, LoadSettles(c)
    PROVE  EditsInv' /\ \A u \in Tab : KeptIn(u)
<1> DEFINE t == c.tab
<1>1. /\ t \in Tab /\ IsView(view[t]) /\ view = [u \in Tab |-> view[u]]
      /\ c.kind = "load" /\ calls' = calls \ {c} /\ typed' = typed /\ TabOK(t)
      /\ c.visit = view[t].visit => c.page = view[t].page
      /\ view[t].page \in PageNames
  BY Zenon DEF IInv, ViewsOK, CallsOK, Typed, LoadSettles, EditsInv, Replaced, Sent
<1>2. \A u \in Tab : NoneSent(u)
  BY <1>1 DEF NoneSent, IInv, CallsOK, Typed, SameRequest
<1>3. CASE ~ Here(c)
  <2>1. view' = view
    BY <1>3 DEF LoadSettles
  <2>2. TabOK(t)' /\ KeptIn(t)
    BY <1>1, <1>2, <2>1, TabStands
  <2> QED
    BY <1>1, <1>2, <2>1, <2>2, OnPageSteps DEF EditsInv
<1>4. CASE Here(c) /\ c.answer = "ok"
  <2>1. PICK v :
          /\ Becomes(t, v) /\ SameMount(view[t], v) /\ v.stage = view[t].stage
          /\ DOMAIN v.shown = DOMAIN view[t].shown
          /\ \A r \in DOMAIN v.shown : r \notin c.get => v.shown[r] = view[t].shown[r]
          /\ v.text = Seeded(view[t], c)
    <3> DEFINE shown == [r \in DOMAIN view[t].shown |->
                           IF r \in c.get THEN [version |-> c.data[r], key |-> c.key]
                           ELSE view[t].shown[r]]
               v == [view[t] EXCEPT !.shown = shown, !.text = Seeded(view[t], c)]
    <3>1. Becomes(t, v)
      BY <1>1, <1>4, Zenon DEF LoadSettles, Becomes
    <3>2. /\ SameMount(view[t], v) /\ v.stage = view[t].stage
          /\ v.shown = shown /\ v.text = Seeded(view[t], c)
      BY <1>1, Zenon DEF SameMount, IsView
    <3>3. /\ DOMAIN shown = DOMAIN view[t].shown
          /\ \A r \in DOMAIN shown : r \notin c.get => shown[r] = view[t].shown[r]
      OBVIOUS
    <3> HIDE DEF v, shown
    <3> QED
      BY <3>1, <3>2, <3>3
  <2>2. view'[t] = v /\ v.page = view[t].page /\ v.visit = view[t].visit
        /\ c.page = view[t].page /\ c.visit = view[t].visit
    BY <1>1, <1>4, <2>1 DEF Becomes, SameMount, Here
  <2>3. /\ DOMAIN v.text = DOMAIN view[t].text
        /\ \A f \in DOMAIN v.text :
             \/ v.text[f] = view[t].text[f]
             \/ v.text[f] = 0 /\ \E r \in c.get : <<r, f>> \in Book[c.page].seeds
    BY <2>1 DEF Seeded
  <2>4. \A r, f : SeedOf(view[t].page, r, f) => SeedOK(t, r, f)
    BY <1>1 DEF TabOK, SeedsOK
  <2>5. ASSUME NEW r \in c.get
        PROVE  c \in LoadsOf(t, r)
    BY <1>1, <2>2 DEF LoadsOf
  <2>6. KeptIn(t)
    <3> SUFFICES ASSUME NEW f \in DOMAIN view[t].text, view[t].text[f] # 0, v.text[f] = 0
                 PROVE  <<view[t].page, f>> \in Overwritten
      BY <2>2 DEF KeptIn
    <3>1. PICK r \in c.get : <<r, f>> \in Book[c.page].seeds
      BY <2>3
    <3>2. <<c.page, f>> \in Overwritten \/ <<c.page, r, f>> \in Seeding
      BY <1>1, <2>2, <3>1, Seeds
    <3>3. ~ SeedOf(view[t].page, r, f)
      BY <2>4, <2>5 DEF SeedOK, Begun
    <3> QED
      BY <2>2, <3>2, <3>3 DEF SeedOf
  <2>7. ASSUME NEW r, NEW f, SeedOf(view[t].page, r, f)
        PROVE  SeedOK(t, r, f)'
    <3>1. SeedOK(t, r, f)
      BY <2>4, <2>7
    <3>2. LoadsOf(t, r)' = LoadsOf(t, r) \ {c}
      BY <1>1, <2>2 DEF LoadsOf
    <3>3. HandlersOf(t)' = HandlersOf(t)
      BY <1>1, <2>2 DEF HandlersOf
    <3>4. CASE r \in c.get
      <4>1. LoadsOf(t, r)' = {} /\ view[t].stage \notin {"closed", "framed"}
        BY <2>5, <3>1, <3>2, <3>4 DEF SeedOK
      <4> QED
        BY <2>1, <2>2, <4>1 DEF SeedOK
    <3>5. CASE r \notin c.get
      <4>1. r \in DOMAIN view[t].shown
        BY <1>1, <2>7, SeedPagesAre, SMTT(20) DEF TabOK, ShapeOK, Resources, ElementsOf, FormSetOnce
      <4>2. Begun(t, r, f)' => Begun(t, r, f)
        BY <2>1, <2>2, <2>3, <3>3, <3>5, <4>1 DEF Begun, Has
      <4>3. \A d \in LoadsOf(t, r)' : \E e \in LoadsOf(t, r) : SameRequest(e, d)
        BY <3>2 DEF LoadsOf, IInv, CallsOK, Typed, SameRequest
      <4> QED
        BY <1>1, <2>1, <2>2, <3>1, <4>2, <4>3, SeedKept
    <3> QED
      BY <3>4, <3>5
  <2>8. TabOK(t)'
    BY <1>1, <2>1, <2>2, <2>3, <2>7, Zenon DEF TabOK, SeedsOK, ShapeOK
  <2> QED
    BY <1>1, <1>2, <2>1, <2>2, <2>6, <2>8, OnPageSteps DEF EditsInv, Becomes
<1>5. CASE Here(c) /\ c.answer # "ok"
  <2>1. PICK v :
          /\ Becomes(t, v) /\ SameMount(view[t], v) /\ v.stage = view[t].stage
          /\ v.shown = view[t].shown /\ v.text = view[t].text
    <3> DEFINE v == [view[t] EXCEPT !.missed = view[t].missed \cup c.get]
    <3>1. Becomes(t, v)
      BY <1>1, <1>5, Zenon DEF LoadSettles, Becomes
    <3>2. /\ SameMount(view[t], v) /\ v.stage = view[t].stage
          /\ v.shown = view[t].shown /\ v.text = view[t].text
      BY <1>1 DEF SameMount, IsView
    <3> HIDE DEF v
    <3> QED
      BY <3>1, <3>2
  <2>2. view'[t] = v /\ v.page = view[t].page /\ v.visit = view[t].visit
    BY <2>1 DEF Becomes, SameMount
  <2>3. KeptIn(t)
    BY <2>1, <2>2 DEF KeptIn
  <2>4. ASSUME NEW r, NEW f, SeedOf(view[t].page, r, f)
        PROVE  SeedOK(t, r, f)'
    <3>1. SeedOK(t, r, f)
      BY <1>1, <2>4 DEF TabOK, SeedsOK
    <3>2. \A d \in LoadsOf(t, r)' : \E e \in LoadsOf(t, r) : SameRequest(e, d)
      BY <1>1, <2>2 DEF LoadsOf, IInv, CallsOK, Typed, SameRequest
    <3>3. Begun(t, r, f)' => Begun(t, r, f)
      BY <1>1, <2>1, <2>2 DEF Begun, Has, HandlersOf
    <3> QED
      BY <1>1, <2>1, <2>2, <3>1, <3>2, <3>3, SeedKept
  <2>5. TabOK(t)'
    BY <1>1, <2>1, <2>2, <2>4 DEF TabOK, SeedsOK, ShapeOK
  <2> QED
    BY <1>1, <1>2, <2>1, <2>2, <2>3, <2>5, OnPageSteps DEF EditsInv, Becomes
<1> QED
  BY <1>3, <1>4, <1>5

LEMMA WriteSettlesEdits ==
    ASSUME IInv, IInv', EditsInv, OtherCalls' = OtherCalls, NEW c \in calls, WriteSettles(c)
    PROVE  EditsInv' /\ \A u \in Tab : KeptIn(u)
<1> DEFINE t == c.tab
<1>1. /\ t \in Tab /\ IsView(view[t]) /\ view = [u \in Tab |-> view[u]] /\ made \in Nat
      /\ c.kind = "write" /\ c.page \in PageNames /\ c.visit \in 0 .. made
      /\ c.visit = view[t].visit => c.page = view[t].page
      /\ TabOK(t) /\ typed' = typed
  <2>1. c.kind = "write" /\ typed' = typed
    BY DEF WriteSettles
  <2>2. t \in Tab /\ made \in Nat
    BY DEF IInv, CallsOK, Typed
  <2>3. /\ c.page \in PageNames /\ c.visit \in 0 .. made
        /\ c.visit = view[t].visit => c.page = view[t].page
    BY <2>1, <2>2 DEF IInv, CallsOK, Typed, Sent
  <2>4. IsView(view[t]) /\ view = [u \in Tab |-> view[u]]
    BY <2>2 DEF IInv, ViewsOK
  <2>5. TabOK(t)
    BY <2>2 DEF EditsInv
  <2> QED
    BY <2>1, <2>2, <2>3, <2>4, <2>5
<1>2. PICK w \in Ops(c) :
        /\ IF c.answer = "ok"
           THEN calls' = Replaced(c, Reloads(w, c)) /\ made' = made + Len(w.reloads)
           ELSE calls' = Replaced(c, {}) /\ UNCHANGED made
        /\ view' = CASE ~ Here(c) -> view
                     [] Here(c) /\ c.answer = "ok" ->
                          [view EXCEPT ![c.tab] =
                              [Done(view[c.tab], w, c) EXCEPT
                                  !.stage = IF w.leaves THEN "left" ELSE @]]
                     [] OTHER -> [view EXCEPT ![c.tab] = Failed(@, w)]
  BY Zenon DEF WriteSettles
<1>3. w \in Book[c.page].writes /\ Listed(w.reloads)
  BY <1>1, ReloadsListed DEF Ops
<1>4. PICK new : /\ calls' = (calls \ {c}) \cup new
                 /\ \A d \in new : /\ d.kind = "load" /\ d.tab = t /\ d.visit = c.visit
                                   /\ \E i \in DOMAIN w.reloads : TRUE
  <2> DEFINE all == Loads(t, c.page, c.visit, w.reloads, c.key)
  <2>1. \A d \in all : d.kind = "load" /\ d.tab = t /\ d.visit = c.visit
    BY <1>1, <1>3, LoadsFields
  <2>2. \A d \in all : \E i \in DOMAIN w.reloads : TRUE
    BY Zenon DEF Loads
  <2>3. calls' = (calls \ {c}) \cup all \/ calls' = (calls \ {c}) \cup {}
    BY <1>2 DEF Reloads, Replaced
  <2> HIDE DEF all
  <2>4. CASE calls' = (calls \ {c}) \cup all
    BY <2>1, <2>2, <2>4
  <2>5. CASE calls' = (calls \ {c}) \cup {}
    <3> DEFINE none == {}
    <3>1. \A d \in none : FALSE
      OBVIOUS
    <3>2. calls' = (calls \ {c}) \cup none
      BY <2>5
    <3> HIDE DEF none
    <3> QED
      BY <3>1, <3>2
  <2> QED
    BY <2>3, <2>4, <2>5, Zenon
<1>5. \A u \in Tab \ {t} : NoneSent(u)
  <2>1. calls' \subseteq calls \cup new /\ \A d \in new : d.tab = t
    BY <1>4
  <2> QED
    BY <1>1, <2>1, OthersSendNone
<1>6. PICK v : /\ Becomes(t, v) /\ SameMount(view[t], v)
               /\ ~ Here(c) => v = view[t]
               /\ v.stage \in {view[t].stage, "left"}
               /\ DOMAIN v.shown = DOMAIN view[t].shown
               /\ v.text = IF Here(c) /\ c.answer = "ok" THEN TextAfter(view[t], w, c)
                           ELSE view[t].text
  <2>1. CASE ~ Here(c)
    <3>1. view' = view
      BY <1>2, <2>1
    <3>2. Becomes(t, view[t]) /\ SameMount(view[t], view[t])
      BY <1>1, <3>1 DEF Becomes, SameMount
    <3> QED
      BY <2>1, <3>2
  <2>2. CASE Here(c) /\ c.answer = "ok"
    <3>1. view' = [view EXCEPT ![c.tab] =
                      [Done(view[c.tab], w, c) EXCEPT
                          !.stage = IF w.leaves THEN "left" ELSE @]]
      BY <1>2, <2>2
    <3> DEFINE d == Done(view[t], w, c)
               v == [d EXCEPT !.stage = IF w.leaves THEN "left" ELSE @]
    <3>2. Becomes(t, v)
      <4>1. view' = [view EXCEPT ![t] = v]
        BY <3>1
      <4> HIDE DEF v
      <4> QED
        BY <1>1, <4>1 DEF Becomes
    <3>3. /\ SameMount(view[t], d) /\ d.stage = view[t].stage
          /\ DOMAIN d.shown = DOMAIN view[t].shown /\ d.text = TextAfter(view[t], w, c)
      BY <1>1, Zenon DEF Done, SameMount, IsView
    <3> HIDE DEF d
    <3>4. /\ SameMount(view[t], v) /\ v.stage \in {view[t].stage, "left"}
          /\ v.shown = d.shown /\ v.text = d.text
      BY <3>3 DEF SameMount, IsView
    <3> HIDE DEF v
    <3> QED
      BY <2>2, <3>2, <3>3, <3>4
  <2>3. CASE Here(c) /\ c.answer # "ok"
    <3> DEFINE v == Failed(view[t], w)
    <3>1. view' = [view EXCEPT ![t] = v]
      BY <1>2, <2>3
    <3>2. /\ SameMount(view[t], v) /\ v.stage = view[t].stage
          /\ v.shown = view[t].shown /\ v.text = view[t].text
      BY <1>1 DEF Failed, SameMount, IsView
    <3> HIDE DEF v
    <3>3. Becomes(t, v)
      BY <1>1, <3>1 DEF Becomes
    <3> QED
      BY <2>3, <3>2, <3>3
  <2> QED
    BY <2>1, <2>2, <2>3
<1>7. view'[t] = v /\ v.page = view[t].page /\ v.visit = view[t].visit
  BY <1>6 DEF Becomes, SameMount
<1>8. /\ DOMAIN v.text = DOMAIN view[t].text
      /\ \A f \in DOMAIN v.text :
           \/ v.text[f] = view[t].text[f]
           \/ v.text[f] = 0 /\ Here(c) /\ c.answer = "ok" /\ f \in w.form
  BY <1>6 DEF TextAfter
<1>9. KeptIn(t)
  <2> SUFFICES ASSUME NEW f \in DOMAIN view[t].text, view[t].text[f] # 0, v.text[f] = 0
               PROVE  \E d \in Writes(t) \ calls' :
                         d.answer = "ok" /\ \E x \in Ops(d) : f \in x.form
    BY <1>7 DEF KeptIn
  <2>1. Here(c) /\ c.answer = "ok" /\ f \in w.form
    BY <1>8
  <2>2. c \in Writes(t) \ calls'
    BY <1>1, <1>4, <2>1 DEF Writes
  <2> QED
    BY <1>2, <2>1, <2>2
<1>10. ASSUME NEW r, NEW f, SeedOf(view[t].page, r, f)
       PROVE  SeedOK(t, r, f)'
  <2>1. SeedOK(t, r, f) /\ FormSetOnce(Book[view[t].page], r, f)
    BY <1>1, <1>10, SeedPagesAre DEF TabOK, SeedsOK
  <2>2. c.visit = view[t].visit => new = {}
    BY <1>1, <1>3, <1>4, <2>1, Zenon DEF FormSetOnce
  <2>3. \A d \in LoadsOf(t, r)' : \E e \in LoadsOf(t, r) : SameRequest(e, d)
    BY <1>4, <1>7, <2>2 DEF LoadsOf, IInv, CallsOK, Typed, SameRequest
  <2>4. Begun(t, r, f)' => Begun(t, r, f)
    <3>1. HandlersOf(t)' \subseteq HandlersOf(t)
      BY <1>4, <1>7 DEF HandlersOf
    <3>2. CASE Here(c)
      BY <1>1, <3>2 DEF Here, Begun, HandlersOf
    <3>3. CASE ~ Here(c)
      BY <1>6, <1>7, <3>1, <3>3 DEF Begun, Has
    <3> QED
      BY <3>2, <3>3
  <2> QED
    BY <1>1, <1>6, <1>7, <2>1, <2>3, <2>4, SeedKept
<1>11. TabOK(t)'
  BY <1>1, <1>6, <1>7, <1>8, <1>10 DEF TabOK, SeedsOK, ShapeOK
<1> QED
  BY <1>1, <1>5, <1>6, <1>7, <1>9, <1>11, OnPageSteps DEF EditsInv, Becomes

EditsStepped == EditsInv' /\ \A t \in Tab : KeptIn(t)

\* The steps of requests that are no page's, of the server and of the network.
LEMMA AnsweredEdits ==
    ASSUME IInv, IInv', EditsInv, UNCHANGED <<view, typed>>, NEW c \in calls, NEW d,
           Turn({c}, {d}, {}), SameRequest(c, d)
    PROVE  EditsStepped
<1>1. \A e \in SignCalls : view'[e.tab].page = "login"
  BY DEF EditsInv, SignInv
<1>2. \A t \in Tab : view'[t] = view[t]
  OBVIOUS
<1> DEFINE gone == {c}
           back == {d}
           new == {}
<1>3. Turn(gone, back, new) /\ \A e \in new : FALSE
  OBVIOUS
<1> HIDE DEF gone, back, new
<1> QED
  BY <1>1, <1>2, <1>3, OffPageSteps DEF EditsStepped

LEMMA ServerEdits ==
    ASSUME IInv, IInv', EditsInv, NEW c \in calls, ServerStep(c)
    PROVE  EditsStepped
<1>1. CallsOK(calls, made)
  BY DEF IInv
<1>2. UNCHANGED <<view, typed>>
  BY Zenon DEF ServerStep, ServeLoad, ServeWrite, pageVars
<1>3. \E d : Turn({c}, {d}, {}) /\ SameRequest(c, d)
  <2>1. CASE ServeRefresh(c)
    BY <1>1, <2>1, ServeRefreshTurns
  <2>2. CASE ServeLogin(c)
    BY <1>1, <2>2, ServeLoginTurns
  <2>3. CASE ServeLogout(c) \/ ServeMe(c) \/ ServeLoad(c) \/ ServeWrite(c)
    <3>1. UNCHANGED made
      BY <2>3, Zenon DEF ServeLogout, ServeMe, ServeLoad, ServeWrite
    <3> QED
      BY <1>1, <2>3, <3>1, AnswerTurns, Zenon
  <2> QED
    BY <2>1, <2>2, <2>3, Zenon DEF ServerStep, ServeAuth
<1> QED
  BY <1>2, <1>3, AnsweredEdits

LEMMA ClientEdits ==
    ASSUME IInv, IInv', EditsInv, NEW c \in calls, ClientStep(c),
           FrameSettles(c) \/ LoadSettles(c) \/ WriteSettles(c) => OtherCalls' = OtherCalls
    PROVE  EditsStepped
<1>1. CallsOK(calls, made) /\ c.tab \in Tab /\ view = [u \in Tab |-> view[u]]
  BY DEF IInv, CallsOK, Typed, ViewsOK
<1>2. \A e \in SignCalls : view[e.tab].page = "login"
  BY DEF EditsInv, SignInv
<1>3. CASE Retry(c) /\ UNCHANGED pageVars
  <2>1. PICK d, new : /\ Turn({c}, {d}, new) /\ SameRequest(c, d)
                      /\ \A e \in new : e.kind = "refresh" /\ e.pc = "sent"
    BY <1>1, <1>3, RetryTurns, Zenon
  <2> QED
    BY <1>2, <1>3, <2>1, OffPageSteps DEF EditsStepped, pageVars, SignKinds
<1>4. CASE RefreshSettles(c) /\ UNCHANGED pageVars
  <2>1. PICK back : Turn({c} \cup Waiters(c), back, {})
    BY <1>1, <1>4, RefreshSettlesTurns
  <2> DEFINE gone == {c} \cup Waiters(c)
             new == {}
  <2>2. Turn(gone, back, new) /\ \A e \in new : FALSE
    BY <2>1
  <2> HIDE DEF gone, new
  <2> QED
    BY <1>2, <1>4, <2>2, OffPageSteps DEF EditsStepped, pageVars
<1>5. CASE MountSettles(c) /\ UNCHANGED pageVars
  <2> DEFINE none == {}
  <2>1. Turn({c}, none, none) /\ \A e \in none : FALSE
    BY <1>1, <1>5, EndTurns
  <2> HIDE DEF none
  <2> QED
    BY <1>2, <1>5, <2>1, OffPageSteps DEF EditsStepped, pageVars
<1>6. CASE RegisterSettles(c) /\ UNCHANGED pageVars
  <2> DEFINE none == {}
  <2>1. PICK new : /\ Turn({c}, none, new)
                   /\ \A e, f \in new : e = f
                   /\ \A e \in new : e.kind = "login" /\ e.tab = c.tab
    BY <1>1, <1>6, RegisterSettlesTurns
  <2>2. none = {}
    OBVIOUS
  <2> HIDE DEF none
  <2>3. c \in SignCalls
    BY <1>6 DEF RegisterSettles, SignCalls, SignKinds
  <2>4. \A d \in SignCalls : d.tab = c.tab => d \in {c}
    BY <2>3 DEF EditsInv, SignInv
  <2> QED
    BY <1>2, <1>6, <2>1, <2>2, <2>3, <2>4, OffPageSteps DEF EditsStepped, pageVars
<1>7. CASE LoginSettles(c) /\ UNCHANGED pageVars
  <2> DEFINE none == {}
  <2>1. PICK new : /\ Turn({c}, none, new)
                   /\ \A e, f \in new : e = f
                   /\ \A e \in new : e.kind = "me" /\ e.tab = c.tab
    BY <1>1, <1>7, LoginSettlesTurns, Zenon
  <2>2. none = {}
    OBVIOUS
  <2> HIDE DEF none
  <2>3. c \in SignCalls
    BY <1>7 DEF LoginSettles, SignCalls, SignKinds
  <2>4. \A d \in SignCalls : d.tab = c.tab => d \in {c}
    BY <2>3 DEF EditsInv, SignInv
  <2> QED
    BY <1>2, <1>7, <2>1, <2>2, <2>3, <2>4, OffPageSteps DEF EditsStepped, pageVars
<1>8. CASE SignIn(c)
  <2> DEFINE none == {}
  <2>1. Turn({c}, none, none) /\ (\A e \in none : FALSE) /\ none = {}
    BY <1>1, <1>8, EndTurns DEF SignIn
  <2> HIDE DEF none
  <2>2. c \in SignCalls
    BY <1>8 DEF SignIn, MeSettles, SignCalls, SignKinds
  <2>3. \A d \in SignCalls : d # c => d.tab # c.tab /\ d.tab \in Tab
    BY <2>2 DEF EditsInv, SignInv, SignCalls, IInv, CallsOK, Typed
  <2>4. view'[c.tab] = view[c.tab] \/ view'[c.tab] = Blank(Home, made)
    BY <1>1, <1>8 DEF SignIn
  <2>5. \A t \in Tab \ {c.tab} : view'[t] = view[t]
    BY <1>1, <1>8 DEF SignIn
  <2>6. \A d \in SignCalls : d \notin {c} => view'[d.tab].page = "login"
    BY <1>2, <2>3, <2>5
  <2>7. Home \in PageNames /\ view[c.tab].page = "login" /\ typed' = typed
    BY <1>2, <1>8, <2>2, FrontendAssumption DEF SignIn
  <2> QED
    BY <2>1, <2>4, <2>5, <2>6, <2>7, OffPageSteps DEF EditsStepped
<1>9. CASE LoggedOut(c)
  <2> DEFINE none == {}
  <2>1. Turn({c}, none, none) /\ (\A e \in none : FALSE) /\ none = {}
    BY <1>1, <1>9, EndTurns DEF LoggedOut
  <2> HIDE DEF none
  <2>2. view'[c.tab] = Blank("login", made) /\ \A t \in Tab \ {c.tab} : view'[t] = view[t]
    BY <1>1, <1>9 DEF LoggedOut
  <2>3. view'[c.tab].page = "login" /\ typed' = typed
    BY <1>9, <2>2, BlankFields DEF LoggedOut
  <2>4. \A d \in SignCalls : view'[d.tab].page = "login"
    BY <1>2, <2>2, <2>3 DEF SignCalls, IInv, CallsOK, Typed
  <2> QED
    BY <2>1, <2>2, <2>3, <2>4, LoginPage, OffPageSteps DEF EditsStepped
<1>10. CASE FrameSettles(c) \/ LoadSettles(c) \/ WriteSettles(c)
  <2> QED
    BY <1>10, FrameSettlesEdits, LoadSettlesEdits, WriteSettlesEdits DEF EditsStepped
<1> QED
  BY <1>3, <1>4, <1>5, <1>6, <1>7, <1>8, <1>9, <1>10 DEF ClientStep

LEMMA UserEdits ==
    ASSUME IInv, LocksInv, IInv', EditsInv, NEW t \in Tab, UserStep(t)
    PROVE  EditsStepped
<1>1. CallsOK(calls, made)
  BY DEF IInv
<1>2. ASSUME NEW f, Type(t, f)
      PROVE  EditsStepped
  BY <1>2, TypeSteps, TypeEdits DEF PageStep, EditsStepped
<1>3. ASSUME NEW w \in Book[view[t].page].writes, Click(t, w)
      PROVE  EditsStepped
  BY <1>3, ClickSteps, ClickEdits DEF EditsStepped
<1>4. CASE Choose(t)
  BY <1>4, ChooseSteps, ChooseEdits DEF PageStep, EditsStepped
<1>5. ASSUME NEW kind \in {"login", "register", "logout"}, Submit(t, kind),
             UNCHANGED pageVars,
             kind # "logout" => /\ view[t].page = "login"
                                /\ ~ Busy(t, {"login", "register", "me"})
      PROVE  EditsStepped
  <2>1. PICK e : /\ Turn({}, {}, {e}) /\ e.tab = t /\ e.kind = kind /\ e.pc = "sent"
                 /\ e.kind \in {"refresh", "logout"} => e.with = cookie
    <3> DEFINE d == Exchange(t, made', kind)
    <3>1. /\ IsExchange(d) /\ d.tab = t /\ d.id = made' /\ d.kind = kind
          /\ d.pc = "sent" /\ d.answer = "none" /\ d.runs = 0
          /\ d.kind \in {"refresh", "logout"} => d.with = cookie
      <4>1. kind \notin {"load", "write"}
        BY <1>5
      <4> QED
        BY <4>1, ExchangeFields
    <3>2. calls' = calls \cup {d} /\ made' = made + 1 /\ made \in Nat
      BY <1>1, <1>5 DEF Submit, CallsOK
    <3> HIDE DEF d
    <3>3. Typed(d, made') /\ d.id > made /\ made' \in Nat /\ made' >= made
      BY <3>1, <3>2, FirstOfItsId
    <3>4. Turn({}, {}, {d})
      BY <1>1, <3>2, <3>3, SomeBegin
    <3> QED
      BY <3>1, <3>4
  <2> DEFINE none == {}
             new == {e}
  <2>2. /\ Turn(none, none, new) /\ none = {}
        /\ \A d \in new : d = e
    BY <2>1
  <2> HIDE DEF none, new
  <2>3. \A d \in SignCalls : view'[d.tab].page = "login"
    BY <1>5 DEF EditsInv, SignInv, pageVars
  <2>4. \A d \in new : d.kind \notin {"load", "write"}
    BY <2>1, <2>2
  <2>5. e.kind \in SignKinds => /\ view'[e.tab].page = "login"
                                /\ \A d \in SignCalls : d.tab # e.tab
    BY <1>5, <2>1 DEF SignCalls, SignKinds, Busy, pageVars
  <2>6. (\A u \in Tab : view'[u] = view[u]) /\ typed' = typed
    BY <1>5 DEF pageVars
  <2> QED
    BY <2>2, <2>3, <2>4, <2>5, <2>6, OffPageSteps DEF EditsStepped
<1>6. \A kind \in {"login", "register"} : SubmitLogin(t, kind) => EditsStepped
  BY <1>5 DEF SubmitLogin
<1>7. LogOut(t) => EditsStepped
  BY <1>5 DEF LogOut
<1> QED
  BY <1>2, <1>3, <1>4, <1>6, <1>7 DEF UserStep

LEMMA EditsStep ==
    ASSUME FullInv, FullInv', EditsInv, [Next]_vars
    PROVE  EditsStepped
<1>1. IInv /\ IInv' /\ LocksInv /\ CallsOK(calls, made) /\ view = [u \in Tab |-> view[u]]
  BY DEF FullInv, IInv, ViewsOK
<1>2. \A e \in SignCalls : view[e.tab].page = "login"
  BY DEF EditsInv, SignInv
<1> DEFINE none == {}
<1>3. (\A e \in none : FALSE) /\ none = {}
  OBVIOUS
<1>4. UNCHANGED <<calls, made>> => Turn(none, none, none)
  BY <1>1 DEF Turn, CallsOK
<1> HIDE DEF none
<1>5. CASE Advance
  <2>1. ASSUME NEW c \in calls, ClientStep(c)
        PROVE  EditsStepped
    <3>1. FrameSettles(c) \/ LoadSettles(c) \/ WriteSettles(c) => OtherCalls' = OtherCalls
      BY <1>1, FrameSettlesSteps, LoadSettlesSteps, WriteSettlesSteps DEF PageStep
    <3> QED
      BY <1>1, <2>1, <3>1, ClientEdits
  <2>2. ASSUME NEW t \in Tab, Enter(t)
        PROVE  EditsStepped
    BY <1>1, <2>2, EnterSteps, EnterEdits DEF PageStep, EditsStepped
  <2>3. ASSUME NEW t \in Tab, Redirect(t)
        PROVE  EditsStepped
    <3>1. view'[t] = Blank("login", made) /\ \A u \in Tab \ {t} : view'[u] = view[u]
      BY <1>1, <2>3 DEF Redirect
    <3>2. view'[t].page = "login" /\ UNCHANGED <<calls, made, typed>>
      BY <2>3, <3>1, BlankFields DEF Redirect, clientVars
    <3>3. \A d \in SignCalls : view'[d.tab].page = "login"
      BY <1>1, <1>2, <3>1, <3>2 DEF SignCalls, CallsOK, Typed
    <3> QED
      BY <1>1, <1>3, <1>4, <3>1, <3>2, <3>3, LoginPage, OffPageSteps DEF EditsStepped
  <2> QED
    BY <1>1, <1>5, <2>1, <2>2, <2>3, ServerEdits DEF Advance, Progress
<1>6. CASE Faults
  <2>1. UNCHANGED <<view, typed>>
    BY <1>6 DEF Faults, pageVars
  <2>2. CASE Lapse
    <3>1. UNCHANGED <<calls, made>>
      BY <2>2 DEF Lapse
    <3> QED
      BY <1>1, <1>2, <1>3, <1>4, <2>1, <3>1, OffPageSteps DEF EditsStepped
  <2>3. ASSUME NEW c \in calls, Lose(c)
        PROVE  EditsStepped
    <3>1. PICK d : Turn({c}, {d}, {}) /\ SameRequest(c, d)
      BY <1>1, <2>3, LoseTurns, Zenon
    <3> QED
      BY <1>1, <2>1, <3>1, AnsweredEdits
  <2> QED
    BY <1>6, <2>2, <2>3 DEF Faults
<1>7. CASE Use
  BY <1>1, <1>7, UserEdits DEF Use
<1>8. CASE UNCHANGED vars
  <2>1. UNCHANGED <<calls, made, view, typed>>
    BY <1>8 DEF vars, clientVars, pageVars
  <2> QED
    BY <1>1, <1>2, <1>3, <1>4, <2>1, OffPageSteps DEF EditsStepped
<1> QED
  BY <1>5, <1>6, <1>7, <1>8 DEF Next

LEMMA InitCalls ==
    ASSUME Init
    PROVE  \A c \in calls : c.kind \in {"refresh", "mount"}
<1>1. CASE OnePage
  BY <1>1 DEF OnePage
<1>2. CASE AllTabs
  <2>1. \A t, id : \A c \in Mounting(t, id) : c.kind \in {"refresh", "mount"}
    <3> TAKE t, id
    <3> DEFINE M == [Exchange(t, id + 1, "mount") EXCEPT !.pc = "waiting", !.awaits = id]
    <3>1. Exchange(t, id, "refresh").kind = "refresh" /\ M.kind = "mount"
      BY DEF Exchange
    <3>2. Mounting(t, id) = {Exchange(t, id, "refresh"), M}
      BY DEF Mounting
    <3> HIDE DEF M
    <3> QED
      BY <3>1, <3>2
  <2> QED
    BY <1>2, <2>1 DEF AllTabs
<1> QED
  BY <1>1, <1>2 DEF Init

LEMMA InitEdits ==
    ASSUME Init
    PROVE  EditsInv
<1>1. \A t \in Tab : \E p \in PageNames, s \in {"closed", "left"} :
         view[t] = [Blank(p, 0) EXCEPT !.stage = s]
  <2>1. \A p : Blank(p, 0) = [Blank(p, 0) EXCEPT !.stage = "closed"]
    BY SMTT(20) DEF Blank
  <2>2. CASE AllTabs
    <3>1. \A t \in Tab : \E p \in PageNames : view[t] = Blank(p, 0)
      BY <2>2, LoginPage, FrontendAssumption DEF AllTabs
    <3> QED
      BY <2>1, <3>1
  <2>3. CASE OnePage
    BY <2>1, <2>3, LoginPage DEF OnePage
  <2> QED
    BY <2>2, <2>3 DEF Init
<1>2. \A c \in calls : c.kind \in {"refresh", "mount"}
  BY InitCalls
<1>3. typed \in Nat
  BY PagesAssumption DEF Init, OnePage, AllTabs
<1>4. SignInv
  BY <1>2 DEF SignInv, SignCalls, SignKinds
<1>5. ASSUME NEW t \in Tab
      PROVE  TabOK(t)
  <2>1. PICK p \in PageNames, s \in {"closed", "left"} :
           view[t] = [Blank(p, 0) EXCEPT !.stage = s]
    BY <1>1
  <2>2. /\ view[t].page = p
        /\ DOMAIN view[t].shown = Resources(p) /\ DOMAIN view[t].text = Forms(p)
        /\ \A r \in Resources(p) : view[t].shown[r].version = 0
        /\ \A f \in Forms(p) : view[t].text[f] = 0
    BY <2>1 DEF Blank
  <2>3. ASSUME NEW r, NEW f, SeedOf(p, r, f)
        PROVE  SeedOK(t, r, f)
    <3>1. r \in Resources(p)
      BY <2>3, SeedPagesAre DEF FormSetOnce, Resources, ElementsOf
    <3>2. LoadsOf(t, r) = {} /\ HandlersOf(t) = {}
      BY <1>2 DEF LoadsOf, HandlersOf
    <3>3. ~ Begun(t, r, f)
      BY <2>2, <3>1, <3>2 DEF Begun, Has
    <3> QED
      BY <3>2, <3>3 DEF SeedOK
  <2> QED
    BY <2>2, <2>3 DEF TabOK, SeedsOK, ShapeOK
<1> QED
  BY <1>3, <1>4, <1>5 DEF EditsInv

(* Text typed into a form of a page stays until the answer to the handler that sends it, *)
(* in all forms but the three that EditsAreKept names.                                   *)
THEOREM TypedTextStays ==
    ASSUME IsFiniteSet(Tab)
    PROVE  Spec => EditsAreKept
<1>1. Init => EditsInv
  BY InitEdits
<1>2. FullInv /\ FullInv' /\ EditsInv /\ [Next]_vars => EditsInv'
  BY EditsStep DEF EditsStepped
<1>3. FullInv /\ FullInv' /\ EditsInv /\ [Next]_vars
         => [\A t \in Tab :
               LET v == view[t]
               IN  view'[t].page = v.page =>
                     \A f \in DOMAIN v.text :
                         \/ v.text[f] = 0 \/ view'[t].text[f] # 0
                         \/ <<v.page, f>> \in Overwritten \cup ClearedAtOnce
                         \/ \E c \in Writes(t) \ calls' :
                               c.answer = "ok" /\ \E w \in Ops(c) : f \in w.form
            ]_<<view, calls>>
  BY EditsStep DEF EditsStepped, KeptIn
<1> QED
  BY <1>1, <1>2, <1>3, FullInvHolds, PTL DEF Spec, EditsAreKept

-----------------------------------------------------------------------------
(* What the handlers of a page do to what it shows *)

\* A handler puts what it changes on the page, or asks for it again.
Refreshes(P) ==
    \A w \in P.writes : \/ w.changes \subseteq w.shows
                        \/ \E i \in DOMAIN w.reloads : w.changes \subseteq w.reloads[i]

\* The page shows r when the GET that brings it, once, has been answered; the handlers that
\* change r put it on the page, share a lock and ask for nothing again.
LoadedOnce(P, r) ==
    /\ ~ P.keyed /\ r \in P.blank /\ r # "organization"
    /\ \A i, j \in DOMAIN P.gets : r \in P.gets[i] /\ r \in P.gets[j] => i = j
    /\ \A w \in P.writes : \A i \in DOMAIN w.reloads : FALSE
    /\ \A v, w \in P.writes : r \in v.shows /\ r \in w.shows => v.lock \cap w.lock # {}

Once ==
    {<<"application", "application">>, <<"offer", "offer">>,
     <<"jobApplication", "application">>, <<"createOffer", "offer">>}

LEMMA OneLoad ==
    ASSUME NEW P, NEW r, NEW name, ~ P.keyed, r \in P.blank, r # "organization",
           \A i, j \in DOMAIN P.gets : r \in P.gets[i] /\ r \in P.gets[j] => i = j,
           \A w \in P.writes : w.reloads = <<>> /\ (r \in w.shows => w.lock = All(name))
    PROVE  LoadedOnce(P, r)
<1>1. \A i \in DOMAIN <<>> : FALSE
  OBVIOUS
<1>2. All(name) \cap All(name) # {}
  BY Zenon DEF All
<1> HIDE DEF All
<1>3. \A w \in P.writes : \A i \in DOMAIN w.reloads : FALSE
  BY <1>1
<1>4. \A v, w \in P.writes : r \in v.shows /\ r \in w.shows => v.lock \cap w.lock # {}
  BY <1>2
<1> QED
  BY <1>3, <1>4 DEF LoadedOnce

LEMMA OncePages ==
    ASSUME NEW p, NEW r, <<p, r>> \in Once
    PROVE  p \in PageNames \ {"billing"} /\ LoadedOnce(Book[p], r)
<1>1. LoadedOnce(ApplicationDetail, "application")
  <2>1. /\ ~ ApplicationDetail.keyed /\ "application" \in ApplicationDetail.blank
        /\ ApplicationDetail.gets = <<{"application"}>>
    BY DEF ApplicationDetail, SessionPage, Page
  <2>2. \A w \in ApplicationDetail.writes : w.lock = All("withdrawing") /\ w.reloads = <<>>
    BY Zenon DEF All, ApplicationDetail, SessionPage, Page, Write
  <2>3. \A i, j \in DOMAIN ApplicationDetail.gets :
           "application" \in ApplicationDetail.gets[i] /\ "application" \in ApplicationDetail.gets[j] => i = j
    BY <2>1
  <2> QED
    BY <2>1, <2>2, <2>3, OneLoad
<1>2. LoadedOnce(OfferReview, "offer")
  <2>1. /\ ~ OfferReview.keyed /\ "offer" \in OfferReview.blank
        /\ OfferReview.gets = <<{"offer"}>>
    BY DEF OfferReview, SessionPage, Page
  <2>2. \A w \in OfferReview.writes : w.lock = All("submitting") /\ w.reloads = <<>>
    BY Zenon DEF All, OfferReview, SessionPage, Page, Write
  <2>3. \A i, j \in DOMAIN OfferReview.gets :
           "offer" \in OfferReview.gets[i] /\ "offer" \in OfferReview.gets[j] => i = j
    BY <2>1
  <2> QED
    BY <2>1, <2>2, <2>3, OneLoad
<1>3. LoadedOnce(JobApplication, "application")
  <2>1. /\ ~ JobApplication.keyed /\ "application" \in JobApplication.blank
        /\ JobApplication.gets =
             <<{"application"}, {"stages"}, {"evaluations"}, {"history"}, {"pools"}>>
        /\ JobApplication.writes = ScreeningButtons \cup DecisionButtons \cup {AddToTalentPool}
    BY DEF JobApplication, OrgPage, Page
  <2>2. \A w \in ScreeningButtons \cup DecisionButtons :
           w.lock = All("acting") /\ w.reloads = <<>>
    BY Zenon DEF All, Acting, ScreeningButtons, DecisionButtons, Write
  <2>3. AddToTalentPool.shows = {} /\ AddToTalentPool.reloads = <<>>
    BY DEF AddToTalentPool, Write
  <2>4. \A w \in JobApplication.writes :
           w.reloads = <<>> /\ ("application" \in w.shows => w.lock = All("acting"))
    BY <2>1, <2>2, <2>3
  <2>5. \A i, j \in DOMAIN JobApplication.gets :
           "application" \in JobApplication.gets[i] /\ "application" \in JobApplication.gets[j] => i = j
    BY <2>1
  <2> QED
    BY <2>1, <2>4, <2>5, OneLoad, Zenon
<1>4. LoadedOnce(CreateOffer, "offer")
  <2>1. /\ ~ CreateOffer.keyed /\ "offer" \in CreateOffer.blank
        /\ CreateOffer.gets = <<{"application"}, {"offer"}>>
    BY DEF CreateOffer, OrgPage, Page
  <2>2. \A w \in CreateOffer.writes : w.lock = All("submitting") /\ w.reloads = <<>>
    BY Zenon DEF All, CreateOffer, OrgPage, Page, Write
  <2>3. \A i, j \in DOMAIN CreateOffer.gets :
           "offer" \in CreateOffer.gets[i] /\ "offer" \in CreateOffer.gets[j] => i = j
    BY <2>1
  <2> QED
    BY <2>1, <2>2, <2>3, OneLoad
<1>5. /\ Book["application"] = ApplicationDetail /\ Book["offer"] = OfferReview
      /\ Book["jobApplication"] = JobApplication /\ Book["createOffer"] = CreateOffer
      /\ {"application", "offer", "jobApplication", "createOffer"} \subseteq PageNames
  BY DEF Book, PageNames
<1>6. \/ p = "application" /\ r = "application"
      \/ p = "offer" /\ r = "offer"
      \/ p = "jobApplication" /\ r = "application"
      \/ p = "createOffer" /\ r = "offer"
  BY DEF Once
<1> QED
  BY <1>1, <1>2, <1>3, <1>4, <1>5, <1>6

\* The pages with tabs or page numbers.
LEMMA KeyedPages ==
    \A p \in PageNames : Book[p].keyed => Book[p].layout # "org" /\ p \in Overlapping
<1>1. \A P \in {CandidateDashboard, ApplicationsList, OffersList, ProfilePage, ApplyForm} :
        P.keyed = FALSE
  BY Zenon DEF CandidateDashboard, ApplicationsList, OffersList, ProfilePage, ApplyForm,
         SessionPage, Page
<1>2. \A P \in {ApplicationDetail, OfferReview, NotificationsList, DocumentsPanel} :
        P.keyed = FALSE
  BY Zenon DEF ApplicationDetail, OfferReview, NotificationsList, DocumentsPanel, SessionPage, Page
<1>3. \A P \in {OrgDashboard, JobsList, Pipeline, OrgOffers, NewJob} : P.keyed = FALSE
  BY Zenon DEF OrgDashboard, JobsList, Pipeline, OrgOffers, NewJob, OrgPage, Page
<1>4. \A P \in {EditJob, JobApplication, ScheduleInterview, CreateOffer} : P.keyed = FALSE
  BY Zenon DEF EditJob, JobApplication, ScheduleInterview, CreateOffer, OrgPage, Page
<1>5. \A P \in {Interviewer, PipelineTemplates, TalentPools, TalentPoolDetail} :
        P.keyed = FALSE
  BY Zenon DEF Interviewer, PipelineTemplates, TalentPools, TalentPoolDetail, OrgPage, Page
<1>6. \A P \in {Partnerships, GeneralSettings, TeamSettings, BillingSettings, ChecklistPanel} :
        P.keyed = FALSE
  BY Zenon DEF Partnerships, GeneralSettings, TeamSettings, BillingSettings, ChecklistPanel,
         OrgPage, Page
<1>7. AdminOverview.keyed = FALSE /\ AdminUniversities.keyed = FALSE
  BY DEF AdminOverview, AdminUniversities, SessionPage, Page
<1>8. \A op, changes : OneForm(op, changes).keyed = FALSE
  BY DEF OneForm, Page
<1>9. \A P \in {RegisterOrganization, AcceptInvitation, ResetPassword, ForgotPassword,
                VerifyEmail, Login} :
        P.keyed = FALSE
  BY <1>8 DEF RegisterOrganization, AcceptInvitation, ResetPassword, ForgotPassword,
         VerifyEmail, Login, Page
<1>10. AdminOrganizations.layout = "session" /\ AuditLog.layout = "session"
  BY DEF AdminOrganizations, AuditLog, SessionPage, Page
<1>11. \A p \in PageNames \ {"organizations", "auditLog"} : ~ Book[p].keyed
  BY <1>1, <1>2, <1>3, <1>4, <1>5, <1>6, <1>7, <1>9 DEF PageNames, Book
<1>12. Book["organizations"] = AdminOrganizations /\ Book["auditLog"] = AuditLog
  BY DEF Book
<1> QED
  BY <1>10, <1>11, <1>12 DEF Overlapping

LEMMA ProfileRefreshes == Refreshes(ProfilePage)
<1>1. ProfilePage.writes = CvButtons \cup SkillsEditor
                     \cup {AboutForm, HandleUpload, ExperienceEditor, EducationEditor}
  BY DEF ProfilePage, SessionPage, Page
<1>2. \A w \in CvButtons : w.changes = {"cvs"} /\ w.reloads = <<MyProfile>>
  BY DEF CvButtons, Write
<1>3. \A w \in SkillsEditor : w.changes = w.shows
  <2> DEFINE Add == [Write("addSkill", {"skills"}) EXCEPT
                       !.shows = {"skills"}, !.form = {"newSkill"}, !.after = "given"]
             Remove == [Write("removeSkill", {"skills"}) EXCEPT !.shows = {"skills"}]
  <2>1. SkillsEditor = {Add, Remove}
    BY DEF SkillsEditor
  <2>2. Add.changes = Add.shows
    BY DEF Write
  <2>3. Remove.changes = Remove.shows
    BY DEF Write
  <2> HIDE DEF Add, Remove
  <2> QED
    BY <2>1, <2>2, <2>3
<1>4. AboutForm.changes = {"about"} /\ AboutForm.shows = MyProfile
  BY DEF AboutForm, Write
<1>5. HandleUpload.changes = {"cvs"} /\ HandleUpload.reloads = <<MyProfile>>
  BY DEF HandleUpload, Write
<1>6. /\ ExperienceEditor.changes = ExperienceEditor.shows
      /\ EducationEditor.changes = EducationEditor.shows
  BY DEF ExperienceEditor, EducationEditor, Write
<1>7. {"about"} \subseteq MyProfile /\ {"cvs"} \subseteq MyProfile
  BY DEF MyProfile
<1>8. \A w : w.reloads = <<MyProfile>> => 1 \in DOMAIN w.reloads /\ w.reloads[1] = MyProfile
  OBVIOUS
<1>9. \A w \in CvButtons \cup {HandleUpload} :
         \E i \in DOMAIN w.reloads : w.changes \subseteq w.reloads[i]
  BY <1>2, <1>5, <1>7, <1>8
<1>10. \A w \in SkillsEditor \cup {AboutForm, ExperienceEditor, EducationEditor} :
         w.changes \subseteq w.shows
  BY <1>3, <1>4, <1>6, <1>7
<1> QED
  BY <1>1, <1>9, <1>10 DEF Refreshes

\* A page all of whose handlers ask for what they change.
LEMMA AllAsk ==
    ASSUME NEW P, \A w \in P.writes : w.reloads = <<w.changes>>
    PROVE  Refreshes(P)
<1>1. \A r : 1 \in DOMAIN <<r>> /\ <<r>>[1] = r
  OBVIOUS
<1> QED
  BY <1>1 DEF Refreshes

\* A page all of whose handlers are answered with what they change.
LEMMA AllShow ==
    ASSUME NEW P, \A w \in P.writes : w.changes = w.shows
    PROVE  Refreshes(P)
  BY DEF Refreshes

LEMMA PagesRefresh ==
    \A P \in {ProfilePage, ApplicationDetail, OfferReview, NotificationsList, DocumentsPanel,
              EditJob, CreateOffer, PipelineTemplates, TalentPools, TalentPoolDetail, Partnerships,
              TeamSettings, BillingSettings, ChecklistPanel, AdminOrganizations,
              AdminUniversities} : Refreshes(P)
<1>1. Refreshes(ApplicationDetail)
  <2>1. \A w \in ApplicationDetail.writes : w.changes = w.shows
    BY ZenonT(20) DEF ApplicationDetail, SessionPage, Page, Write
  <2> QED
    BY <2>1, AllShow
<1>2. Refreshes(OfferReview)
  <2>1. \A w \in OfferReview.writes : w.changes = w.shows
    BY ZenonT(20) DEF OfferReview, SessionPage, Page, Write
  <2> QED
    BY <2>1, AllShow
<1>3. Refreshes(EditJob)
  <2>1. EditJob.writes = {SaveJob, SaveStages} \cup Lifecycle
    BY DEF EditJob, OrgPage, Page
  <2>2. SaveJob.changes = SaveJob.shows /\ SaveStages.changes = SaveStages.shows
    BY DEF SaveJob, SaveStages, Write
  <2>3. \A w \in Lifecycle : w.changes = w.shows
    BY Zenon DEF Lifecycle, Write
  <2> QED
    BY <2>1, <2>2, <2>3, AllShow
<1>4. Refreshes(CreateOffer)
  <2>1. \A w \in CreateOffer.writes : w.changes = w.shows
    BY ZenonT(20) DEF CreateOffer, OrgPage, Page, Write
  <2> QED
    BY <2>1, AllShow
<1>5. Refreshes(BillingSettings)
  <2>1. \A w \in BillingSettings.writes : w.changes = w.shows
    BY ZenonT(20) DEF BillingSettings, OrgPage, Page, Write
  <2> QED
    BY <2>1, AllShow
<1>6. Refreshes(NotificationsList)
  <2>1. \A w \in NotificationsList.writes : w.reloads = <<w.changes>>
    BY ZenonT(20) DEF NotificationsList, SessionPage, Page, Write
  <2> QED
    BY <2>1, AllAsk
<1>7. Refreshes(DocumentsPanel)
  <2>1. \A w \in DocumentsPanel.writes : w.reloads = <<w.changes>>
    BY ZenonT(20) DEF DocumentsPanel, SessionPage, Page, Write
  <2> QED
    BY <2>1, AllAsk
<1>8. Refreshes(PipelineTemplates)
  <2>1. \A w \in PipelineTemplates.writes : w.reloads = <<w.changes>>
    BY ZenonT(20) DEF PipelineTemplates, OrgPage, Page, Write
  <2> QED
    BY <2>1, AllAsk
<1>9. Refreshes(TalentPools)
  <2>1. \A w \in TalentPools.writes : w.reloads = <<w.changes>>
    BY ZenonT(20) DEF TalentPools, OrgPage, Page, Write
  <2> QED
    BY <2>1, AllAsk
<1>10. Refreshes(TalentPoolDetail)
  <2>1. \A w \in TalentPoolDetail.writes : w.reloads = <<w.changes>>
    BY ZenonT(20) DEF TalentPoolDetail, OrgPage, Page, Write
  <2> QED
    BY <2>1, AllAsk
<1>11. Refreshes(TeamSettings)
  <2>1. \A w \in TeamSettings.writes : w.reloads = <<w.changes>>
    BY ZenonT(20) DEF Invite, ConfirmAction, TeamSettings, OrgPage, Page, Write
  <2> QED
    BY <2>1, AllAsk
<1>12. Refreshes(ChecklistPanel)
  <2>1. \A w \in ChecklistPanel.writes : w.reloads = <<w.changes>>
    BY ZenonT(20) DEF ChecklistPanel, OrgPage, Page, Write
  <2> QED
    BY <2>1, AllAsk
<1>13. Refreshes(AdminOrganizations)
  <2>1. \A w \in AdminOrganizations.writes : w.reloads = <<w.changes>>
    BY ZenonT(20) DEF Decisions, AdminOrganizations, SessionPage, Page, Write
  <2> QED
    BY <2>1, AllAsk
<1>14. Refreshes(AdminUniversities)
  <2>1. \A w \in AdminUniversities.writes : w.reloads = <<w.changes>>
    BY ZenonT(20) DEF AdminUniversities, SessionPage, Page, Write
  <2> QED
    BY <2>1, AllAsk
<1>15. Refreshes(Partnerships)
  <2>1. \A w \in Partnerships.writes :
           w.changes = {"partnerships"} /\ w.reloads = BothPartnershipGets
    BY Zenon DEF Partnerships, OrgPage, Page, Write
  <2>2. 1 \in DOMAIN BothPartnershipGets /\ BothPartnershipGets[1] = {"partnerships"}
    BY DEF BothPartnershipGets
  <2> QED
    BY <2>1, <2>2 DEF Refreshes
<1> QED
  BY <1>1, <1>2, <1>3, <1>4, <1>5, <1>6, <1>7, <1>8, <1>9, <1>10, <1>11, <1>12, <1>13, <1>14, <1>15, ProfileRefreshes

\* What a handler of page p that changes r, which is on the page, does about it.
Handled(p, w, r) ==
    /\ \/ r \in w.shows
       \/ \E i \in DOMAIN w.reloads : r \in w.reloads[i]
       \/ <<p, r>> \in NotRefreshed
    /\ p \in Overlapping \/ <<p, r>> \in NotRefreshed \cup Once

LEMMA HandlersRefresh ==
    \A p \in PageNames : \A w \in Book[p].writes : \A r \in w.changes \cap Resources(p) :
        Handled(p, w, r)
<1>1. \A p \in Overlapping \cup {"application", "offer", "createOffer"} :
         Book[p].writes = {} \/ Refreshes(Book[p])
  <2>1. AuditLog.writes = {}
    BY DEF AuditLog, SessionPage, Page
  <2> QED
    BY <2>1, PagesRefresh DEF Overlapping, Book
<1>2. \A p \in Overlapping \cup {"application", "offer", "createOffer"} :
         \A w \in Book[p].writes : \A r \in w.changes :
            r \in w.shows \/ \E i \in DOMAIN w.reloads : r \in w.reloads[i]
  BY <1>1 DEF Refreshes
<1>3. \A w \in ApplicationDetail.writes : w.changes = {"application"}
  BY Zenon DEF ApplicationDetail, SessionPage, Page, Write
<1>4. \A w \in OfferReview.writes : w.changes = {"offer"}
  BY Zenon DEF OfferReview, SessionPage, Page, Write
<1>5. \A w \in CreateOffer.writes : w.changes = {"offer"}
  BY Zenon DEF CreateOffer, OrgPage, Page, Write
<1>6. /\ Book["application"] = ApplicationDetail /\ Book["offer"] = OfferReview
      /\ Book["createOffer"] = CreateOffer
  BY DEF Book
<1>7. \A p \in Overlapping \cup {"application", "offer", "createOffer"} :
         \A w \in Book[p].writes : \A r \in w.changes : Handled(p, w, r)
  <2>1. \A w \in Book["application"].writes : \A r \in w.changes : <<"application", r>> \in Once
    BY <1>3, <1>6 DEF Once
  <2>2. \A w \in Book["offer"].writes : \A r \in w.changes : <<"offer", r>> \in Once
    BY <1>4, <1>6 DEF Once
  <2>3. \A w \in Book["createOffer"].writes : \A r \in w.changes : <<"createOffer", r>> \in Once
    BY <1>5, <1>6 DEF Once
  <2> QED
    BY <1>2, <2>1, <2>2, <2>3 DEF Handled
<1>8. ASSUME NEW w \in Book["jobApplication"].writes,
             NEW r \in w.changes \cap Resources("jobApplication")
      PROVE  Handled("jobApplication", w, r)
  <2>1. Book["jobApplication"] = JobApplication
    BY DEF Book
  <2>2. /\ JobApplication.writes = ScreeningButtons \cup DecisionButtons \cup {AddToTalentPool}
        /\ JobApplication.layout = "org"
        /\ JobApplication.gets =
             <<{"application"}, {"stages"}, {"evaluations"}, {"history"}, {"pools"}>>
    BY DEF JobApplication, OrgPage, Page
  <2>3. \A x \in ScreeningButtons \cup DecisionButtons :
           x.changes \subseteq {"application", "history"} /\ x.shows = {"application"}
    <3>1. \A x \in ScreeningButtons :
             x.changes = {"application", "history"} /\ x.shows = {"application"}
      BY Zenon DEF ScreeningButtons, Write
    <3>2. \A x \in DecisionButtons : x.changes = {"application"} /\ x.shows = {"application"}
      BY Zenon DEF DecisionButtons, Write
    <3> QED
      BY <3>1, <3>2
  <2>4. AddToTalentPool.changes = {"poolMembers"}
    BY DEF AddToTalentPool, Write
  <2>5. "poolMembers" \notin Resources("jobApplication")
    <3>1. \A i \in DOMAIN JobApplication.gets : "poolMembers" \notin JobApplication.gets[i]
      BY <2>2
    <3>2. \A i \in DOMAIN <<{"organization"}>> : "poolMembers" \notin <<{"organization"}>>[i]
      OBVIOUS
    <3> QED
      BY <2>1, <2>2, <3>1, <3>2 DEF Resources, ElementsOf, FrameGets
  <2>6. r \in {"application", "history"} /\ w.shows = {"application"}
    BY <1>8, <2>1, <2>2, <2>3, <2>4, <2>5
  <2> QED
    BY <2>6 DEF Handled, NotRefreshed, Once
<1>9. ASSUME NEW w \in Book["general"].writes, NEW r \in w.changes
      PROVE  Handled("general", w, r)
  <2>1. Book["general"] = GeneralSettings
    BY DEF Book
  <2>2. \A x \in GeneralSettings.writes : x.changes = {"organization"}
    BY Zenon DEF GeneralSettings, OrgPage, Page, Write
  <2> QED
    BY <1>9, <2>1, <2>2 DEF Handled, NotRefreshed
<1>10. \A p \in {"registerOrganization", "accept", "reset", "forgot"} : Resources(p) = {}
  <2>1. \A op, changes : OneForm(op, changes).gets = <<>> /\ OneForm(op, changes).layout = "none"
    BY DEF OneForm, Page
  <2>2. \A p \in {"registerOrganization", "accept", "reset", "forgot"} :
           Book[p].gets = <<>> /\ Book[p].layout = "none"
    BY <2>1 DEF Book, RegisterOrganization, AcceptInvitation, ResetPassword, ForgotPassword
  <2> QED
    BY <2>2 DEF Resources, ElementsOf, FrameGets
<1>11. \A w \in Book["apply"].writes : w.changes \cap Resources("apply") = {}
  <2>1. Book["apply"] = ApplyForm
    BY DEF Book
  <2>2. ApplyForm.gets = <<{"job"}, {"profile"}>> /\ ApplyForm.layout = "session"
    BY DEF ApplyForm, SessionPage, Page
  <2>3. \A x \in ApplyForm.writes : x.changes = {"application"}
    BY Zenon DEF ApplyForm, SessionPage, Page, Write
  <2>4. "application" \notin Resources("apply")
    BY <2>1, <2>2 DEF Resources, ElementsOf, FrameGets
  <2> QED
    BY <2>1, <2>3, <2>4
<1>12. \A w \in Book["newJob"].writes : w.changes \cap Resources("newJob") = {}
  <2>1. Book["newJob"] = NewJob
    BY DEF Book
  <2>2. NewJob.gets = <<>> /\ NewJob.layout = "org"
    BY DEF NewJob, OrgPage, Page
  <2>3. \A x \in NewJob.writes : x.changes = {"job"}
    BY Zenon DEF NewJob, OrgPage, Page, Write
  <2>4. "job" \notin Resources("newJob")
    BY <2>1, <2>2 DEF Resources, ElementsOf, FrameGets
  <2> QED
    BY <2>1, <2>3, <2>4
<1>13. \A w \in Book["schedule"].writes : w.changes \cap Resources("schedule") = {}
  <2>1. Book["schedule"] = ScheduleInterview
    BY DEF Book
  <2>2. ScheduleInterview.gets = <<{"members"}>> /\ ScheduleInterview.layout = "org"
    BY DEF ScheduleInterview, OrgPage, Page
  <2>3. \A x \in ScheduleInterview.writes : x.changes = {"interview"}
    BY Zenon DEF ScheduleInterview, OrgPage, Page, Write
  <2>4. "interview" \notin Resources("schedule")
    BY <2>1, <2>2 DEF Resources, ElementsOf, FrameGets
  <2> QED
    BY <2>1, <2>3, <2>4
<1>14. \A w \in Book["interviewer"].writes : w.changes \cap Resources("interviewer") = {}
  <2>1. Book["interviewer"] = Interviewer
    BY DEF Book
  <2>2. Interviewer.gets = <<{"interviews"}>> /\ Interviewer.layout = "org"
    BY DEF Interviewer, OrgPage, Page
  <2>3. \A x \in Interviewer.writes : x.changes = {"evaluation"}
    BY Zenon DEF Interviewer, OrgPage, Page, Write
  <2>4. "evaluation" \notin Resources("interviewer")
    BY <2>1, <2>2 DEF Resources, ElementsOf, FrameGets
  <2> QED
    BY <2>1, <2>3, <2>4
<1>15. \A p \in {"dashboard", "applications", "candidateOffers", "orgDashboard", "jobs",
                 "pipeline", "orgOffers", "admin", "verify", "login"} : Book[p].writes = {}
  <2>1. \A gets : /\ Page(gets).writes = {} /\ SessionPage(gets).writes = {}
                  /\ OrgPage(gets).writes = {}
    BY DEF SessionPage, OrgPage, Page
  <2>2. Pipeline.writes = {}
    BY DEF Pipeline, OrgPage, Page
  <2>3. \A P \in {CandidateDashboard, ApplicationsList, OffersList, OrgDashboard, JobsList,
                  OrgOffers, AdminOverview, VerifyEmail, Login} : P.writes = {}
    BY <2>1 DEF CandidateDashboard, ApplicationsList, OffersList, OrgDashboard, JobsList,
                OrgOffers, AdminOverview, VerifyEmail, Login
  <2> QED
    BY <2>2, <2>3 DEF Book
<1>16. \A p \in PageNames :
         \/ p \in Overlapping \cup {"application", "offer", "createOffer"}
         \/ p \in {"jobApplication", "general", "apply", "newJob", "schedule", "interviewer"}
         \/ p \in {"registerOrganization", "accept", "reset", "forgot"}
         \/ p \in {"dashboard", "applications", "candidateOffers", "orgDashboard", "jobs",
                   "pipeline", "orgOffers", "admin", "verify", "login"}
  BY DEF PageNames, Book, Overlapping
<1> QED
  BY <1>7, <1>8, <1>9, <1>10, <1>11, <1>12, <1>13, <1>14, <1>15, <1>16

-----------------------------------------------------------------------------
(* What a page shows, and what is on its way to it *)

PageKinds == {"load", "write"}

\* The requests of the page a tab shows.
Mine(t) ==
    {c \in calls : c.kind \in PageKinds /\ c.tab = t /\ c.visit = view[t].visit}

\* No two requests for r were in flight at once, or the page lets none overlap.
Clear(t, r) == <<t, r>> \notin overlapped \/ <<view[t].page, r>> \in Once

Current(v, r) ==
    \/ r \in v.missed
    \/ /\ v.shown[r].version >= v.wrote[r]
       /\ Book[v.page].keyed /\ v.stage = "open" => v.shown[r].key = v.key

\* What request c brings will be current when it is put on the page.
Fresh(v, r, c) ==
    /\ c.answer = "ok" => c.data[r] >= v.wrote[r]
    /\ Book[v.page].keyed => c.key = v.key

RowOK(t, r) ==
    LET v == view[t]
    IN  /\ v.wrote[r] \in 0 .. version[r] /\ v.shown[r].version \in Nat
        /\ v.wrote[r] # 0 => \E w \in Book[v.page].writes : r \in w.changes
        /\ v.stage \in {"closed", "framed"} => v.wrote[r] = 0 /\ v.shown[r].version = 0

\* The page has been shown, or a handler of it is on its way.
Started(t, r) == Has(view[t], r) \/ r \in view[t].missed \/ HandlersOf(t) # {}

OnceOK(t, r) ==
    <<view[t].page, r>> \in Once =>
        /\ \A c, d \in LoadsOf(t, r) : c = d
        /\ Started(t, r) => LoadsOf(t, r) = {}

FreshOK(t, r) ==
    Clear(t, r) /\ <<view[t].page, r>> \notin NotRefreshed =>
        /\ \A c \in Mine(t) : r \in Brings(c) => Fresh(view[t], r, c)
        /\ Current(view[t], r) \/ LoadsOf(t, r) # {}

StageOK(t) ==
    /\ view[t].stage = "closed" => Mine(t) = {}
    /\ view[t].stage = "framed" =>
          /\ Book[view[t].page].layout = "org"
          /\ \A c \in Mine(t) : c.kind = "load" /\ c.get = {"organization"}
    /\ view[t].stage \in {"closed", "framed"} => view[t].missed = {} /\ view[t].key = 1

DomainsOK(t) ==
    /\ DOMAIN view[t].shown = Resources(view[t].page)
    /\ DOMAIN view[t].wrote = Resources(view[t].page)
    /\ Resources(view[t].page) \subseteq DOMAIN version

RowsOK(t) ==
    \A r \in Resources(view[t].page) : RowOK(t, r) /\ OnceOK(t, r) /\ FreshOK(t, r)

ShowOK(t) == view[t].stage # "left" => DomainsOK(t) /\ StageOK(t) /\ RowsOK(t)

VersionOK ==
    /\ \A r \in DOMAIN version : version[r] \in Nat
    /\ Resources(Home) \subseteq DOMAIN version

DataOK ==
    \A c \in calls : c.kind \in PageKinds /\ c.answer = "ok" =>
        \A r \in DOMAIN version :
            c.kind = "write" \/ r \in c.get => c.data[r] \in 0 .. version[r]

OverlapOK == Overlaps(calls) \subseteq overlapped

ShowInv == VersionOK /\ DataOK /\ OverlapOK /\ \A t \in Tab : ShowOK(t)

-----------------------------------------------------------------------------
(* How the requests go on *)

\* d is c at another moment; an answer it has is c's, or brings what the server has now.
GoesOn(c, d) ==
    /\ SameRequest(c, d)
    /\ d.answer = "ok" => d = c \/ Brought(c, d)

\* The requests of pages were in flight before, but those in new.
Carried(new) ==
    \A d \in calls' : d.kind \in PageKinds => d \in new \/ \E c \in calls : GoesOn(c, d)

\* The GETs of a tab's page are still on their way.
LoadsStay(t) ==
    \A c \in Mine(t) : c.kind = "load" => \E d \in calls' : GoesOn(c, d)

VersionGrows ==
    /\ DOMAIN version' = DOMAIN version
    /\ \A r \in DOMAIN version : version'[r] \in Nat /\ version'[r] >= version[r]

\* The tab shows what it showed.
SameRows(v, w) ==
    /\ w.page = v.page /\ w.visit = v.visit /\ w.stage = v.stage /\ w.key = v.key
    /\ w.shown = v.shown /\ w.wrote = v.wrote /\ w.missed = v.missed

LEMMA BringsSame ==
    ASSUME NEW c, NEW d, SameRequest(c, d)
    PROVE  Brings(d) = Brings(c)
  BY DEF Brings, Ops, SameRequest

\* Two requests that bring a resource to a tab are one, or overlap.
LEMMA OneBrings ==
    ASSUME NEW cs, NEW m, CallsOK(cs, m), NEW t, NEW r, <<t, r>> \notin Overlaps(cs),
           NEW c \in cs, NEW d \in cs, c.tab = t, d.tab = t, r \in Brings(c), r \in Brings(d)
    PROVE  c = d
<1>1. \A a, b \in cs : a.tab = t /\ b.tab = t /\ r \in Brings(a) /\ r \in Brings(b)
                         => ~ a.id < b.id
  <2> SUFFICES ASSUME NEW a \in cs, NEW b \in cs, a.tab = t, b.tab = t,
                      r \in Brings(a), r \in Brings(b), a.id < b.id
               PROVE  <<t, r>> \in Overlaps(cs)
    OBVIOUS
  <2>1. b \in {e \in cs : e.tab = a.tab /\ a.id < e.id}
    OBVIOUS
  <2>2. r \in UNION {Brings(a) \cap Brings(e) : e \in {x \in cs : x.tab = a.tab /\ a.id < x.id}}
    BY <2>1
  <2>3. <<t, r>> \in {a.tab} \X UNION {Brings(a) \cap Brings(e) :
                                         e \in {x \in cs : x.tab = a.tab /\ a.id < x.id}}
    BY <2>2
  <2> QED
    BY <2>3 DEF Overlaps
<1>2. c.id \in Nat /\ d.id \in Nat /\ (c.id = d.id => c = d)
  BY DEF CallsOK, Typed
<1>3. ~ c.id < d.id /\ ~ d.id < c.id
  BY <1>1
<1> QED
  BY <1>2, <1>3

\* A page that can be used has what it shows once.
LEMMA UsableStarted ==
    ASSUME NEW t \in Tab, Usable(view[t]), NEW r, <<view[t].page, r>> \in Once
    PROVE  Started(t, r)
  BY OncePages DEF LoadedOnce, Usable, Started

\* A tab whose page shows what it showed, while its requests go on and handlers are called.
LEMMA ShowStays ==
    ASSUME IInv, IInv', VersionOK, VersionGrows, overlapped \subseteq overlapped',
           NEW t \in Tab, ShowOK(t), SameRows(view[t], view'[t]),
           NEW new, Carried(new), LoadsStay(t),
           \A d \in new : d.tab = t /\ d.visit = view[t].visit =>
              d.kind = "write" /\ d.answer # "ok" /\ d.key = view[t].key /\ Usable(view[t])
    PROVE  ShowOK(t)'
<1> SUFFICES ASSUME view[t].stage # "left"
             PROVE  DomainsOK(t)' /\ StageOK(t)' /\ RowsOK(t)'
  BY DEF ShowOK, SameRows
<1>1. DomainsOK(t) /\ StageOK(t) /\ RowsOK(t)
  BY DEF ShowOK
<1>2. ASSUME NEW d \in Mine(t)'
      PROVE  \/ d \in new /\ d.tab = t /\ d.visit = view[t].visit
             \/ \E c \in Mine(t) : GoesOn(c, d)
  BY DEF Mine, Carried, GoesOn, SameRequest, SameRows
<1>3. ASSUME NEW c \in Mine(t), c.kind = "load"
      PROVE  \E d \in Mine(t)' : GoesOn(c, d)
  BY <1>3 DEF Mine, LoadsStay, GoesOn, SameRequest, SameRows
<1>4. DomainsOK(t)'
  BY <1>1 DEF DomainsOK, SameRows, VersionGrows
<1>5. StageOK(t)'
  <2>1. view[t].stage \in {"closed", "framed"} => ~ Usable(view[t])
    BY DEF Usable
  <2>2. view[t].stage \in {"closed", "framed"} =>
           \A d \in Mine(t)' : \E c \in Mine(t) : d.kind = c.kind /\ d.get = c.get
    BY <1>2, <2>1 DEF GoesOn, SameRequest
  <2>3. view'[t].stage = "closed" => Mine(t)' = {}
    BY <1>1, <2>2 DEF StageOK, SameRows
  <2>4. view'[t].stage = "framed" =>
           /\ Book[view'[t].page].layout = "org"
           /\ \A c \in Mine(t)' : c.kind = "load" /\ c.get = {"organization"}
    BY <1>1, <2>2 DEF StageOK, SameRows
  <2> QED
    BY <1>1, <2>3, <2>4 DEF StageOK, SameRows
<1>6. ASSUME NEW r \in Resources(view[t].page)
      PROVE  RowOK(t, r)' /\ OnceOK(t, r)' /\ FreshOK(t, r)'
  <2>1. RowOK(t, r) /\ OnceOK(t, r) /\ FreshOK(t, r)
    BY <1>1 DEF RowsOK
  <2>2. version[r] \in Nat /\ version'[r] \in Nat /\ version'[r] >= version[r]
    BY <1>1 DEF DomainsOK, VersionGrows, VersionOK
  <2>3. RowOK(t, r)'
    BY <2>1, <2>2 DEF RowOK, SameRows
  <2>4. ASSUME NEW d \in LoadsOf(t, r)'
        PROVE  \E c \in LoadsOf(t, r) : SameRequest(c, d)
    <3>1. d \in Mine(t)' /\ d.kind = "load" /\ r \in d.get
      BY DEF LoadsOf, Mine, PageKinds
    <3>2. PICK c \in Mine(t) : GoesOn(c, d)
      BY <1>2, <3>1
    <3> QED
      BY <3>1, <3>2 DEF GoesOn, SameRequest, LoadsOf, Mine
  <2>5. OnceOK(t, r)'
    <3> SUFFICES ASSUME <<view[t].page, r>> \in Once
                 PROVE  /\ \A c, d \in LoadsOf(t, r)' : c = d
                        /\ Started(t, r)' => LoadsOf(t, r)' = {}
      BY DEF OnceOK, SameRows
    <3>1. ASSUME NEW c \in LoadsOf(t, r)', NEW d \in LoadsOf(t, r)'
          PROVE  c = d
      <4>1. PICK a \in LoadsOf(t, r) : SameRequest(a, c)
        BY <2>4
      <4>2. PICK b \in LoadsOf(t, r) : SameRequest(b, d)
        BY <2>4
      <4>3. a = b
        BY <2>1, <4>1, <4>2 DEF OnceOK
      <4>4. c.id = d.id /\ c \in calls' /\ d \in calls'
        BY <4>1, <4>2, <4>3 DEF SameRequest, LoadsOf
      <4> QED
        BY <4>4 DEF IInv, CallsOK
    <3>2. ASSUME NEW d \in HandlersOf(t)'
          PROVE  Started(t, r)
      <4>1. d \in Mine(t)' /\ d.kind = "write"
        BY DEF HandlersOf, Mine, PageKinds
      <4>2. CASE d \in new /\ d.tab = t /\ d.visit = view[t].visit
        BY <4>2, UsableStarted
      <4>3. ASSUME NEW c \in Mine(t), GoesOn(c, d)
            PROVE  Started(t, r)
        BY <4>1, <4>3 DEF GoesOn, SameRequest, Started, HandlersOf, Mine
      <4> QED
        BY <1>2, <4>1, <4>2, <4>3
    <3>3. Started(t, r)' => Started(t, r)
      BY <3>2 DEF Started, Has, SameRows
    <3>4. LoadsOf(t, r) = {} => LoadsOf(t, r)' = {}
      BY <2>4
    <3> QED
      BY <2>1, <3>1, <3>3, <3>4 DEF OnceOK
  <2>6. FreshOK(t, r)'
    <3> SUFFICES ASSUME Clear(t, r)', <<view[t].page, r>> \notin NotRefreshed
                 PROVE  /\ \A c \in Mine(t)' : r \in Brings(c)' => Fresh(view[t], r, c)
                        /\ Current(view[t], r) \/ LoadsOf(t, r)' # {}
      BY SMTT(20) DEF FreshOK, SameRows, Fresh, Current
    <3>1. Clear(t, r)
      BY DEF Clear, SameRows
    <3>2. /\ \A c \in Mine(t) : r \in Brings(c) => Fresh(view[t], r, c)
          /\ Current(view[t], r) \/ LoadsOf(t, r) # {}
      BY <2>1, <3>1 DEF FreshOK
    <3>3. LoadsOf(t, r) # {} => LoadsOf(t, r)' # {}
      <4> SUFFICES ASSUME NEW c \in LoadsOf(t, r)
                   PROVE  LoadsOf(t, r)' # {}
        OBVIOUS
      <4>1. c \in Mine(t) /\ c.kind = "load" /\ r \in c.get
        BY DEF LoadsOf, Mine, PageKinds
      <4>2. PICK d \in Mine(t)' : GoesOn(c, d)
        BY <1>3, <4>1
      <4>3. d \in LoadsOf(t, r)'
        BY <4>1, <4>2 DEF GoesOn, SameRequest, LoadsOf, Mine
      <4> QED
        BY <4>3
    <3>4. ASSUME NEW d \in Mine(t)', r \in Brings(d)'
          PROVE  Fresh(view[t], r, d)
      <4>1. CASE d \in new /\ d.tab = t /\ d.visit = view[t].visit
        BY <4>1 DEF Fresh
      <4>2. ASSUME NEW c \in Mine(t), GoesOn(c, d)
            PROVE  Fresh(view[t], r, d)
        <5>1. SameRequest(c, d) /\ Brings(d)' = Brings(d) /\ d.key = c.key /\ d.kind = c.kind
              /\ d.get = c.get
          BY <4>2 DEF GoesOn, SameRequest, Brings, Ops
        <5>2. Fresh(view[t], r, c)
          BY <3>2, <3>4, <5>1, BringsSame
        <5>3. CASE d = c
          BY <5>2, <5>3
        <5>4. CASE d.answer = "ok" /\ Brought(c, d)
          <6>1. r \in DOMAIN version /\ view[t].wrote[r] \in 0 .. version[r]
            BY <1>1, <2>1 DEF DomainsOK, RowOK
          <6>2. c.kind = "write" \/ r \in c.get
            BY <3>4, <4>2, <5>1 DEF Brings, Mine, PageKinds
          <6>3. d.data[r] = version'[r]
            BY <5>4, <6>1, <6>2 DEF Brought
          <6> QED
            BY <2>2, <5>1, <5>2, <6>1, <6>3 DEF Fresh
        <5>5. CASE d.answer # "ok"
          BY <5>1, <5>2, <5>5 DEF Fresh
        <5> QED
          BY <4>2, <5>3, <5>4, <5>5 DEF GoesOn
      <4> QED
        BY <1>2, <4>1, <4>2
    <3> QED
      BY <3>2, <3>3, <3>4
  <2> QED
    BY <2>3, <2>5, <2>6
<1> QED
  BY <1>4, <1>5, <1>6 DEF RowsOK, SameRows

\* A tab that shows a page anew.
LEMMA ShowBlank ==
    ASSUME IInv, IInv', VersionOK, VersionGrows, NEW t \in Tab, NEW p \in {"login", Home},
           view'[t] = Blank(p, made), NEW new, Carried(new),
           \A d \in new : d.tab # t
    PROVE  ShowOK(t)'
<1>1. PICK v : /\ view'[t] = v
               /\ v.page = p /\ v.visit = made /\ v.stage = "closed" /\ v.key = 1
               /\ DOMAIN v.shown = Resources(p) /\ DOMAIN v.wrote = Resources(p)
               /\ \A r \in Resources(p) : v.shown[r].version = 0 /\ v.wrote[r] = 0
               /\ v.missed = {}
  BY DEF Blank
<1>2. \A c \in calls : c.kind \in PageKinds => c.visit # made
  BY DEF IInv, CallsOK, Typed, PageKinds
<1>3. Mine(t)' = {}
  BY <1>1, <1>2 DEF Mine, Carried, GoesOn, SameRequest
<1>5. \A r : LoadsOf(t, r)' = {}
  BY <1>3 DEF LoadsOf, Mine, PageKinds
<1>6. HandlersOf(t)' = {}
  BY <1>3 DEF HandlersOf, Mine, PageKinds
<1>7. Resources(p) \subseteq DOMAIN version
  <2>1. Resources("login") = {}
    <3>1. Book["login"] = Login /\ Login.gets = <<>> /\ Login.layout = "none"
      BY DEF Book, Login, Page
    <3> QED
      BY <3>1 DEF Resources, ElementsOf, FrameGets
  <2> QED
    BY <2>1 DEF VersionOK
<1>8. DomainsOK(t)'
  BY <1>1, <1>7 DEF DomainsOK, VersionGrows, Resources, FrameGets
<1>9. StageOK(t)'
  BY <1>1, <1>3 DEF StageOK
<1>10. ASSUME NEW r \in Resources(p)
       PROVE  RowOK(t, r)' /\ OnceOK(t, r)' /\ FreshOK(t, r)'
  <2>1. version'[r] \in Nat
    BY <1>7 DEF VersionGrows
  <2>2. RowOK(t, r)'
    BY <1>1, <2>1 DEF RowOK
  <2>3. OnceOK(t, r)'
    BY <1>5 DEF OnceOK
  <2>4. Current(v, r)
    BY <1>1 DEF Current
  <2>5. FreshOK(t, r)'
    BY <1>1, <1>3, <2>4 DEF FreshOK, Current
  <2> QED
    BY <2>2, <2>3, <2>5
<1>11. RowsOK(t)'
  BY <1>1, <1>10 DEF RowsOK, Resources, FrameGets
<1> QED
  BY <1>8, <1>9, <1>11 DEF ShowOK

LEMMA VersionStays ==
    ASSUME VersionOK, VersionGrows
    PROVE  VersionOK'
  BY DEF VersionOK, VersionGrows, Resources, FrameGets

LEMMA DataStays ==
    ASSUME DataOK, VersionOK, VersionGrows, NEW new, Carried(new), \A d \in new : d.answer # "ok"
    PROVE  DataOK'
<1> SUFFICES ASSUME NEW d \in calls', d.kind \in PageKinds, d.answer = "ok",
                    NEW r \in DOMAIN version, d.kind = "write" \/ r \in d.get
             PROVE  d.data[r] \in 0 .. version'[r]
  BY DEF DataOK, VersionGrows
<1>1. PICK c \in calls : GoesOn(c, d)
  BY DEF Carried
<1>2. d.kind = c.kind /\ d.get = c.get
  BY <1>1 DEF GoesOn, SameRequest
<1>3. version[r] \in Nat /\ version'[r] \in Nat /\ version'[r] >= version[r]
  BY DEF VersionOK, VersionGrows
<1>4. CASE d = c
  BY <1>3, <1>4 DEF DataOK
<1>5. CASE Brought(c, d)
  BY <1>2, <1>3, <1>5 DEF Brought
<1> QED
  BY <1>1, <1>4, <1>5 DEF GoesOn

\* A step that moves no page, but for another one.
LEMMA OffShows ==
    ASSUME IInv, IInv', ShowInv, VersionGrows, overlapped \subseteq overlapped', OverlapOK',
           Carried({}), \A t \in Tab : LoadsStay(t),
           \A t \in Tab : \/ SameRows(view[t], view'[t])
                          \/ \E p \in {"login", Home} : view'[t] = Blank(p, made)
    PROVE  ShowInv'
<1> PICK none : none = {}
  OBVIOUS
<1>1. Carried(none) /\ \A d \in none : FALSE
  OBVIOUS
<1>2. VersionOK' /\ DataOK'
  BY <1>1, VersionStays, DataStays DEF ShowInv
<1>3. ASSUME NEW t \in Tab
      PROVE  ShowOK(t)'
  <2>1. CASE SameRows(view[t], view'[t])
    BY <1>1, <2>1, ShowStays DEF ShowInv
  <2>2. ASSUME NEW p \in {"login", Home}, view'[t] = Blank(p, made)
        PROVE  ShowOK(t)'
    BY <1>1, <2>2, ShowBlank DEF ShowInv
  <2> QED
    BY <2>1, <2>2
<1> QED
  BY <1>2, <1>3 DEF ShowInv

\* A step of the page in tab t.
LEMMA OnShows ==
    ASSUME IInv, IInv', ShowInv, VersionGrows, overlapped \subseteq overlapped', OverlapOK',
           NEW t \in Tab, NEW new, Carried(new), \A d \in new : d.tab = t /\ d.answer # "ok",
           \A u \in Tab \ {t} : view'[u] = view[u] /\ LoadsStay(u),
           ShowOK(t)'
    PROVE  ShowInv'
<1>1. VersionOK' /\ DataOK'
  BY VersionStays, DataStays DEF ShowInv
<1>2. ASSUME NEW u \in Tab \ {t}
      PROVE  ShowOK(u)'
  <2>1. SameRows(view[u], view'[u])
    BY DEF SameRows
  <2>2. \A d \in new : d.tab # u
    OBVIOUS
  <2> QED
    BY <2>1, <2>2, ShowStays DEF ShowInv
<1> QED
  BY <1>1, <1>2 DEF ShowInv

-----------------------------------------------------------------------------
(* The steps of a page *)

\* The GETs a page begins.
Begins(new, t, visit, gets, k) ==
    /\ \A d \in new : /\ d.kind = "load" /\ d.tab = t /\ d.visit = visit
                      /\ d.key = k /\ d.answer = "none" /\ Brings(d) = d.get
                      /\ \E i \in DOMAIN gets : d.id = made + i /\ d.get = gets[i]
    /\ \A i \in DOMAIN gets : \E d \in new : d.get = gets[i]

LEMMA LoadsBegin ==
    ASSUME NEW t, NEW p, NEW visit, NEW gets, NEW k
    PROVE  Begins(Loads(t, p, visit, gets, k), t, visit, gets, k)
<1> DEFINE D(i) == [Exchange(t, made + i, "load") EXCEPT
                       !.page = p, !.visit = visit, !.get = gets[i], !.key = k]
<1>1. Loads(t, p, visit, gets, k) = {D(i) : i \in DOMAIN gets}
  BY DEF Loads
<1>2. ASSUME NEW i
      PROVE  /\ D(i).kind = "load" /\ D(i).tab = t /\ D(i).visit = visit
             /\ D(i).key = k /\ D(i).answer = "none"
             /\ D(i).id = made + i /\ D(i).get = gets[i]
  BY DEF Exchange
<1>3. \A d : d.kind = "load" => Brings(d) = d.get
  BY DEF Brings
<1> HIDE DEF D
<1> QED
  BY <1>1, <1>2, <1>3 DEF Begins

LEMMA WriteBrings ==
    ASSUME NEW c, c.kind = "write"
    PROVE  \A r : r \in Brings(c) <=>
              \E w \in Ops(c) : r \in w.shows \/ \E i \in DOMAIN w.reloads : r \in w.reloads[i]
<1>1. Brings(c) = UNION {w.shows \cup UNION ElementsOf(w.reloads) : w \in Ops(c)}
  BY DEF Brings
<1>2. \A w, r : r \in UNION ElementsOf(w.reloads) <=> \E i \in DOMAIN w.reloads : r \in w.reloads[i]
  BY DEF ElementsOf
<1> QED
  BY <1>1, <1>2

\* The resources of a page are those of its GETs and of its frame.
LEMMA ResourcesAre ==
    ASSUME NEW p
    PROVE  \A r : r \in Resources(p) <=>
              \/ \E i \in DOMAIN Book[p].gets : r \in Book[p].gets[i]
              \/ Book[p].layout = "org" /\ r = "organization"
<1>1. ElementsOf(FrameGets(p)) = IF Book[p].layout = "org" THEN {{"organization"}} ELSE {}
  BY DEF FrameGets, ElementsOf
<1> QED
  BY <1>1, Zenon DEF Resources, ElementsOf

\* The page of tab t ends the requests in gone, and begins the GETs in new.
PageMoves(t, v, gone, new) ==
    /\ Becomes(t, v) /\ v.page = view[t].page /\ v.visit = view[t].visit
    /\ calls' = (calls \ gone) \cup new
    /\ \A c \in gone : c.tab = t
    /\ \A d \in new : /\ d.kind = "load" /\ d.tab = t /\ d.visit = v.visit
                      /\ d.answer = "none" /\ Brings(d) = d.get

LEMMA MineMoves ==
    ASSUME NEW t, NEW v, NEW gone, NEW new, PageMoves(t, v, gone, new)
    PROVE  /\ Mine(t)' = (Mine(t) \ gone) \cup new
           /\ \A r, d : d \in LoadsOf(t, r)' <=> \/ d \in LoadsOf(t, r) \ gone
                                                 \/ d \in new /\ r \in d.get
           /\ HandlersOf(t)' = HandlersOf(t) \ gone
  BY DEF PageMoves, Becomes, Mine, LoadsOf, HandlersOf, PageKinds

LEMMA PageShows ==
    ASSUME IInv, IInv', ShowInv, UNCHANGED version, overlapped \subseteq overlapped', OverlapOK',
           NEW t \in Tab, NEW v, Becomes(t, v), NEW gone, NEW new,
           calls' = (calls \ gone) \cup new, \A c \in gone : c.tab = t,
           \A d \in new : d.tab = t /\ d.answer # "ok",
           Carried(new) /\ VersionGrows => ShowOK(t)'
    PROVE  ShowInv'
<1>1. \A c \in calls : GoesOn(c, c)
  BY DEF IInv, CallsOK, Typed, SameRequest, GoesOn
<1>2. Carried(new)
  BY <1>1 DEF Carried
<1>3. \A u \in Tab \ {t} : LoadsStay(u)
  BY <1>1 DEF LoadsStay, Mine
<1>4. VersionGrows
  BY DEF VersionGrows, ShowInv, VersionOK
<1> QED
  BY <1>2, <1>3, <1>4, OnShows DEF Becomes

LEMMA MovesShow ==
    ASSUME IInv, IInv', ShowInv, UNCHANGED version, overlapped \subseteq overlapped', OverlapOK',
           NEW t \in Tab, NEW v, NEW gone, NEW new, PageMoves(t, v, gone, new),
           ShowOK(t)'
    PROVE  ShowInv'
<1>1. /\ Becomes(t, v) /\ calls' = (calls \ gone) \cup new
      /\ (\A c \in gone : c.tab = t) /\ (\A d \in new : d.tab = t /\ d.answer # "ok")
  BY DEF PageMoves
<1> QED
  BY <1>1, PageShows, Zenon

LEMMA TypeShows ==
    ASSUME IInv, IInv', ShowInv, overlapped \subseteq overlapped', OverlapOK',
           NEW t \in Tab, NEW f, Type(t, f)
    PROVE  ShowInv'
<1> PICK none : none = {}
  BY Zenon
<1>1. IsView(view[t]) /\ view = [u \in Tab |-> view[u]]
  BY DEF IInv, ViewsOK
<1>2. PICK v : Becomes(t, v) /\ SameRows(view[t], v)
  <2> DEFINE text == [view[t].text EXCEPT ![f] = typed']
             v == [view[t] EXCEPT !.text = text]
  <2>1. Becomes(t, v)
    BY <1>1 DEF Type, Becomes
  <2>2. SameRows(view[t], v)
    BY <1>1 DEF SameRows, IsView
  <2> HIDE DEF v
  <2> QED
    BY <2>1, <2>2
<1>3. UNCHANGED <<calls, version>>
  BY DEF Type, clientVars
<1>4. \A c \in calls : GoesOn(c, c)
  BY DEF IInv, CallsOK, Typed, SameRequest, GoesOn
<1>5. LoadsStay(t)
  BY <1>3, <1>4 DEF LoadsStay, Mine
<1>6. SameRows(view[t], view'[t])
  BY <1>2 DEF Becomes
<1>7. Carried(none) /\ VersionGrows => ShowOK(t)'
  BY <1>5, <1>6, ShowStays DEF ShowInv
<1>8. calls' = (calls \ none) \cup none
  BY <1>3
<1> QED
  BY <1>2, <1>3, <1>7, <1>8, PageShows

LEMMA ClickShows ==
    ASSUME IInv, IInv', ShowInv, overlapped \subseteq overlapped', OverlapOK',
           NEW t \in Tab, NEW w, Click(t, w)
    PROVE  ShowInv'
<1> PICK none : none = {}
  BY Zenon
<1>1. IsView(view[t]) /\ view = [u \in Tab |-> view[u]]
  BY DEF IInv, ViewsOK
<1>2. PICK v : Becomes(t, v) /\ SameRows(view[t], v)
  <2> DEFINE text == [f \in DOMAIN view[t].text |->
                        IF f \in w.form /\ w.after = "given" THEN 0 ELSE view[t].text[f]]
             v == [view[t] EXCEPT !.locks = Locked(view[t], w), !.text = text]
  <2>1. Becomes(t, v)
    BY <1>1, Zenon DEF Click, Becomes
  <2>2. SameRows(view[t], v)
    BY <1>1 DEF SameRows, IsView
  <2> HIDE DEF v
  <2> QED
    BY <2>1, <2>2
<1>3. PICK e : /\ e.tab = t /\ e.kind = "write" /\ e.answer = "none" /\ e.key = view[t].key
               /\ calls' = calls \cup {e}
  <2> DEFINE e == [Exchange(t, made', "write") EXCEPT
                      !.page = view[t].page, !.visit = view[t].visit, !.op = w.op,
                      !.key = view[t].key, !.text = TextOf(view[t], w)]
  <2>1. e.tab = t /\ e.kind = "write" /\ e.answer = "none" /\ e.key = view[t].key
    BY DEF Exchange
  <2>2. calls' = calls \cup {e}
    BY DEF Click
  <2> HIDE DEF e
  <2> QED
    BY <2>1, <2>2
<1> PICK new : new = {e}
  BY Zenon
<1>4. UNCHANGED version /\ Usable(view[t])
  BY DEF Click
<1>5. \A c \in calls : GoesOn(c, c)
  BY DEF IInv, CallsOK, Typed, SameRequest, GoesOn
<1>6. LoadsStay(t)
  BY <1>3, <1>5 DEF LoadsStay, Mine
<1>7. SameRows(view[t], view'[t])
  BY <1>2 DEF Becomes
<1>8. \A d \in new : d.tab = t /\ d.kind = "write" /\ d.answer # "ok" /\ d.key = view[t].key
  BY <1>3
<1>9. Carried(new) /\ VersionGrows => ShowOK(t)'
  BY <1>4, <1>6, <1>7, <1>8, ShowStays DEF ShowInv
<1>10. calls' = (calls \ none) \cup new
  BY <1>3
<1> QED
  BY <1>2, <1>4, <1>8, <1>9, <1>10, PageShows

\* FreshOK at the next moment.
LEMMA FreshThen ==
    ASSUME NEW t, NEW r, NEW v, view'[t] = v,
           Clear(t, r)' /\ <<v.page, r>> \notin NotRefreshed =>
              /\ \A c \in Mine(t)' : r \in Brings(c) => Fresh(v, r, c)
              /\ Current(v, r) \/ LoadsOf(t, r)' # {}
    PROVE  FreshOK(t, r)'
<1>1. \A c : Brings(c)' = Brings(c)
  BY DEF Brings, Ops
<1>2. \A c : Fresh(view[t], r, c)' <=> Fresh(v, r, c)
  BY DEF Fresh
<1>3. Current(view[t], r)' <=> Current(v, r)
  BY DEF Current
<1> QED
  BY <1>1, <1>2, <1>3 DEF FreshOK

LEMMA ClearBefore ==
    ASSUME NEW t, NEW r, overlapped \subseteq overlapped', view'[t].page = view[t].page, Clear(t, r)'
    PROVE  Clear(t, r)
  BY DEF Clear

LEMMA ChooseShows ==
    ASSUME IInv, IInv', ShowInv, overlapped \subseteq overlapped', OverlapOK',
           NEW t \in Tab, Choose(t)
    PROVE  ShowInv'
<1>1. /\ IsView(view[t]) /\ view = [u \in Tab |-> view[u]] /\ view[t].page \in PageNames
      /\ made \in Nat /\ view[t].visit \in 0 .. made
  BY DEF IInv, ViewsOK, CallsOK
<1> PICK visit, gets, k :
       visit = view[t].visit /\ gets = Book[view[t].page].gets /\ k = 3 - view[t].key
  OBVIOUS
<1>2. PICK v : /\ Becomes(t, v) /\ v.page = view[t].page /\ v.visit = view[t].visit
               /\ v.stage = view[t].stage /\ v.shown = view[t].shown
               /\ v.wrote = view[t].wrote /\ v.missed = view[t].missed /\ v.key = k
  <2> DEFINE v == [view[t] EXCEPT !.key = k]
  <2>1. Becomes(t, v)
    BY <1>1 DEF Choose, Becomes
  <2>2. /\ v.page = view[t].page /\ v.visit = view[t].visit
        /\ v.stage = view[t].stage /\ v.shown = view[t].shown
        /\ v.wrote = view[t].wrote /\ v.missed = view[t].missed /\ v.key = k
    BY <1>1 DEF IsView
  <2> HIDE DEF v
  <2> QED
    BY <2>1, <2>2
<1> PICK none, new : none = {} /\ new = Loads(t, view[t].page, view[t].visit, gets, k)
  BY Zenon
<1>3. calls' = (calls \ none) \cup new
  BY DEF Choose
<1>4. Begins(new, t, visit, gets, k)
  BY LoadsBegin
<1>5. /\ \A d \in new : /\ d.kind = "load" /\ d.tab = t /\ d.visit = view[t].visit
                        /\ d.key = k /\ d.answer = "none" /\ Brings(d) = d.get
      /\ \A i \in DOMAIN gets : \E d \in new : d.get = gets[i]
  BY <1>4 DEF Begins
<1>6. UNCHANGED version /\ view[t].stage = "open" /\ Book[view[t].page].keyed
  BY DEF Choose, Usable
<1>7. Book[view[t].page].layout # "org"
  BY <1>1, <1>6, KeyedPages
<1>8. view'[t] = v
  BY <1>2 DEF Becomes
<1>9. PageMoves(t, v, none, new)
  BY <1>2, <1>3, <1>5 DEF PageMoves
<1>10. /\ Mine(t)' = Mine(t) \cup new
       /\ \A r, d : d \in LoadsOf(t, r)' <=> d \in LoadsOf(t, r) \/ (d \in new /\ r \in d.get)
  BY <1>9, MineMoves
<1>11. DomainsOK(t) /\ RowsOK(t)
  BY <1>6 DEF ShowInv, ShowOK
<1>12. ASSUME NEW r \in Resources(view[t].page)
       PROVE  RowOK(t, r)' /\ OnceOK(t, r)' /\ FreshOK(t, r)'
  <2>1. RowOK(t, r)
    BY <1>11 DEF RowsOK
  <2>2. RowOK(t, r)'
    BY <1>2, <1>6, <1>8, <2>1 DEF RowOK
  <2>3. OnceOK(t, r)'
    BY <1>2, <1>6, <1>8, OncePages DEF OnceOK, LoadedOnce, Once
  <2>4. PICK e \in new : r \in e.get
    BY <1>5, <1>7, ResourcesAre
  <2>5. ASSUME Clear(t, r)'
        PROVE  /\ \A c \in Mine(t)' : r \in Brings(c) => Fresh(v, r, c)
               /\ Current(v, r) \/ LoadsOf(t, r)' # {}
    <3>1. <<t, r>> \notin Overlaps(calls')
      <4>1. <<view[t].page, r>> \notin Once
        BY <1>6, OncePages DEF LoadedOnce
      <4>2. <<t, r>> \notin overlapped'
        BY <1>2, <1>8, <2>5, <4>1 DEF Clear, Once
      <4> QED
        BY <4>2, Zenon DEF OverlapOK, Overlaps, Brings, Ops
    <3>2. \A c \in Mine(t)' : c \in calls' /\ c.tab = t
      BY DEF Mine
    <3>3. e \in Mine(t)' /\ r \in Brings(e) /\ e \in LoadsOf(t, r)'
      BY <1>5, <1>10, <2>4
    <3>4. CallsOK(calls', made')
      BY DEF IInv
    <3>5. \A c \in Mine(t)' : r \in Brings(c) => c = e
      BY <3>1, <3>2, <3>3, <3>4, OneBrings
    <3>6. Fresh(v, r, e)
      BY <1>2, <1>5 DEF Fresh
    <3> QED
      BY <3>3, <3>5, <3>6
  <2>6. FreshOK(t, r)'
    BY <1>8, <2>5, FreshThen, Zenon
  <2> QED
    BY <2>2, <2>3, <2>6
<1>13. RowsOK(t)'
  BY <1>2, <1>8, <1>12 DEF RowsOK, Resources, FrameGets
<1>14. StageOK(t)'
  BY <1>2, <1>6, <1>8 DEF StageOK
<1>15. DomainsOK(t)'
  BY <1>2, <1>6, <1>8, <1>11 DEF DomainsOK, Resources, FrameGets
<1>16. ShowOK(t)'
  BY <1>13, <1>14, <1>15 DEF ShowOK
<1> QED
  BY <1>6, <1>9, <1>16, MovesShow

LEMMA EnterShows ==
    ASSUME IInv, IInv', ShowInv, overlapped \subseteq overlapped', OverlapOK',
           NEW t \in Tab, Enter(t)
    PROVE  ShowInv'
<1>1. /\ IsView(view[t]) /\ view = [u \in Tab |-> view[u]] /\ view[t].page \in PageNames
  BY DEF IInv, ViewsOK
<1> PICK visit, framed, gets, stage :
       /\ visit = view[t].visit /\ framed = (Book[view[t].page].layout = "org")
       /\ gets = (IF framed THEN FrameGets(view[t].page) ELSE Book[view[t].page].gets)
       /\ stage = (IF framed THEN "framed" ELSE "open")
  OBVIOUS
<1>2. PICK v : /\ Becomes(t, v) /\ v.page = view[t].page /\ v.visit = view[t].visit
               /\ v.stage = stage /\ v.shown = view[t].shown
               /\ v.wrote = view[t].wrote /\ v.missed = view[t].missed /\ v.key = view[t].key
  <2> DEFINE v == [view[t] EXCEPT !.stage = stage]
  <2>1. Becomes(t, v)
    BY <1>1, Zenon DEF Enter, Becomes
  <2>2. /\ v.page = view[t].page /\ v.visit = view[t].visit
        /\ v.stage = stage /\ v.shown = view[t].shown
        /\ v.wrote = view[t].wrote /\ v.missed = view[t].missed /\ v.key = view[t].key
    BY <1>1 DEF IsView
  <2> HIDE DEF v
  <2> QED
    BY <2>1, <2>2
<1> PICK none, new : none = {} /\ new = Loads(t, view[t].page, visit, gets, 1)
  BY Zenon
<1>3. calls' = (calls \ none) \cup new
  BY Zenon DEF Enter
<1>4. Begins(new, t, visit, gets, 1)
  BY LoadsBegin
<1>5. /\ \A d \in new : /\ d.kind = "load" /\ d.tab = t /\ d.visit = view[t].visit
                        /\ d.key = 1 /\ d.answer = "none" /\ Brings(d) = d.get
                        /\ \E i \in DOMAIN gets : d.id = made + i /\ d.get = gets[i]
      /\ \A i \in DOMAIN gets : \E d \in new : d.get = gets[i]
  BY <1>4, Zenon DEF Begins
<1>6. UNCHANGED version /\ view[t].stage = "closed"
  BY DEF Enter
<1>7. view'[t] = v
  BY <1>2 DEF Becomes
<1>8. PageMoves(t, v, none, new)
  BY <1>2, <1>3, <1>5, Zenon DEF PageMoves
<1>9. DomainsOK(t) /\ RowsOK(t) /\ Mine(t) = {} /\ view[t].missed = {} /\ view[t].key = 1
  BY <1>6 DEF ShowInv, ShowOK, StageOK
<1>10. /\ Mine(t)' = new /\ HandlersOf(t)' = {}
       /\ \A r, d : d \in LoadsOf(t, r)' <=> d \in new /\ r \in d.get
  <2>1. HandlersOf(t) = {} /\ \A r : LoadsOf(t, r) = {}
    BY <1>9 DEF HandlersOf, LoadsOf, Mine, PageKinds
  <2>2. /\ Mine(t)' = Mine(t) \cup new
        /\ \A r, d : d \in LoadsOf(t, r)' <=> d \in LoadsOf(t, r) \/ (d \in new /\ r \in d.get)
    BY <1>8, MineMoves
  <2>3. Mine(t)' = new
    BY <1>9, <2>2
  <2>4. HandlersOf(t)' = {}
    BY <1>5, <2>3 DEF HandlersOf, Mine, PageKinds
  <2> QED
    BY <2>1, <2>2, <2>3, <2>4
<1>11. framed => \A i \in DOMAIN gets : gets[i] = {"organization"}
  BY DEF FrameGets
<1>12. ASSUME NEW r \in Resources(view[t].page)
       PROVE  RowOK(t, r)' /\ OnceOK(t, r)' /\ FreshOK(t, r)'
  <2>1. RowOK(t, r) /\ view[t].wrote[r] = 0 /\ view[t].shown[r].version = 0
    BY <1>6, <1>9 DEF RowsOK, RowOK
  <2>2. RowOK(t, r)'
    BY <1>2, <1>6, <1>7, <2>1 DEF RowOK
  <2>3. OnceOK(t, r)'
    <3> SUFFICES ASSUME <<view[t].page, r>> \in Once
                 PROVE  /\ \A c, d \in LoadsOf(t, r)' : c = d
                        /\ ~ Started(t, r)'
      BY <1>2, <1>7 DEF OnceOK, Once
    <3>1. ~ Started(t, r)'
      BY <1>2, <1>7, <1>9, <1>10, <2>1 DEF Started, Has
    <3>2. LoadedOnce(Book[view[t].page], r)
      BY OncePages
    <3>3. ASSUME NEW c \in LoadsOf(t, r)', NEW d \in LoadsOf(t, r)'
          PROVE  c = d
      <4>1. c \in new /\ d \in new /\ r \in c.get /\ r \in d.get
        BY <1>10
      <4>2. PICK i \in DOMAIN gets : c.id = made + i /\ c.get = gets[i]
        BY <1>5, <4>1, Zenon
      <4>3. PICK j \in DOMAIN gets : d.id = made + j /\ d.get = gets[j]
        BY <1>5, <4>1, Zenon
      <4>4. r # "organization"
        BY <3>2 DEF LoadedOnce
      <4>5. gets = Book[view[t].page].gets
        BY <1>11, <4>1, <4>2, <4>4
      <4>6. i = j
        BY <3>2, <4>1, <4>2, <4>3, <4>5, Zenon DEF LoadedOnce
      <4>7. c \in calls' /\ d \in calls'
        BY <1>3, <4>1
      <4> QED
        BY <4>2, <4>3, <4>6, <4>7 DEF IInv, CallsOK
    <3> QED
      BY <3>1, <3>3
  <2>4. \A c \in new : Fresh(v, r, c)
    BY <1>2, <1>5, <1>9, Zenon DEF Fresh
  <2>5. Current(v, r) \/ LoadsOf(t, r)' # {}
    <3>1. CASE framed
      BY <1>2, <2>1, <3>1 DEF Current
    <3>2. CASE ~ framed
      <4>1. PICK i \in DOMAIN gets : r \in gets[i]
        BY <3>2, ResourcesAre, Zenon
      <4> QED
        BY <1>5, <1>10, <4>1
    <3> QED
      BY <3>1, <3>2
  <2>6. FreshOK(t, r)'
    BY <1>7, <1>10, <2>4, <2>5, FreshThen, Zenon
  <2> QED
    BY <2>2, <2>3, <2>6
<1>13. RowsOK(t)'
  BY <1>2, <1>7, <1>12 DEF RowsOK, Resources, FrameGets
<1>14. StageOK(t)'
  <2>1. v.stage # "closed" /\ (v.stage = "framed" => framed)
    BY <1>2
  <2>2. framed => \A c \in Mine(t)' : c.kind = "load" /\ c.get = {"organization"}
    BY <1>5, <1>10, <1>11, Zenon
  <2> QED
    BY <1>2, <1>7, <1>9, <2>1, <2>2, Zenon DEF StageOK
<1>15. DomainsOK(t)'
  BY <1>2, <1>6, <1>7, <1>9 DEF DomainsOK, Resources, FrameGets
<1>16. ShowOK(t)'
  BY <1>13, <1>14, <1>15 DEF ShowOK
<1> QED
  BY <1>6, <1>8, <1>16, MovesShow

LEMMA FrameSettlesShows ==
    ASSUME IInv, IInv', ShowInv, overlapped \subseteq overlapped', OverlapOK',
           NEW c \in calls, FrameSettles(c)
    PROVE  ShowInv'
<1> PICK t : t = c.tab
  OBVIOUS
<1>1. /\ t \in Tab /\ IsView(view[t]) /\ view = [u \in Tab |-> view[u]]
      /\ c.kind = "load" /\ c.page = view[t].page /\ c.visit = view[t].visit
      /\ view[t].stage = "framed" /\ view[t].page \in PageNames
  BY Zenon DEF IInv, ViewsOK, CallsOK, Typed, FrameSettles, Sent, Here
<1>2. c \in Mine(t)
  BY <1>1 DEF Mine, PageKinds
<1>3. /\ DomainsOK(t) /\ RowsOK(t) /\ view[t].missed = {} /\ view[t].key = 1
      /\ Book[view[t].page].layout = "org"
      /\ \A d \in Mine(t) : d.kind = "load" /\ d.get = {"organization"}
  BY <1>1 DEF ShowInv, ShowOK, StageOK
<1>4. \A r \in Resources(view[t].page) :
         view[t].wrote[r] = 0 /\ view[t].shown[r].version = 0 /\ version[r] \in Nat
  BY <1>1, <1>3, Zenon DEF RowsOK, RowOK, DomainsOK, ShowInv, VersionOK
<1>5. "organization" \in Resources(view[t].page)
  BY <1>3, ResourcesAre
<1>6. c.answer = "ok" => c.data["organization"] \in Nat
  <2>1. "organization" \in DOMAIN version /\ c.get = {"organization"}
    BY <1>2, <1>3, <1>5 DEF DomainsOK
  <2> SUFFICES ASSUME c.answer = "ok"
               PROVE  c.data["organization"] \in Nat
    OBVIOUS
  <2>2. c.data["organization"] \in 0 .. version["organization"]
    BY <1>1, <2>1 DEF ShowInv, DataOK, PageKinds
  <2> QED
    BY <1>4, <1>5, <2>2
<1> PICK gets : gets = Book[c.page].gets
  OBVIOUS
<1> PICK all : all = Loads(t, c.page, c.visit, gets, 1)
  OBVIOUS
<1>7. PICK new, v :
        /\ Becomes(t, v) /\ v.page = view[t].page /\ v.visit = view[t].visit
        /\ v.stage \in {"open", "gated"} /\ v.wrote = view[t].wrote /\ v.key = 1
        /\ v.missed \subseteq {"organization"} /\ DOMAIN v.shown = DOMAIN view[t].shown
        /\ \A r \in DOMAIN v.shown : v.shown[r].version \in Nat
        /\ \A r \in DOMAIN v.shown : r # "organization" => v.shown[r] = view[t].shown[r]
        /\ new \in {all, {}} /\ calls' = Replaced(c, new)
  <2> DEFINE shown == IF c.answer = "ok"
                      THEN [view[t].shown EXCEPT !["organization"] =
                              [version |-> c.data["organization"], key |-> 1]]
                      ELSE view[t].shown
             missed == IF c.answer = "ok" THEN view[t].missed ELSE c.get
  <2>1. \/ /\ view' = [[view EXCEPT ![t].shown = shown, ![t].missed = missed]
                         EXCEPT ![t].stage = "open"]
           /\ calls' = Replaced(c, all)
        \/ /\ view' = [[view EXCEPT ![t].shown = shown, ![t].missed = missed]
                         EXCEPT ![t].stage = "gated"]
           /\ calls' = Replaced(c, {})
    BY DEF FrameSettles
  <2>2. DOMAIN shown = DOMAIN view[t].shown
    OBVIOUS
  <2>3. \A r : r \in DOMAIN view[t].shown /\ r # "organization" => shown[r] = view[t].shown[r]
    OBVIOUS
  <2>4. \A r \in DOMAIN view[t].shown : shown[r].version \in Nat
    BY <1>3, <1>4, <1>6 DEF DomainsOK
  <2>5. missed \subseteq {"organization"}
    BY <1>2, <1>3
  <2> HIDE DEF shown, missed
  <2>6. PICK stage : /\ view' = [[view EXCEPT ![t].shown = shown, ![t].missed = missed]
                                   EXCEPT ![t].stage = stage]
                     /\ stage \in {"open", "gated"}
                     /\ calls' = Replaced(c, all) \/ calls' = Replaced(c, {})
    BY <2>1
  <2> DEFINE v == [view[t] EXCEPT !.shown = shown, !.missed = missed, !.stage = stage]
  <2>7. Becomes(t, v)
    BY <1>1, <2>6, Zenon DEF Becomes
  <2>8. /\ v.page = view[t].page /\ v.visit = view[t].visit /\ v.stage = stage
        /\ v.wrote = view[t].wrote /\ v.key = view[t].key
        /\ v.missed = missed /\ v.shown = shown
    BY <1>1 DEF IsView
  <2> HIDE DEF v
  <2> QED
    BY <1>3, <2>2, <2>3, <2>4, <2>5, <2>6, <2>7, <2>8
<1> PICK gone : gone = {c}
  BY Zenon
<1>8. Begins(all, t, c.visit, gets, 1)
  BY LoadsBegin
<1>9. /\ \A d \in new : /\ d.kind = "load" /\ d.tab = t /\ d.visit = view[t].visit
                        /\ d.key = 1 /\ d.answer = "none" /\ Brings(d) = d.get
                        /\ \E i \in DOMAIN gets : d.id = made + i /\ d.get = gets[i]
  BY <1>1, <1>7, <1>8, Zenon DEF Begins
<1>10. calls' = (calls \ gone) \cup new
  BY <1>7 DEF Replaced
<1>11. PageMoves(t, v, gone, new)
  BY <1>7, <1>9, <1>10 DEF PageMoves
<1>12. /\ Mine(t)' = (Mine(t) \ gone) \cup new
       /\ \A r, d : d \in LoadsOf(t, r)' <=> \/ d \in LoadsOf(t, r) \ gone
                                             \/ d \in new /\ r \in d.get
       /\ HandlersOf(t)' = HandlersOf(t) \ gone
  BY <1>11, MineMoves
<1>13. HandlersOf(t)' = {} /\ \A r : \A d \in LoadsOf(t, r) : d.get = {"organization"} /\ r \in d.get
  BY <1>3, <1>12 DEF HandlersOf, LoadsOf, Mine, PageKinds
<1>14. view'[t] = v
  BY <1>7 DEF Becomes
<1>15. ASSUME NEW r \in Resources(view[t].page)
       PROVE  RowOK(t, r)' /\ OnceOK(t, r)' /\ FreshOK(t, r)'
  <2>1. r \in DOMAIN v.shown /\ r \in DOMAIN version /\ UNCHANGED version
    BY <1>3, <1>7 DEF DomainsOK, FrameSettles
  <2>2. RowOK(t, r)'
    BY <1>4, <1>7, <1>14, <2>1 DEF RowOK
  <2>3. OnceOK(t, r)'
    <3> SUFFICES ASSUME <<view[t].page, r>> \in Once
                 PROVE  /\ \A d, e \in LoadsOf(t, r)' : d = e
                        /\ ~ Started(t, r)'
      BY <1>7, <1>14 DEF OnceOK, Once
    <3>1. LoadedOnce(Book[view[t].page], r) /\ r # "organization"
      BY OncePages DEF LoadedOnce
    <3>2. ~ Started(t, r)'
      BY <1>4, <1>7, <1>13, <1>14, <2>1, <3>1 DEF Started, Has
    <3>3. ASSUME NEW d \in LoadsOf(t, r)', NEW e \in LoadsOf(t, r)'
          PROVE  d = e
      <4>1. d \in new /\ e \in new /\ r \in d.get /\ r \in e.get
        BY <1>12, <1>13, <3>1
      <4>2. PICK i \in DOMAIN gets : d.id = made + i /\ d.get = gets[i]
        BY <1>9, <4>1
      <4>3. PICK j \in DOMAIN gets : e.id = made + j /\ e.get = gets[j]
        BY <1>9, <4>1
      <4>4. i = j
        BY <1>1, <3>1, <4>1, <4>2, <4>3, Zenon DEF LoadedOnce
      <4>5. d \in calls' /\ e \in calls'
        BY <1>10, <4>1
      <4> QED
        BY <4>2, <4>3, <4>4, <4>5 DEF IInv, CallsOK
    <3> QED
      BY <3>2, <3>3
  <2>4. Book[v.page].keyed = FALSE \/ ~ Book[v.page].keyed
    BY <1>1, <1>3, <1>7, KeyedPages, Zenon
  <2>5. Current(v, r)
    BY <1>4, <1>7, <2>1, <2>4 DEF Current
  <2>6. ASSUME NEW d \in Mine(t)', r \in Brings(d)
        PROVE  Fresh(v, r, d)
    <3>1. CASE d \in new
      BY <1>9, <2>4, <3>1 DEF Fresh
    <3>2. CASE d \in Mine(t)
      <4>1. d \in calls /\ d.kind = "load" /\ r \in d.get
        BY <1>3, <2>6, <3>2 DEF Mine, Brings
      <4>2. d.answer = "ok" => d.data[r] \in 0 .. version[r]
        BY <2>1, <4>1 DEF ShowInv, DataOK, PageKinds
      <4> QED
        BY <1>4, <1>7, <2>4, <4>2 DEF Fresh
    <3> QED
      BY <1>12, <3>1, <3>2
  <2>7. FreshOK(t, r)'
    BY <1>14, <2>5, <2>6, FreshThen, Zenon
  <2> QED
    BY <2>2, <2>3, <2>7
<1>16. RowsOK(t)'
  BY <1>7, <1>14, <1>15 DEF RowsOK, Resources, FrameGets
<1>17. StageOK(t)'
  BY <1>7, <1>14 DEF StageOK
<1>18. DomainsOK(t)'
  BY <1>3, <1>7, <1>14, Zenon DEF DomainsOK, Resources, FrameGets, FrameSettles
<1>19. ShowOK(t)'
  BY <1>16, <1>17, <1>18 DEF ShowOK
<1>20. UNCHANGED version
  BY DEF FrameSettles
<1> QED
  BY <1>1, <1>11, <1>19, <1>20, MovesShow

\* The end of a request whose page has gone.
LEMMA ElsewhereShows ==
    ASSUME IInv, IInv', ShowInv, UNCHANGED <<view, version>>, overlapped \subseteq overlapped',
           OverlapOK', NEW c \in calls, ~ Here(c), NEW new, calls' = Replaced(c, new),
           \A d \in new : d.tab = c.tab /\ d.visit = c.visit /\ d.answer = "none"
    PROVE  ShowInv'
<1> PICK t, gone : t = c.tab /\ gone = {c}
  BY Zenon
<1>1. t \in Tab /\ view = [u \in Tab |-> view[u]]
  BY DEF IInv, CallsOK, Typed, ViewsOK
<1>2. Becomes(t, view[t])
  BY <1>1 DEF Becomes
<1>3. calls' = (calls \ gone) \cup new
  BY DEF Replaced
<1>4. (\A d \in gone : d.tab = t) /\ (\A d \in new : d.tab = t /\ d.answer # "ok")
  OBVIOUS
<1>5. Carried(new) /\ VersionGrows => ShowOK(t)'
  <2>1. CASE view[t].stage = "left"
    BY <2>1 DEF ShowOK
  <2>2. CASE view[t].stage # "left"
    <3>1. c.visit # view[t].visit
      BY <2>2 DEF Here
    <3>2. \A d \in calls : GoesOn(d, d)
      BY DEF IInv, CallsOK, Typed, SameRequest, GoesOn
    <3>3. LoadsStay(t)
      BY <1>3, <3>1, <3>2 DEF LoadsStay, Mine
    <3>4. \A d \in new : d.tab = t /\ d.visit = view[t].visit => FALSE
      BY <3>1
    <3>5. SameRows(view[t], view'[t])
      BY DEF SameRows
    <3> QED
      BY <1>1, <3>3, <3>4, <3>5, ShowStays DEF ShowInv
  <2> QED
    BY <2>1, <2>2
<1> QED
  BY <1>1, <1>2, <1>3, <1>4, <1>5, PageShows

LEMMA LoadSettlesShows ==
    ASSUME IInv, IInv', ShowInv, overlapped \subseteq overlapped', OverlapOK',
           NEW c \in calls, LoadSettles(c)
    PROVE  ShowInv'
<1> PICK t, gone, none : t = c.tab /\ gone = {c} /\ none = {}
  BY Zenon
<1>1. /\ t \in Tab /\ IsView(view[t]) /\ view = [u \in Tab |-> view[u]]
      /\ c.kind = "load" /\ calls' = Replaced(c, none) /\ UNCHANGED version
      /\ c.visit = view[t].visit => c.page = view[t].page
  BY Zenon DEF IInv, ViewsOK, CallsOK, Typed, LoadSettles, Sent
<1>2. CASE ~ Here(c)
  <2>1. UNCHANGED view
    BY <1>2 DEF LoadSettles
  <2>2. \A d \in none : FALSE
    OBVIOUS
  <2> QED
    BY <1>1, <1>2, <2>1, <2>2, ElsewhereShows
<1>3. CASE Here(c)
  <2>1. c \in Mine(t) /\ view[t].stage \notin {"left", "framed", "closed"}
    BY <1>1, <1>3 DEF Here, Mine, PageKinds, LoadSettles, ShowInv, ShowOK, StageOK
  <2>2. DomainsOK(t) /\ RowsOK(t)
    BY <1>1, <2>1 DEF ShowInv, ShowOK
  <2>3. PICK v :
          /\ Becomes(t, v) /\ v.page = view[t].page /\ v.visit = view[t].visit
          /\ v.stage = view[t].stage /\ v.wrote = view[t].wrote /\ v.key = view[t].key
          /\ DOMAIN v.shown = DOMAIN view[t].shown
          /\ \A r \in DOMAIN v.shown \ c.get :
                v.shown[r] = view[t].shown[r] /\ (r \in v.missed <=> r \in view[t].missed)
          /\ \A r \in DOMAIN v.shown \cap c.get :
                IF c.answer = "ok" THEN v.shown[r].version = c.data[r] /\ v.shown[r].key = c.key
                ELSE v.shown[r] = view[t].shown[r] /\ r \in v.missed
    <3>1. CASE c.answer = "ok"
      <4> DEFINE shown == [r \in DOMAIN view[t].shown |->
                             IF r \in c.get THEN [version |-> c.data[r], key |-> c.key]
                             ELSE view[t].shown[r]]
                 v == [view[t] EXCEPT !.shown = shown, !.text = Seeded(view[t], c)]
      <4>1. Becomes(t, v)
        BY <1>1, <1>3, <3>1, Zenon DEF LoadSettles, Becomes
      <4>2. /\ v.page = view[t].page /\ v.visit = view[t].visit
            /\ v.stage = view[t].stage /\ v.wrote = view[t].wrote /\ v.key = view[t].key
            /\ v.missed = view[t].missed /\ v.shown = shown
        BY <1>1 DEF IsView
      <4>3. /\ DOMAIN shown = DOMAIN view[t].shown
            /\ \A r \in DOMAIN shown :
                  IF r \in c.get THEN shown[r].version = c.data[r] /\ shown[r].key = c.key
                  ELSE shown[r] = view[t].shown[r]
        OBVIOUS
      <4> HIDE DEF v, shown
      <4> QED
        BY <3>1, <4>1, <4>2, <4>3
    <3>2. CASE c.answer # "ok"
      <4> DEFINE v == [view[t] EXCEPT !.missed = view[t].missed \cup c.get]
      <4>1. Becomes(t, v)
        BY <1>1, <1>3, <3>2, Zenon DEF LoadSettles, Becomes
      <4>2. /\ v.page = view[t].page /\ v.visit = view[t].visit
            /\ v.stage = view[t].stage /\ v.wrote = view[t].wrote /\ v.key = view[t].key
            /\ v.missed = view[t].missed \cup c.get /\ v.shown = view[t].shown
        BY <1>1 DEF IsView
      <4> HIDE DEF v
      <4> QED
        BY <3>2, <4>1, <4>2
    <3> QED
      BY <3>1, <3>2
  <2>4. view'[t] = v
    BY <2>3 DEF Becomes
  <2>5. PageMoves(t, v, gone, none)
    BY <1>1, <2>3 DEF PageMoves, Replaced
  <2>6. /\ Mine(t)' = (Mine(t) \ gone) \cup none
        /\ \A r, d : d \in LoadsOf(t, r)' <=> \/ d \in LoadsOf(t, r) \ gone
                                              \/ d \in none /\ r \in d.get
        /\ HandlersOf(t)' = HandlersOf(t) \ gone
    BY <2>5, MineMoves
  <2>7. HandlersOf(t)' = HandlersOf(t)
    BY <1>1, <2>6 DEF HandlersOf
  <2>8. ASSUME NEW r \in Resources(view[t].page)
        PROVE  RowOK(t, r)' /\ OnceOK(t, r)' /\ FreshOK(t, r)'
    <3>1. RowOK(t, r) /\ OnceOK(t, r) /\ FreshOK(t, r)
      BY <2>2 DEF RowsOK
    <3>2. r \in DOMAIN v.shown /\ r \in DOMAIN version /\ version[r] \in Nat
      BY <2>2, <2>3 DEF DomainsOK, ShowInv, VersionOK
    <3>3. c.answer = "ok" /\ r \in c.get => c.data[r] \in Nat
      <4> SUFFICES ASSUME c.answer = "ok", r \in c.get
                   PROVE  c.data[r] \in Nat
        OBVIOUS
      <4>1. c.data[r] \in 0 .. version[r]
        BY <1>1, <3>2 DEF ShowInv, DataOK, PageKinds
      <4> QED
        BY <3>2, <4>1
    <3>4. v.shown[r].version \in Nat
      BY <2>3, <3>1, <3>2, <3>3 DEF RowOK
    <3>5. RowOK(t, r)'
      BY <1>1, <2>1, <2>3, <2>4, <3>1, <3>4, Zenon DEF RowOK
    <3>6. r \in c.get => c \in LoadsOf(t, r) /\ r \in Brings(c)
      BY <1>1, <2>1 DEF LoadsOf, Mine, Brings
    <3>7. r \notin c.get => c \notin LoadsOf(t, r)
      BY DEF LoadsOf
    <3>8. OnceOK(t, r)'
      <4> SUFFICES ASSUME <<view[t].page, r>> \in Once
                   PROVE  /\ \A d, e \in LoadsOf(t, r)' : d = e
                          /\ Started(t, r)' => LoadsOf(t, r)' = {}
        BY <2>3, <2>4 DEF OnceOK, Once
      <4>1. /\ \A d, e \in LoadsOf(t, r) : d = e
            /\ Started(t, r) => LoadsOf(t, r) = {}
        BY <3>1 DEF OnceOK
      <4>2. CASE r \in c.get
        BY <2>6, <3>6, <4>1, <4>2
      <4>3. CASE r \notin c.get
        <5>1. Started(t, r)' => Started(t, r)
          BY <2>3, <2>4, <2>7, <3>2, <4>3 DEF Started, Has
        <5> QED
          BY <2>6, <4>1, <5>1
      <4> QED
        BY <4>2, <4>3
    <3>9. ASSUME Clear(t, r)', <<v.page, r>> \notin NotRefreshed
          PROVE  /\ \A d \in Mine(t)' : r \in Brings(d) => Fresh(v, r, d)
                 /\ Current(v, r) \/ LoadsOf(t, r)' # {}
      <4>1. /\ \A d \in Mine(t) : r \in Brings(d) => Fresh(view[t], r, d)
            /\ Current(view[t], r) \/ LoadsOf(t, r) # {}
        BY <2>3, <2>4, <3>1, <3>9, ClearBefore DEF FreshOK
      <4>2. \A d \in Mine(t)' : r \in Brings(d) => Fresh(v, r, d)
        BY <2>3, <2>6, <4>1 DEF Fresh
      <4>3. CASE r \in c.get
        <5>1. Fresh(view[t], r, c)
          BY <2>1, <3>6, <4>1, <4>3
        <5> QED
          BY <2>3, <3>2, <4>2, <4>3, <5>1 DEF Fresh, Current
      <4>4. CASE r \notin c.get
        <5>1. Current(view[t], r) => Current(v, r)
          BY <2>3, <3>2, <4>4 DEF Current
        <5>2. LoadsOf(t, r) # {} => LoadsOf(t, r)' # {}
          BY <2>6, <3>7, <4>4
        <5> QED
          BY <4>1, <4>2, <5>1, <5>2
      <4> QED
        BY <4>3, <4>4
    <3>10. FreshOK(t, r)'
      BY <2>4, <3>9, FreshThen
    <3> QED
      BY <3>5, <3>8, <3>10
  <2>9. RowsOK(t)'
    BY <2>3, <2>4, <2>8 DEF RowsOK, Resources, FrameGets
  <2>10. StageOK(t)'
    BY <2>1, <2>3, <2>4 DEF StageOK
  <2>11. DomainsOK(t)'
    BY <1>1, <2>2, <2>3, <2>4, Zenon DEF DomainsOK, Resources, FrameGets
  <2>12. ShowOK(t)'
    BY <2>9, <2>10, <2>11 DEF ShowOK
  <2> QED
    BY <1>1, <2>5, <2>12, MovesShow
<1> QED
  BY <1>2, <1>3

\* Two handlers of a page that share a lock are one.
LEMMA OneHandler ==
    ASSUME IInv, LocksInv, NEW t \in Tab, view[t].page # "billing", NEW c \in calls, NEW d \in calls,
           c.kind = "write", d.kind = "write", c.tab = t, d.tab = t, Here(c), Here(d),
           NEW v \in Ops(c), NEW w \in Ops(d), v.lock \cap w.lock # {}
    PROVE  c = d
<1>1. c \in Writes(t) /\ d \in Writes(t)
  BY DEF Writes
<1>2. v.lock \cap w.lock \subseteq LocksOf(c) \cap LocksOf(d)
  BY DEF LocksOf
<1> QED
  BY <1>1, <1>2 DEF LocksInv, LocksOK

LEMMA FailedShows ==
    ASSUME IInv, IInv', ShowInv, overlapped \subseteq overlapped', OverlapOK', UNCHANGED version,
           NEW c \in calls, c.kind = "write", NEW w, calls' = Replaced(c, {}),
           view' = [view EXCEPT ![c.tab] = Failed(@, w)]
    PROVE  ShowInv'
<1> PICK t, gone, none : t = c.tab /\ gone = {c} /\ none = {}
  BY Zenon
<1>1. t \in Tab /\ IsView(view[t]) /\ view = [u \in Tab |-> view[u]]
  BY DEF IInv, ViewsOK, CallsOK, Typed
<1>2. PICK v : Becomes(t, v) /\ SameRows(view[t], v)
  <2> DEFINE v == Failed(view[t], w)
  <2>1. SameRows(view[t], v)
    BY <1>1 DEF Failed, SameRows, IsView
  <2>2. view' = [view EXCEPT ![t] = v]
    OBVIOUS
  <2> HIDE DEF v
  <2>3. Becomes(t, v)
    BY <1>1, <2>2 DEF Becomes
  <2> QED
    BY <2>1, <2>3
<1>3. calls' = (calls \ gone) \cup none
  BY DEF Replaced
<1>4. \A d \in calls : GoesOn(d, d)
  BY DEF IInv, CallsOK, Typed, SameRequest, GoesOn
<1>5. LoadsStay(t)
  BY <1>3, <1>4 DEF LoadsStay, Mine
<1>6. SameRows(view[t], view'[t])
  BY <1>2 DEF Becomes
<1>7. Carried(none) /\ VersionGrows => ShowOK(t)'
  BY <1>1, <1>5, <1>6, ShowStays DEF ShowInv
<1>8. (\A d \in gone : d.tab = t) /\ (\A d \in none : d.tab = t /\ d.answer # "ok")
  OBVIOUS
<1> QED
  BY <1>1, <1>2, <1>3, <1>7, <1>8, PageShows

LEMMA DoneShows ==
    ASSUME IInv, IInv', ShowInv, LocksInv, overlapped \subseteq overlapped', OverlapOK',
           UNCHANGED version, NEW c \in calls, c.kind = "write", c.answer = "ok", Here(c),
           NEW w \in Ops(c), calls' = Replaced(c, Reloads(w, c)),
           view' = [view EXCEPT ![c.tab] =
                      [Done(view[c.tab], w, c) EXCEPT !.stage = IF w.leaves THEN "left" ELSE @]]
    PROVE  ShowInv'
<1> PICK t, gone, new, none :
       t = c.tab /\ gone = {c} /\ new = Reloads(w, c) /\ none = {}
  BY Zenon
<1>1. /\ t \in Tab /\ IsView(view[t]) /\ view = [u \in Tab |-> view[u]]
      /\ c.page = view[t].page /\ c.visit = view[t].visit /\ view[t].page \in PageNames
      /\ w \in Book[view[t].page].writes
  BY DEF IInv, ViewsOK, CallsOK, Typed, Sent, Here, Ops
<1>2. PICK v :
        /\ Becomes(t, v) /\ v.page = view[t].page /\ v.visit = view[t].visit
        /\ v.key = view[t].key /\ v.missed = view[t].missed /\ v.stage \in {view[t].stage, "left"}
        /\ DOMAIN v.shown = DOMAIN view[t].shown /\ DOMAIN v.wrote = DOMAIN view[t].wrote
        /\ \A r \in DOMAIN v.shown :
              IF r \in w.shows THEN v.shown[r].version = c.data[r] /\ v.shown[r].key = c.key
              ELSE v.shown[r] = view[t].shown[r]
        /\ \A r \in DOMAIN v.wrote :
              v.wrote[r] = IF r \in w.changes THEN c.data[r] ELSE view[t].wrote[r]
  <2> PICK d : d = Done(view[t], w, c)
    OBVIOUS
  <2> DEFINE v == [d EXCEPT !.stage = IF w.leaves THEN "left" ELSE @]
  <2>1. view' = [view EXCEPT ![t] = v]
    OBVIOUS
  <2>2. /\ IsView(d) /\ d.page = view[t].page /\ d.visit = view[t].visit /\ d.key = view[t].key
        /\ d.missed = view[t].missed /\ d.stage = view[t].stage
        /\ d.shown = [r \in DOMAIN view[t].shown |->
                        IF r \in w.shows THEN [version |-> c.data[r], key |-> c.key]
                        ELSE view[t].shown[r]]
        /\ d.wrote = [r \in DOMAIN view[t].wrote |->
                        IF r \in w.changes THEN c.data[r] ELSE view[t].wrote[r]]
    BY <1>1, Zenon DEF Done, IsView
  <2>3. /\ v.page = d.page /\ v.visit = d.visit /\ v.key = d.key /\ v.missed = d.missed
        /\ v.stage \in {d.stage, "left"} /\ v.shown = d.shown /\ v.wrote = d.wrote
    BY <2>2 DEF IsView
  <2> HIDE DEF v
  <2>4. Becomes(t, v)
    BY <1>1, <2>1 DEF Becomes
  <2> QED
    BY <2>2, <2>3, <2>4
<1>3. c \in Mine(t) /\ c \in HandlersOf(t) /\ view[t].stage \notin {"left", "closed", "framed"}
  BY <1>1 DEF Here, Mine, HandlersOf, PageKinds, ShowInv, ShowOK, StageOK
<1>4. DomainsOK(t) /\ RowsOK(t)
  BY <1>1, <1>3 DEF ShowInv, ShowOK
<1>5. view'[t] = v
  BY <1>2 DEF Becomes
<1>6. CASE v.stage = "left"
  <2>1. ShowOK(t)'
    BY <1>5, <1>6, Zenon DEF ShowOK
  <2>2. Begins(new, t, c.visit, w.reloads, c.key)
    BY LoadsBegin DEF Reloads
  <2>3. PageMoves(t, v, gone, new)
    BY <1>1, <1>2, <2>2 DEF PageMoves, Replaced, Begins
  <2> QED
    BY <1>1, <2>1, <2>3, MovesShow
<1>7. CASE v.stage # "left"
  <2>1. Begins(new, t, c.visit, w.reloads, c.key)
    BY LoadsBegin DEF Reloads
  <2>2. PageMoves(t, v, gone, new)
    BY <1>1, <1>2, <2>1 DEF PageMoves, Replaced, Begins
  <2>3. /\ \A d \in new : /\ d.kind = "load" /\ d.key = c.key /\ d.answer = "none"
                          /\ Brings(d) = d.get /\ \E i \in DOMAIN w.reloads : d.get = w.reloads[i]
        /\ \A i \in DOMAIN w.reloads : \E d \in new : d.get = w.reloads[i]
    BY <2>1 DEF Begins
  <2>4. /\ Mine(t)' = (Mine(t) \ gone) \cup new
        /\ \A r, d : d \in LoadsOf(t, r)' <=> \/ d \in LoadsOf(t, r) \ gone
                                              \/ d \in new /\ r \in d.get
    BY <2>2, MineMoves
  <2>5. \A r : c \notin LoadsOf(t, r)
    BY DEF LoadsOf
  <2>6. \A r : r \in w.shows \/ (\E i \in DOMAIN w.reloads : r \in w.reloads[i]) => r \in Brings(c)
    BY WriteBrings
  <2>7. ASSUME NEW r \in Resources(view[t].page)
        PROVE  RowOK(t, r)' /\ OnceOK(t, r)' /\ FreshOK(t, r)'
    <3>1. RowOK(t, r) /\ OnceOK(t, r) /\ FreshOK(t, r)
      BY <1>4 DEF RowsOK
    <3>2. /\ r \in DOMAIN v.shown /\ r \in DOMAIN v.wrote
          /\ version[r] \in Nat /\ c.data[r] \in 0 .. version[r]
      BY <1>2, <1>4 DEF DomainsOK, ShowInv, VersionOK, DataOK, PageKinds
    <3>3. RowOK(t, r)'
      <4>1. v.wrote[r] \in 0 .. version[r] /\ v.shown[r].version \in Nat
        BY <1>2, <3>1, <3>2 DEF RowOK
      <4>2. v.wrote[r] # 0 => \E x \in Book[v.page].writes : r \in x.changes
        BY <1>1, <1>2, <3>1, <3>2, Zenon DEF RowOK
      <4> QED
        BY <1>2, <1>3, <1>5, <4>1, <4>2, Zenon DEF RowOK
    <3>4. ASSUME <<view[t].page, r>> \in Once
          PROVE  /\ LoadsOf(t, r) = {} /\ \A x \in Book[view[t].page].writes : \A i \in DOMAIN x.reloads : FALSE
                 /\ view[t].page # "billing" /\ ~ Book[view[t].page].keyed
                 /\ \A x, y \in Book[view[t].page].writes :
                       r \in x.shows /\ r \in y.shows => x.lock \cap y.lock # {}
      BY <1>3, <3>1, <3>4, OncePages DEF OnceOK, Started, LoadedOnce
    <3>5. OnceOK(t, r)'
      <4> SUFFICES ASSUME <<view[t].page, r>> \in Once
                   PROVE  LoadsOf(t, r)' = {}
        BY <1>2, <1>5, Zenon DEF OnceOK, Once
      <4>1. new = {}
        BY <1>1, <2>3, <3>4
      <4> QED
        BY <2>4, <3>4, <4>1
    <3>6. ASSUME Clear(t, r)', <<v.page, r>> \notin NotRefreshed
          PROVE  /\ \A d \in Mine(t)' : r \in Brings(d) => Fresh(v, r, d)
                 /\ Current(v, r) \/ LoadsOf(t, r)' # {}
      <4>1. /\ \A d \in Mine(t) : r \in Brings(d) => Fresh(view[t], r, d)
            /\ Current(view[t], r) \/ LoadsOf(t, r) # {}
        BY <1>2, <1>5, <3>1, <3>6, ClearBefore, Zenon DEF FreshOK
      <4>2. \A d \in new : r \in Brings(d) => Fresh(v, r, d)
        <5>1. ASSUME NEW d \in new, r \in Brings(d)
              PROVE  Fresh(v, r, d)
          <6>1. r \in Brings(c)
            BY <2>3, <2>6, <5>1
          <6>2. Fresh(view[t], r, c)
            BY <1>3, <4>1, <6>1
          <6> QED
            BY <1>2, <2>3, <6>2 DEF Fresh
        <5> QED
          BY <5>1
      <4>3. CASE r \in w.changes
        <5>1. Handled(view[t].page, w, r)
          BY <1>1, <4>3, HandlersRefresh
        <5>2. /\ r \in w.shows \/ \E i \in DOMAIN w.reloads : r \in w.reloads[i]
              /\ r \in Brings(c)
          BY <1>2, <2>6, <3>6, <5>1 DEF Handled
        <5>3. \A d \in Mine(t) \ gone : r \notin Brings(d)
          <6> SUFFICES ASSUME NEW d \in Mine(t), r \in Brings(d)
                       PROVE  d = c
            OBVIOUS
          <6>1. d \in calls /\ d.tab = t /\ d.visit = view[t].visit /\ d.kind \in PageKinds
            BY DEF Mine
          <6>2. CASE <<t, r>> \notin overlapped'
            <7>1. <<t, r>> \notin Overlaps(calls)
              BY <6>2 DEF ShowInv, OverlapOK
            <7>2. CallsOK(calls, made)
              BY DEF IInv
            <7> QED
              BY <5>2, <6>1, <7>1, <7>2, OneBrings
          <6>3. CASE <<view[t].page, r>> \in Once
            <7>1. d.kind = "write"
              <8>1. d.kind = "load" => d \in LoadsOf(t, r)
                BY <6>1 DEF LoadsOf, Brings
              <8> QED
                BY <3>4, <6>1, <6>3, <8>1 DEF PageKinds
            <7>2. Here(d) /\ d.page = view[t].page
              BY <1>3, <6>1, <7>1 DEF Here, IInv, Sent
            <7>3. PICK x \in Ops(d) : r \in x.shows \/ \E i \in DOMAIN x.reloads : r \in x.reloads[i]
              BY <7>1, WriteBrings
            <7>4. x \in Book[view[t].page].writes
              BY <7>2 DEF Ops
            <7>5. r \in x.shows /\ r \in w.shows
              BY <1>1, <3>4, <5>2, <6>3, <7>3, <7>4, Zenon
            <7>6. w.lock \cap x.lock # {}
              BY <1>1, <3>4, <6>3, <7>4, <7>5
            <7> QED
              BY <1>1, <3>4, <6>1, <6>3, <7>1, <7>2, <7>3, <7>6, OneHandler
          <6> QED
            BY <1>2, <1>5, <3>6, <6>2, <6>3, Zenon DEF Clear, Once
        <5>4. \A d \in Mine(t)' : r \in Brings(d) => Fresh(v, r, d)
          BY <2>4, <4>2, <5>3
        <5>5. CASE r \in w.shows
          <6>1. Fresh(view[t], r, c)
            BY <1>3, <4>1, <5>2
          <6>2. v.shown[r].version >= v.wrote[r]
            BY <1>2, <3>2, <4>3, <5>5
          <6> QED
            BY <1>2, <3>2, <5>4, <5>5, <6>1, <6>2 DEF Current, Fresh
        <5>6. CASE \E i \in DOMAIN w.reloads : r \in w.reloads[i]
          <6>1. LoadsOf(t, r)' # {}
            BY <2>3, <2>4, <5>6
          <6> QED
            BY <5>4, <6>1
        <5> QED
          BY <5>2, <5>5, <5>6
      <4>4. CASE r \notin w.changes
        <5>1. v.wrote[r] = view[t].wrote[r]
          BY <1>2, <3>2, <4>4
        <5>2. \A d \in Mine(t)' : r \in Brings(d) => Fresh(v, r, d)
          BY <1>2, <2>4, <4>1, <4>2, <5>1 DEF Fresh
        <5>3. CASE r \in w.shows
          <6>1. Fresh(view[t], r, c)
            BY <1>3, <2>6, <4>1, <5>3
          <6> QED
            BY <1>2, <3>2, <5>1, <5>2, <5>3, <6>1 DEF Current, Fresh
        <5>4. CASE r \notin w.shows
          <6>1. Current(view[t], r) => Current(v, r)
            BY <1>2, <1>7, <3>2, <5>1, <5>4 DEF Current
          <6>2. LoadsOf(t, r) # {} => LoadsOf(t, r)' # {}
            BY <2>4, <2>5
          <6> QED
            BY <4>1, <5>2, <6>1, <6>2
        <5> QED
          BY <5>3, <5>4
      <4> QED
        BY <4>3, <4>4
    <3>7. FreshOK(t, r)'
      BY <1>5, <3>6, FreshThen
    <3> QED
      BY <3>3, <3>5, <3>7
  <2>8. RowsOK(t)'
    BY <1>2, <1>5, <2>7, Zenon DEF RowsOK, Resources, FrameGets
  <2>9. StageOK(t)'
    BY <1>2, <1>3, <1>5, <1>7, Zenon DEF StageOK
  <2>10. DomainsOK(t)'
    BY <1>2, <1>4, <1>5, Zenon DEF DomainsOK, Resources, FrameGets
  <2>11. ShowOK(t)'
    BY <2>8, <2>9, <2>10 DEF ShowOK
  <2> QED
    BY <1>1, <2>2, <2>11, MovesShow
<1> QED
  BY <1>6, <1>7

LEMMA WriteSettlesShows ==
    ASSUME IInv, IInv', ShowInv, LocksInv, overlapped \subseteq overlapped', OverlapOK',
           NEW c \in calls, WriteSettles(c)
    PROVE  ShowInv'
<1>1. c.kind = "write" /\ UNCHANGED version
  BY DEF WriteSettles
<1>2. PICK w \in Ops(c) :
        /\ IF c.answer = "ok"
           THEN calls' = Replaced(c, Reloads(w, c)) /\ made' = made + Len(w.reloads)
           ELSE calls' = Replaced(c, {}) /\ UNCHANGED made
        /\ view' = CASE ~ Here(c) -> view
                     [] Here(c) /\ c.answer = "ok" ->
                          [view EXCEPT ![c.tab] =
                              [Done(view[c.tab], w, c) EXCEPT
                                  !.stage = IF w.leaves THEN "left" ELSE @]]
                     [] OTHER -> [view EXCEPT ![c.tab] = Failed(@, w)]
  BY Zenon DEF WriteSettles
<1>3. CASE ~ Here(c)
  <2>1. UNCHANGED view
    BY <1>2, <1>3
  <2>2. PICK new : /\ calls' = Replaced(c, new)
                   /\ \A d \in new : d.tab = c.tab /\ d.visit = c.visit /\ d.answer = "none"
    <3>1. CASE c.answer = "ok"
      <4>1. Begins(Reloads(w, c), c.tab, c.visit, w.reloads, c.key)
        BY LoadsBegin DEF Reloads
      <4> QED
        BY <1>2, <3>1, <4>1 DEF Begins
    <3>2. CASE c.answer # "ok"
      <4>1. calls' = Replaced(c, {}) /\ \A d \in {} : FALSE
        BY <1>2, <3>2
      <4> QED
        BY <4>1
    <3> QED
      BY <3>1, <3>2
  <2> QED
    BY <1>1, <1>3, <2>1, <2>2, ElsewhereShows
<1>4. CASE Here(c) /\ c.answer = "ok"
  <2>1. view' = [view EXCEPT ![c.tab] =
                   [Done(view[c.tab], w, c) EXCEPT !.stage = IF w.leaves THEN "left" ELSE @]]
    BY <1>2, <1>4
  <2>2. calls' = Replaced(c, Reloads(w, c))
    BY <1>2, <1>4
  <2> QED
    BY <1>1, <1>4, <2>1, <2>2, DoneShows, Zenon
<1>5. CASE Here(c) /\ c.answer # "ok"
  <2>1. view' = [view EXCEPT ![c.tab] = Failed(@, w)] /\ calls' = Replaced(c, {})
    BY <1>2, <1>5
  <2> QED
    BY <1>1, <2>1, FailedShows, Zenon
<1> QED
  BY <1>3, <1>4, <1>5
\* The steps that begin and end no request of a page.
LEMMA TurnShows ==
    ASSUME IInv, IInv', ShowInv, VersionGrows, overlapped \subseteq overlapped', OverlapOK',
           NEW gone, NEW back, NEW new, Turn(gone, back, new),
           \A d \in back : d.kind \in PageKinds => \E c \in gone : GoesOn(c, d),
           \A c \in gone : c.kind = "load" => \E d \in back : GoesOn(c, d),
           \A d \in new : d.kind \notin PageKinds,
           \A t \in Tab : \/ view'[t] = view[t]
                          \/ \E p \in {"login", Home} : view'[t] = Blank(p, made)
    PROVE  ShowInv'
<1>1. \A c \in calls : GoesOn(c, c)
  BY DEF IInv, CallsOK, Typed, SameRequest, GoesOn
<1>2. Carried({})
  BY <1>1 DEF Turn, Carried
<1>3. \A t \in Tab : LoadsStay(t)
  BY <1>1 DEF Turn, LoadsStay, Mine
<1>4. \A t \in Tab : \/ SameRows(view[t], view'[t])
                     \/ \E p \in {"login", Home} : view'[t] = Blank(p, made)
  BY DEF SameRows
<1> QED
  BY <1>2, <1>3, <1>4, OffShows

VersionsKept == VersionOK /\ UNCHANGED version

LEMMA KeptGrows ==
    ASSUME VersionsKept
    PROVE  VersionGrows
  BY DEF VersionsKept, VersionOK, VersionGrows

\* One request goes on.
LEMMA AnsweredShows ==
    ASSUME IInv, IInv', ShowInv, VersionGrows, overlapped \subseteq overlapped', OverlapOK',
           UNCHANGED view, NEW c \in calls, NEW d, Turn({c}, {d}, {}), SameRequest(c, d),
           c.kind \in PageKinds /\ d.answer = "ok" => Brought(c, d)
    PROVE  ShowInv'
<1> PICK gone, back, new : gone = {c} /\ back = {d} /\ new = {}
  OBVIOUS
<1>1. Turn(gone, back, new)
  OBVIOUS
<1>2. c.kind \in PageKinds => GoesOn(c, d)
  BY DEF GoesOn
<1>3. d.kind = c.kind
  BY DEF SameRequest
<1>4. \A e \in back : e.kind \in PageKinds => \E a \in gone : GoesOn(a, e)
  BY <1>2, <1>3
<1>5. \A a \in gone : a.kind = "load" => \E e \in back : GoesOn(a, e)
  BY <1>2 DEF PageKinds
<1> QED
  BY <1>1, <1>4, <1>5, TurnShows

LEMMA ServeWriteGrows ==
    ASSUME VersionOK, NEW c, ServeWrite(c)
    PROVE  VersionGrows
<1>1. CASE UNCHANGED version
  BY <1>1, KeptGrows DEF VersionsKept
<1>2. ASSUME NEW w, version' = [r \in DOMAIN version |->
                                  version[r] + IF r \in w.changes THEN 1 ELSE 0]
      PROVE  VersionGrows
  BY <1>2 DEF VersionOK, VersionGrows
<1> QED
  BY <1>1, <1>2, Zenon DEF ServeWrite

LEMMA ServerShows ==
    ASSUME IInv, IInv', ShowInv, overlapped \subseteq overlapped', OverlapOK',
           NEW c \in calls, ServerStep(c)
    PROVE  ShowInv'
<1>1. CallsOK(calls, made) /\ VersionOK
  BY DEF IInv, ShowInv
<1>2. UNCHANGED view
  BY Zenon DEF ServerStep, ServeLoad, ServeWrite, pageVars
<1>3. VersionGrows
  <2>1. CASE ServeWrite(c)
    BY <1>1, <2>1, ServeWriteGrows
  <2>2. CASE UNCHANGED version
    BY <1>1, <2>2, KeptGrows DEF VersionsKept
  <2> QED
    BY <2>1, <2>2 DEF ServerStep, ServeLoad, pageVars
<1>4. \E d : /\ Turn({c}, {d}, {}) /\ SameRequest(c, d)
             /\ c.kind \in PageKinds /\ d.answer = "ok" => Brought(c, d)
  <2>1. CASE ServeRefresh(c)
    <3>1. c.kind \notin PageKinds
      BY <2>1 DEF ServeRefresh, PageKinds
    <3> QED
      BY <1>1, <2>1, <3>1, ServeRefreshTurns
  <2>2. CASE ServeLogin(c)
    <3>1. c.kind \notin PageKinds
      BY <2>2 DEF ServeLogin, PageKinds
    <3> QED
      BY <1>1, <2>2, <3>1, ServeLoginTurns, Zenon
  <2>3. CASE ServeLogout(c) \/ ServeMe(c) \/ ServeLoad(c) \/ ServeWrite(c)
    <3>1. UNCHANGED made
      BY <2>3, Zenon DEF ServeLogout, ServeMe, ServeLoad, ServeWrite
    <3>2. \E d : /\ Turn({c}, {d}, {}) /\ SameRequest(c, d)
                 /\ d.answer = "ok" /\ c.kind \in {"load", "write"} => Brought(c, d)
      BY <1>1, <2>3, <3>1, AnswerTurns
    <3> QED
      BY <3>2 DEF PageKinds
  <2> QED
    BY <2>1, <2>2, <2>3, Zenon DEF ServerStep, ServeAuth
<1> QED
  BY <1>2, <1>3, <1>4, AnsweredShows

\* A request of no page ends, and perhaps another one begins.
LEMMA EndShows ==
    ASSUME IInv, IInv', ShowInv, UNCHANGED version, overlapped \subseteq overlapped', OverlapOK',
           NEW gone, NEW new, Turn(gone, {}, new),
           \A c \in gone \cup new : c.kind \notin PageKinds,
           \A t \in Tab : \/ view'[t] = view[t]
                          \/ \E p \in {"login", Home} : view'[t] = Blank(p, made)
    PROVE  ShowInv'
<1> PICK none : none = {}
  OBVIOUS
<1>1. Turn(gone, none, new) /\ \A d \in none : FALSE
  OBVIOUS
<1>2. VersionGrows
  BY KeptGrows DEF VersionsKept, ShowInv
<1>3. \A c \in gone : c.kind # "load"
  BY DEF PageKinds
<1> QED
  BY <1>1, <1>2, <1>3, TurnShows

LEMMA ClientShows ==
    ASSUME IInv, IInv', ShowInv, LocksInv, overlapped \subseteq overlapped', OverlapOK',
           NEW c \in calls, ClientStep(c)
    PROVE  ShowInv'
<1>1. CallsOK(calls, made) /\ c.tab \in Tab /\ view = [u \in Tab |-> view[u]] /\ VersionOK
  BY DEF IInv, CallsOK, Typed, ViewsOK, ShowInv
<1> PICK gone, none : gone = {c} /\ none = {}
  BY Zenon
<1>2. CASE Retry(c) /\ UNCHANGED pageVars
  <2>1. PICK d, new : /\ Turn({c}, {d}, new) /\ SameRequest(c, d) /\ d.answer # "ok"
                      /\ \A e \in new : e.kind = "refresh" /\ e.pc = "sent"
    BY <1>1, <1>2, RetryTurns, Zenon
  <2> PICK back : back = {d}
    BY Zenon
  <2>2. Turn(gone, back, new) /\ \A e \in new : e.kind \notin PageKinds
    BY <2>1 DEF PageKinds
  <2>3. GoesOn(c, d)
    BY <2>1 DEF GoesOn
  <2>4. \A t \in Tab : view'[t] = view[t]
    BY <1>2 DEF pageVars
  <2>5. VersionGrows
    BY <1>1, <1>2, KeptGrows DEF VersionsKept, pageVars
  <2> QED
    BY <2>2, <2>3, <2>4, <2>5, TurnShows
<1>3. CASE RefreshSettles(c) /\ UNCHANGED pageVars
  <2>1. PICK back : /\ Turn({c} \cup Waiters(c), back, {})
                    /\ \A d \in Waiters(c) : \E e \in back : SameRequest(d, e)
                    /\ \A e \in back :
                          e.answer # "ok" /\ \E d \in Waiters(c) : SameRequest(d, e)
    BY <1>1, <1>3, RefreshSettlesTurns, Zenon
  <2> PICK both : both = {c} \cup Waiters(c)
    BY Zenon
  <2>2. Turn(both, back, none) /\ \A e \in none : FALSE
    BY <2>1
  <2>3. \A e \in back : \E d \in both : GoesOn(d, e)
    BY <2>1 DEF GoesOn
  <2>4. c.kind # "load"
    BY <1>3 DEF RefreshSettles
  <2>5. \A d \in both : d.kind = "load" => \E e \in back : GoesOn(d, e)
    BY <2>1, <2>4 DEF GoesOn
  <2>6. \A t \in Tab : view'[t] = view[t]
    BY <1>3 DEF pageVars
  <2>7. VersionGrows
    BY <1>1, <1>3, KeptGrows DEF VersionsKept, pageVars
  <2> QED
    BY <2>2, <2>3, <2>5, <2>6, <2>7, TurnShows
<1>4. CASE MountSettles(c) /\ UNCHANGED pageVars
  <2>1. Turn(gone, {}, none)
    BY <1>1, <1>4, EndTurns
  <2>2. \A d \in gone \cup none : d.kind \notin PageKinds
    BY <1>4 DEF MountSettles, PageKinds
  <2> QED
    BY <1>4, <2>1, <2>2, EndShows DEF pageVars
<1>5. CASE RegisterSettles(c) /\ UNCHANGED pageVars
  <2>1. PICK new : Turn({c}, {}, new) /\ \A e \in new : e.kind = "login"
    BY <1>1, <1>5, RegisterSettlesTurns
  <2>2. Turn(gone, {}, new)
    BY <2>1
  <2>3. \A d \in gone \cup new : d.kind \notin PageKinds
    BY <1>5, <2>1 DEF RegisterSettles, PageKinds
  <2> QED
    BY <1>5, <2>2, <2>3, EndShows DEF pageVars
<1>6. CASE LoginSettles(c) /\ UNCHANGED pageVars
  <2>1. PICK new : Turn({c}, {}, new) /\ \A e \in new : e.kind = "me"
    BY <1>1, <1>6, LoginSettlesTurns, Zenon
  <2>2. Turn(gone, {}, new)
    BY <2>1
  <2>3. \A d \in gone \cup new : d.kind \notin PageKinds
    BY <1>6, <2>1 DEF LoginSettles, PageKinds
  <2> QED
    BY <1>6, <2>2, <2>3, EndShows DEF pageVars
<1>7. CASE SignIn(c)
  <2>1. Turn(gone, {}, none)
    BY <1>1, <1>7, EndTurns DEF SignIn
  <2>2. \A d \in gone \cup none : d.kind \notin PageKinds
    BY <1>7 DEF SignIn, MeSettles, PageKinds
  <2>3. \A t \in Tab : view'[t] = view[t] \/ view'[t] = Blank(Home, made)
    BY <1>1, <1>7 DEF SignIn
  <2> QED
    BY <1>7, <2>1, <2>2, <2>3, EndShows DEF SignIn
<1>8. CASE LoggedOut(c)
  <2>1. Turn(gone, {}, none)
    BY <1>1, <1>8, EndTurns DEF LoggedOut
  <2>2. \A d \in gone \cup none : d.kind \notin PageKinds
    BY <1>8 DEF LoggedOut, LogoutSettles, PageKinds
  <2>3. \A t \in Tab : view'[t] = view[t] \/ view'[t] = Blank("login", made)
    BY <1>1, <1>8 DEF LoggedOut
  <2> QED
    BY <1>8, <2>1, <2>2, <2>3, EndShows DEF LoggedOut
<1>9. CASE FrameSettles(c) \/ LoadSettles(c) \/ WriteSettles(c)
  BY <1>9, FrameSettlesShows, LoadSettlesShows, WriteSettlesShows
<1> QED
  BY <1>2, <1>3, <1>4, <1>5, <1>6, <1>7, <1>8, <1>9 DEF ClientStep

LEMMA UserShows ==
    ASSUME IInv, IInv', ShowInv, overlapped \subseteq overlapped', OverlapOK',
           NEW t \in Tab, UserStep(t)
    PROVE  ShowInv'
<1>1. CallsOK(calls, made)
  BY DEF IInv
<1>2. ASSUME NEW kind \in {"login", "register", "logout"}, Submit(t, kind), UNCHANGED pageVars
      PROVE  ShowInv'
  <2> PICK none : none = {}
    BY Zenon
  <2>1. Submit(t, kind) /\ kind \notin {"load", "write"}
    BY <1>2
  <2>2. PICK e : /\ Turn({}, {}, {e}) /\ e.kind = kind /\ e.pc = "sent"
                 /\ e.kind \in {"refresh", "logout"} => e.with = cookie
    BY <1>1, <2>1, SubmitTurns, SMTT(20)
  <2> PICK new : new = {e}
    BY Zenon
  <2>3. Turn(none, {}, new) /\ \A d \in none \cup new : d.kind \notin PageKinds
    BY <2>1, <2>2 DEF PageKinds
  <2> QED
    BY <1>2, <2>3, EndShows DEF pageVars
<1>3. SubmitLogin(t, "login") \/ SubmitLogin(t, "register") \/ LogOut(t) => ShowInv'
  BY <1>2 DEF SubmitLogin, LogOut
<1>4. ASSUME NEW f, Type(t, f)
      PROVE  ShowInv'
  BY <1>4, TypeShows
<1>5. ASSUME NEW w, Click(t, w)
      PROVE  ShowInv'
  BY <1>5, ClickShows
<1>6. Choose(t) => ShowInv'
  BY ChooseShows
<1> QED
  BY <1>3, <1>4, <1>5, <1>6 DEF UserStep

\* A request that goes on overlaps with the requests it overlapped with.
LEMMA LoseOverlaps ==
    ASSUME IInv, OverlapOK, UNCHANGED overlapped, NEW c \in calls, NEW d, Turn({c}, {d}, {}),
           SameRequest(c, d)
    PROVE  OverlapOK'
<1> SUFFICES ASSUME NEW x \in Overlaps(calls)'
             PROVE  x \in Overlaps(calls)
  BY DEF OverlapOK
<1>1. \A b \in calls' : \E a \in calls : /\ a.tab = b.tab /\ a.id = b.id
                                          /\ Brings(a) = Brings(b)' /\ Brings(b)' = Brings(b)
  <2>1. \A b : Brings(b)' = Brings(b)
    BY DEF Brings, Ops
  <2>2. Brings(d) = Brings(c)
    BY BringsSame
  <2> QED
    BY <2>1, <2>2 DEF Turn, SameRequest
<1>2. PICK b \in calls' :
         x \in {b.tab} \X UNION {Brings(b)' \cap Brings(e)' :
                                   e \in {y \in calls' : y.tab = b.tab /\ b.id < y.id}}
  BY DEF Overlaps
<1>3. PICK r, e : /\ e \in calls' /\ x = <<b.tab, r>> /\ e.tab = b.tab /\ b.id < e.id
                  /\ r \in Brings(b)' /\ r \in Brings(e)'
  <2>1. PICK r \in UNION {Brings(b)' \cap Brings(e)' :
                            e \in {y \in calls' : y.tab = b.tab /\ b.id < y.id}} :
           x = <<b.tab, r>>
    BY <1>2
  <2>2. PICK e \in {y \in calls' : y.tab = b.tab /\ b.id < y.id} :
           r \in Brings(b)' \cap Brings(e)'
    BY <2>1
  <2> QED
    BY <2>1, <2>2
<1>4. PICK a \in calls : a.tab = b.tab /\ a.id = b.id /\ Brings(a) = Brings(b)'
  BY <1>1
<1>5. PICK f \in calls : f.tab = e.tab /\ f.id = e.id /\ Brings(f) = Brings(e)'
  BY <1>1, <1>3
<1>6. r \in UNION {Brings(a) \cap Brings(y) : y \in {z \in calls : z.tab = a.tab /\ a.id < z.id}}
  BY <1>3, <1>4, <1>5
<1>7. x \in {a.tab} \X UNION {Brings(a) \cap Brings(y) :
                                y \in {z \in calls : z.tab = a.tab /\ a.id < z.id}}
  BY <1>3, <1>4, <1>6
<1> QED
  BY <1>7 DEF Overlaps

LEMMA NothingShows ==
    ASSUME IInv, IInv', ShowInv, UNCHANGED <<calls, made, view, version>>,
           overlapped \subseteq overlapped', OverlapOK'
    PROVE  ShowInv'
<1> PICK none : none = {}
  BY Zenon
<1>1. Turn(none, {}, none)
  BY DEF IInv, Turn, CallsOK
<1> QED
  BY <1>1, EndShows

LEMMA ShowStep ==
    ASSUME FullInv, FullInv', ShowInv, [Next]_vars
    PROVE  ShowInv'
<1>1. /\ IInv /\ IInv' /\ LocksInv /\ CallsOK(calls, made) /\ view = [u \in Tab |-> view[u]]
      /\ VersionOK /\ OverlapOK
  BY DEF FullInv, IInv, ViewsOK, ShowInv
<1>2. overlapped' = overlapped \cup Overlaps(calls') =>
         overlapped \subseteq overlapped' /\ OverlapOK'
  BY DEF OverlapOK, Overlaps, Brings, Ops
<1>3. UNCHANGED <<overlapped, calls>> => overlapped \subseteq overlapped' /\ OverlapOK'
  BY <1>1 DEF OverlapOK, Overlaps, Brings, Ops
<1>4. CASE Advance
  <2>1. overlapped \subseteq overlapped' /\ OverlapOK'
    BY <1>2, <1>4 DEF Advance
  <2>2. ASSUME NEW c \in calls, ServerStep(c)
        PROVE  ShowInv'
    BY <1>1, <2>1, <2>2, ServerShows
  <2>3. ASSUME NEW c \in calls, ClientStep(c)
        PROVE  ShowInv'
    BY <1>1, <2>1, <2>3, ClientShows
  <2>4. ASSUME NEW t \in Tab, Enter(t)
        PROVE  ShowInv'
    BY <1>1, <2>1, <2>4, EnterShows
  <2>5. ASSUME NEW t \in Tab, Redirect(t)
        PROVE  ShowInv'
    <3> PICK none : none = {}
      BY Zenon
    <3>1. \A u \in Tab : view'[u] = view[u] \/ view'[u] = Blank("login", made)
      BY <1>1, <2>5 DEF Redirect
    <3>2. UNCHANGED <<calls, made, version>>
      BY <2>5 DEF Redirect, clientVars
    <3>3. Turn(none, {}, none)
      BY <1>1, <3>2 DEF Turn, CallsOK
    <3> QED
      BY <1>1, <2>1, <3>1, <3>2, <3>3, EndShows
  <2> QED
    BY <1>4, <2>2, <2>3, <2>4, <2>5 DEF Advance, Progress
<1>5. CASE Faults
  <2>1. UNCHANGED <<view, version, overlapped>>
    BY <1>5 DEF Faults, pageVars
  <2>2. CASE Lapse
    BY <1>1, <1>3, <2>1, <2>2, NothingShows DEF Lapse
  <2>3. ASSUME NEW c \in calls, Lose(c)
        PROVE  ShowInv'
    <3>1. PICK d : Turn({c}, {d}, {}) /\ SameRequest(c, d) /\ d.answer = "failed"
      BY <1>1, <2>3, LoseTurns, Zenon
    <3>2. OverlapOK'
      BY <1>1, <2>1, <3>1, LoseOverlaps
    <3>3. VersionGrows
      BY <1>1, <2>1, KeptGrows DEF VersionsKept
    <3> QED
      BY <1>1, <2>1, <3>1, <3>2, <3>3, AnsweredShows
  <2> QED
    BY <1>5, <2>2, <2>3 DEF Faults
<1>6. CASE Use
  <2>1. overlapped \subseteq overlapped' /\ OverlapOK'
    BY <1>2, <1>6 DEF Use
  <2> QED
    BY <1>1, <1>6, <2>1, UserShows DEF Use
<1>7. CASE UNCHANGED vars
  <2>1. UNCHANGED <<calls, made, view, version, overlapped>>
    BY <1>7 DEF vars, clientVars, pageVars
  <2> QED
    BY <1>1, <1>3, <2>1, NothingShows
<1> QED
  BY <1>4, <1>5, <1>6, <1>7 DEF Next

LEMMA InitShows ==
    ASSUME Init
    PROVE  ShowInv
<1>1. \A t \in Tab : \/ view[t].stage = "left"
                     \/ \E p : view[t] = Blank(p, 0) /\ Resources(p) \subseteq DOMAIN version
  <2>1. \A v : [v EXCEPT !.stage = "left"].stage = "left" \/ "stage" \notin DOMAIN v
    OBVIOUS
  <2>2. "stage" \in DOMAIN Blank("login", 0)
    BY DEF Blank
  <2>3. Resources("login") = {}
    <3>1. Book["login"] = Login /\ Login.gets = <<>> /\ Login.layout = "none"
      BY DEF Book, Login, Page
    <3> QED
      BY <3>1 DEF Resources, ElementsOf, FrameGets
  <2>4. CASE AllTabs
    <3>1. \A t \in Tab : view[t] = Blank("login", 0) \/ view[t] = Blank(Home, 0)
      BY <2>4 DEF AllTabs
    <3>2. DOMAIN version = Touched(Home)
      BY <2>4 DEF AllTabs
    <3> QED
      BY <2>3, <3>1, <3>2 DEF Touched
  <2>5. CASE OnePage
    <3>1. PICK p : /\ view = [t \in Tab |-> IF t = FirstTab THEN Blank(p, 0)
                                             ELSE [Blank("login", 0) EXCEPT !.stage = "left"]]
                   /\ version = [r \in Touched(p) \cup Touched(Home) |-> 1]
      BY <2>5 DEF OnePage
    <3>2. Resources(p) \subseteq DOMAIN version
      BY <3>1 DEF Touched
    <3> QED
      BY <2>1, <2>2, <3>1, <3>2
  <2> QED
    BY <2>4, <2>5 DEF Init
<1>2. \A c \in calls : c.kind \in {"refresh", "mount"}
  BY InitCalls
<1>3. VersionOK
  <2>1. \E S : Touched(Home) \subseteq S /\ version = [r \in S |-> 1]
    <3>1. CASE OnePage
      <4>1. PICK p : version = [r \in Touched(p) \cup Touched(Home) |-> 1]
        BY <3>1 DEF OnePage
      <4> QED
        BY <4>1
    <3>2. CASE AllTabs
      BY <3>2 DEF AllTabs
    <3> QED
      BY <3>1, <3>2 DEF Init
  <2> QED
    BY <2>1 DEF VersionOK, Touched
<1>4. DataOK /\ \A t : Mine(t) = {}
  BY <1>2 DEF DataOK, Mine, PageKinds
<1>5. OverlapOK
  <2>1. \A c \in calls : Brings(c) = {}
    BY <1>2 DEF Brings
  <2>2. Overlaps(calls) = {}
    <3>1. \A c \in calls : \A d : Brings(c) \cap Brings(d) = {}
      BY <2>1
    <3>2. \A c \in calls : UNION {Brings(c) \cap Brings(d) :
                                    d \in {e \in calls : e.tab = c.tab /\ c.id < e.id}} = {}
      BY <3>1
    <3> QED
      BY <3>2 DEF Overlaps
  <2> QED
    BY <2>2 DEF OverlapOK
<1>6. ASSUME NEW t \in Tab, view[t].stage # "left"
      PROVE  DomainsOK(t) /\ StageOK(t) /\ RowsOK(t)
  <2>1. PICK p : view[t] = Blank(p, 0) /\ Resources(p) \subseteq DOMAIN version
    BY <1>1, <1>6
  <2>2. /\ view[t].page = p /\ view[t].stage = "closed" /\ view[t].key = 1
        /\ DOMAIN view[t].shown = Resources(p) /\ DOMAIN view[t].wrote = Resources(p)
        /\ \A r \in Resources(p) : view[t].shown[r].version = 0 /\ view[t].wrote[r] = 0
        /\ view[t].missed = {}
    BY <2>1 DEF Blank
  <2>3. DomainsOK(t) /\ StageOK(t)
    BY <1>4, <2>1, <2>2 DEF DomainsOK, StageOK
  <2>4. ASSUME NEW r \in Resources(p)
        PROVE  RowOK(t, r) /\ OnceOK(t, r) /\ FreshOK(t, r)
    <3>1. LoadsOf(t, r) = {}
      BY <1>2 DEF LoadsOf
    <3>2. version[r] \in Nat
      BY <1>3, <2>1 DEF VersionOK
    <3>3. RowOK(t, r)
      BY <2>2, <3>2 DEF RowOK
    <3>4. Current(view[t], r)
      BY <2>2 DEF Current
    <3> QED
      BY <1>4, <3>1, <3>3, <3>4 DEF OnceOK, FreshOK
  <2> QED
    BY <2>2, <2>3, <2>4 DEF RowsOK
<1> QED
  BY <1>3, <1>4, <1>5, <1>6 DEF ShowInv, ShowOK

\* What a page whose requests are settled shows.
LEMMA QuietShows ==
    ASSUME IInv, ShowInv
    PROVE  PagesShowTheirWrites
<1> SUFFICES ASSUME NEW t \in Tab, Quiet(t), NEW r \in DOMAIN view[t].shown,
                    r \notin view[t].missed,
                    <<t, r>> \notin overlapped \/ view[t].page \notin Overlapping,
                    <<view[t].page, r>> \notin NotRefreshed
             PROVE  /\ view[t].shown[r].version >= view[t].wrote[r]
                    /\ Book[view[t].page].keyed => view[t].shown[r].key = view[t].key
  BY DEF PagesShowTheirWrites
<1> PICK p : p = view[t].page
  OBVIOUS
<1>1. view[t].stage = "open" /\ LoadsOf(t, r) = {}
  BY DEF Quiet, LoadsOf
<1>2. r \in Resources(p) /\ RowOK(t, r) /\ FreshOK(t, r) /\ p \in PageNames
  BY <1>1 DEF ShowInv, ShowOK, DomainsOK, RowsOK, IInv, ViewsOK, IsView
<1>3. CASE Clear(t, r)
  BY <1>1, <1>2, <1>3 DEF FreshOK, Current
<1>4. CASE ~ Clear(t, r)
  <2>1. p \notin Overlapping /\ <<p, r>> \notin Once
    BY <1>4 DEF Clear
  <2>2. ~ Book[p].keyed
    BY <1>2, <2>1, KeyedPages
  <2>3. \A w \in Book[p].writes : r \notin w.changes
    BY <1>2, <2>1, HandlersRefresh DEF Handled
  <2>4. view[t].wrote[r] = 0 /\ view[t].shown[r].version \in Nat
    BY <1>2, <2>3 DEF RowOK
  <2> QED
    BY <2>2, <2>4
<1> QED
  BY <1>3, <1>4

(* Once its requests are settled a page shows all that its own handlers have changed, for *)
(* the tab and the page number chosen: every page with a handler that changes what it     *)
(* shows puts the answer there or calls load() again, and the pages on which an older      *)
(* answer can come last are those whose requests overlap (Overlapping); what the pages in  *)
(* NotRefreshed leave stale is stated with them.                                           *)
THEOREM PagesAreCurrent ==
    ASSUME IsFiniteSet(Tab)
    PROVE  Spec => []PagesShowTheirWrites
<1>1. Init => ShowInv
  BY InitShows
<1>2. FullInv /\ FullInv' /\ ShowInv /\ [Next]_vars => ShowInv'
  BY ShowStep
<1>3. FullInv /\ ShowInv => PagesShowTheirWrites
  BY QuietShows DEF FullInv
<1> QED
  BY <1>1, <1>2, <1>3, FullInvHolds, PTL DEF Spec
==============================================================================
