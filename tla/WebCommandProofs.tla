-------------------------- MODULE WebCommandProofs --------------------------
(***************************************************************************)
(* Proofs about WebCommand, for any number of handlers, lists and          *)
(* requests: its steps at mainshow are Playlist's, its types, and that a   *)
(* request which is alone in the command is answered as it should be.      *)
(***************************************************************************)
EXTENDS WebCommand, PlaylistProofs

InCommand(h) == wc[h] \notin {"idle", "runonce"}

\* Requests have numbers of their own, two that meet in the command are noted, and handlers outside
\* of the command have nothing on their pages.
Numbers ==
  /\ writer <= requests
  /\ \A h \in Handler : wc[h] = "idle" <=> serving[h] = 0
  /\ \A g, h \in Handler : serving[g] = serving[h] /\ serving[g] # 0 => g = h
  /\ \A g, h \in Handler : g # h /\ InCommand(g) /\ InCommand(h) => serving[g] \in together
  /\ \A h \in Handler : ~InCommand(h) => page[h] = <<>> /\ body[h] = NoBody
  /\ \A h \in Handler : wc[h] = "runonce" => asked[h].kind = "runonce" /\ writer # serving[h]
  /\ \A h \in Handler : InCommand(h) => asked[h].kind # "runonce"

\* The list a query is about.
ListOf(q) == IF q.kind = "update" /\ q.list = "none" THEN q.body ELSE q.list

\* What a handler that is alone in the command has set and read, stage by stage.
Members(h) ==
  /\ wc[h] # "params" => params = asked[h]
  /\ wc[h] \notin {"params", "request"} => request = [from |-> serving[h], id |-> asked[h].body]
  /\ wc[h] \notin {"params", "request", "writer"} => writer = serving[h]

Progress(h) ==
  /\ wc[h] = "load" => asked[h].kind = "update"
  /\ wc[h] \in {"find", "return", "none", "send"} /\ asked[h].kind = "update"
       => asked[h].format = "pb" /\ body[h] = [from |-> serving[h], id |-> asked[h].body]
  /\ asked[h].kind = "fetch" => body[h] = NoBody
  /\ wc[h] = "return" => target[h] = ListOf(asked[h]) /\ target[h] # "none"
  /\ wc[h] = "none" => ListOf(asked[h]) = "none"
  /\ page[h] = IF wc[h] = "send" THEN Answer(asked[h], serving[h]) ELSE <<>>

Alone == \A h \in Handler : InCommand(h) /\ serving[h] \notin together => Members(h) /\ Progress(h)

\* The inductive invariant of the command.
WInv == CommandTypes /\ Numbers /\ Alone /\ AloneIsRight

-----------------------------------------------------------------------------
(***************************************************************************)
(* The shared list: what the command does to it, Playlist allows.          *)
(***************************************************************************)
\* Every step of the composition is a step of Playlist, or leaves the list alone.
LEMMA ListStep == [WebNext]_webVars => [Next]_playlistVars
<1> SUFFICES ASSUME WebNext PROVE Next \/ UNCHANGED playlistVars
  BY DEF webVars
<1>1. ASSUME NEW h \in Handler, Receive(h) PROVE Next \/ UNCHANGED playlistVars
  BY <1>1 DEF Receive, Next, Fetch, Thread
<1>2. ASSUME NEW h \in Handler, Find(h) PROVE Next \/ UNCHANGED playlistVars
  BY <1>2 DEF Find, Next, Merge
<1>3. ASSUME NEW h \in Handler, LoadThrows(h) \/ Merging(h) PROVE Next
  BY <1>3 DEF LoadThrows, Merging, Next, Merge
<1>4. ASSUME NEW h \in Handler,
             \/ SetParams(h) \/ SetRequest(h) \/ SetWriter(h) \/ LoadMessage(h) \/ Return(h)
             \/ ReturnNone(h) \/ Send(h) \/ RanOnce(h)
      PROVE UNCHANGED playlistVars
  BY <1>4 DEF SetParams, SetRequest, SetWriter, LoadMessage, Return, ReturnNone, Send, RanOnce
<1>5. CASE MainPops \/ \E t \in Thread : SetMainshow(t)
  BY <1>5 DEF MainPops, SetMainshow, Next
<1>6. CASE Tear
  BY <1>6 DEF Tear
<1> QED
  BY <1>1, <1>2, <1>3, <1>4, <1>5, <1>6 DEF WebNext, Serve

\* The composition implements Playlist.
THEOREM WebImplementsPlaylist == WebSpec => Spec
<1>1. WebInit => Init
  BY DEF WebInit
<1> QED
  BY <1>1, ListStep, PTL DEF WebSpec, Spec

\* Beside requests that race for the command's members, each entry is still played once as long as
\* merges stay apart.
THEOREM WebEntriesOnce == WebSpec => []EachOnce
BY WebImplementsPlaylist, EntriesOnce, PTL

\* Beside requests for the command, fetches that stay apart still end nothing.
THEOREM WebFetchesEndNothing == WebSpec => []FetchesApart
BY WebImplementsPlaylist, FetchesEndNothing, PTL

-----------------------------------------------------------------------------
(***************************************************************************)
(* The command: initially, and in steps that are not its own.              *)
(***************************************************************************)
\* Nobody is in the command at first.
LEMMA WebInitInv == WebInit => WInv
<1> SUFFICES ASSUME WebInit PROVE WInv
  OBVIOUS
<1>1. NoQuery \in Queries /\ NoBody \in Body
  BY DEF NoQuery, Queries, NoBody, Body
<1>2. CommandTypes
  <2>1. page \in [Handler -> Seq([list : Stored \cup {"mainshow", "none", "invalid"}, from : Nat])]
    BY DEF WebInit
  <2>2. serving \in [Handler -> 0 .. requests] /\ requests \in Nat /\ writer \in Nat
    BY DEF WebInit
  <2> QED
    BY <1>1, <2>1, <2>2 DEF WebInit, CommandTypes
<1>3. Numbers /\ Alone /\ AloneIsRight
  BY DEF WebInit, Numbers, InCommand, Alone, AloneIsRight
<1> QED
  BY <1>2, <1>3 DEF WInv

\* Steps at the list alone, and stuttering.
LEMMA CommandRests == WInv /\ UNCHANGED commandVars => WInv'
<1> SUFFICES ASSUME WInv, UNCHANGED commandVars PROVE WInv'
  OBVIOUS
<1>1. UNCHANGED <<requests, params, request, writer, wc, serving, asked, body, target, page, torn,
                  together, wrong>>
  BY DEF commandVars, memberVars, taskVars, webHistory
<1>2. CommandTypes'
  BY <1>1 DEF WInv, CommandTypes
<1>3. Numbers'
  BY <1>1 DEF WInv, Numbers, InCommand
<1>4. Alone'
  BY <1>1 DEF WInv, Alone, InCommand, Members, Progress, Answer
<1> QED
  BY <1>1, <1>2, <1>3, <1>4 DEF WInv, AloneIsRight

\* A request arrives, and finds others in the command or is alone.
LEMMA ReceiveInv == ASSUME WInv, NEW h \in Handler, Receive(h) PROVE WInv'
<1>1. PICK q \in Query :
        /\ asked' = [asked EXCEPT ![h] = q]
        /\ \/ q.kind \in {"fetch", "update"} /\ wc' = [wc EXCEPT ![h] = "params"]
           \/ q.kind = "runonce" /\ wc' = [wc EXCEPT ![h] = "runonce"]
        /\ together' = IF q.kind = "runonce" \/ Others(h) = {} THEN together
                       ELSE together \cup Others(h) \cup {requests'}
  BY DEF Receive, Then
<1>2. q \in Queries /\ q.kind \in {"fetch", "update", "runonce"}
  BY WebAssumption DEF Queries
<1>3. /\ wc[h] = "idle" /\ requests' = requests + 1 /\ requests \in Nat
      /\ serving' = [serving EXCEPT ![h] = requests + 1]
      /\ UNCHANGED <<params, request, writer, body, target, page, torn, wrong>>
  BY DEF Receive, At, WInv, CommandTypes, memberVars
<1>4. Others(h) \subseteq 1 .. requests
  BY DEF Others, WInv, Numbers, CommandTypes
<1>5. CommandTypes'
  <2>1. requests' \in Nat /\ 1 .. requests \subseteq 1 .. requests' /\ requests' \in 1 .. requests'
    BY <1>3
  <2>2. serving' \in [Handler -> 0 .. requests'] /\ asked' \in [Handler -> Queries]
    BY <1>1, <1>2, <1>3 DEF WInv, CommandTypes
  <2>3. together' \subseteq 1 .. requests'
    BY <1>1, <1>4, <2>1 DEF WInv, CommandTypes
  <2>4. wrong' \subseteq [number : 1 .. requests', kind : {"fetch", "update", "runonce"}]
    BY <1>3, <2>1 DEF WInv, CommandTypes
  <2>5. wc' \in [Handler -> {"idle", "params", "request", "writer", "load", "find", "return",
                            "none", "send", "runonce"}]
    BY <1>1 DEF WInv, CommandTypes
  <2> QED
    BY <1>3, <2>1, <2>2, <2>3, <2>4, <2>5 DEF WInv, CommandTypes
<1>6. /\ \A g \in Handler \ {h} : wc'[g] = wc[g] /\ serving'[g] = serving[g] /\ asked'[g] = asked[g]
      /\ serving'[h] = requests + 1 /\ asked'[h] = q
      /\ wc'[h] = IF q.kind = "runonce" THEN "runonce" ELSE "params"
  BY <1>1, <1>3 DEF WInv, CommandTypes
<1>7. \A g \in Handler : serving[g] \in Nat /\ serving[g] <= requests
  BY DEF WInv, CommandTypes
<1>8. \A g \in Handler \ {h} : InCommand(g) => serving[g] \in Others(h)
  BY DEF Others, InCommand
<1>9. together \subseteq together'
  BY <1>1
<1>10. Numbers'
  BY <1>1, <1>2, <1>3, <1>6, <1>7, <1>8, <1>9 DEF WInv, CommandTypes, Numbers, InCommand
<1>11. Alone'
  BY <1>1, <1>2, <1>3, <1>6, <1>9 DEF WInv, Numbers, Alone, InCommand, Members, Progress
<1> QED
  BY <1>3, <1>5, <1>9, <1>10, <1>11 DEF WInv, AloneIsRight

-----------------------------------------------------------------------------
(***************************************************************************)
(* A handler's steps in the command.                                       *)
(***************************************************************************)
Stages == {"params", "request", "writer", "load", "find", "return", "none", "send"}

\* A handler goes on to another stage.  Whoever else is in the command is together with it, so only
\* what it has done itself has to be shown, and that only if it is alone.
LEMMA StageInv ==
  ASSUME WInv, NEW h \in Handler, InCommand(h), NEW next \in Stages, Then(h, next),
         UNCHANGED <<requests, serving, asked, torn, webHistory>>,
         writer' \in {writer, serving[h]},
         \A g \in Handler : ~InCommand(g) => page'[g] = page[g] /\ body'[g] = body[g],
         params' \in Queries, request' \in Body, body' \in [Handler -> Body],
         target' \in [Handler -> Stored \cup {"mainshow", "none"}],
         page' \in [Handler -> Seq([list : Stored \cup {"mainshow", "none", "invalid"},
                                   from : Nat])],
         serving[h] \notin together => Members(h)' /\ Progress(h)'
  PROVE  WInv'
<1>1. /\ wc'[h] = next /\ InCommand(h)'
      /\ \A g \in Handler \ {h} : wc'[g] = wc[g]
      /\ \A g \in Handler : InCommand(g)' <=> InCommand(g)
  BY DEF Then, WInv, CommandTypes, InCommand, Stages
<1>2. serving[h] # 0 /\ serving[h] <= requests /\ requests \in Nat /\ serving[h] \in Nat
  BY DEF WInv, CommandTypes, Numbers, InCommand
<1>3. CommandTypes'
  <2>1. wc' \in [Handler -> {"idle", "params", "request", "writer", "load", "find", "return",
                            "none", "send", "runonce"}]
    BY DEF Then, WInv, CommandTypes, Stages
  <2> QED
    BY <1>2, <2>1 DEF WInv, CommandTypes, webHistory
<1>4. Numbers'
  <2>1. Numbers /\ UNCHANGED <<requests, serving, asked, together>>
    BY DEF WInv, webHistory
  <2>2. wc[h] \notin {"idle", "runonce"} /\ next \notin {"idle", "runonce"}
    BY DEF InCommand, Stages
  <2>3. writer' <= requests'
    BY <1>2, <2>1 DEF Numbers
  <2>4. \A g \in Handler : wc'[g] = "idle" <=> serving'[g] = 0
    BY <1>1, <2>1, <2>2 DEF Numbers
  <2>5. \A g \in Handler : wc'[g] = "runonce" => asked'[g].kind = "runonce" /\ writer' # serving'[g]
    <3> SUFFICES ASSUME NEW g \in Handler, wc'[g] = "runonce"
                 PROVE asked'[g].kind = "runonce" /\ writer' # serving'[g]
      OBVIOUS
    <3>1. g # h /\ wc[g] = "runonce"
      BY <1>1, <2>2
    <3>2. serving[g] # serving[h] /\ writer # serving[g] /\ asked[g].kind = "runonce"
      BY <1>2, <2>1, <3>1 DEF Numbers
    <3> QED
      BY <2>1, <3>2
  <2> QED
    BY <1>1, <2>1, <2>3, <2>4, <2>5 DEF Numbers
<1>5. Alone'
  <2> SUFFICES ASSUME NEW g \in Handler, InCommand(g)', serving'[g] \notin together'
               PROVE Members(g)' /\ Progress(g)'
    BY DEF Alone
  <2>1. g = h
    BY <1>1 DEF WInv, Numbers, webHistory
  <2> QED
    BY <2>1 DEF webHistory
<1> QED
  BY <1>3, <1>4, <1>5 DEF WInv, AloneIsRight, webHistory

\* The three members are set one by one.
LEMMA MembersInv ==
  ASSUME WInv, NEW h \in Handler, SetParams(h) \/ SetRequest(h) \/ SetWriter(h) PROVE WInv'
<1>1. InCommand(h) /\ Body = [from : Nat, id : Stored \cup {"none"}]
  BY DEF SetParams, SetRequest, SetWriter, At, InCommand, Body
<1>2. CommandTypes /\ asked[h] \in Queries /\ serving[h] \in Nat
  <2>1. CommandTypes
    BY DEF WInv
  <2>2. asked \in [Handler -> Queries] /\ serving[h] \in Nat
    BY <2>1 DEF CommandTypes
  <2> QED
    BY <2>1, <2>2
<1>3. serving[h] \notin together => Members(h) /\ Progress(h)
  BY <1>1 DEF WInv, Alone
<1>4. CASE SetParams(h)
  <2>1. wc[h] = "params" /\ Then(h, "request") /\ "request" \in Stages /\ wc'[h] = "request"
    BY <1>2, <1>4 DEF SetParams, At, Then, CommandTypes, Stages
  <2>2. serving[h] \notin together => Members(h)' /\ Progress(h)'
    BY <1>3, <1>4, <2>1 DEF SetParams, Members, Progress, taskVars
  <2> QED
    BY <1>1, <1>2, <1>4, <2>1, <2>2, StageInv DEF SetParams, taskVars, CommandTypes
<1>5. CASE SetRequest(h)
  <2>1. wc[h] = "request" /\ Then(h, "writer") /\ "writer" \in Stages /\ wc'[h] = "writer"
    BY <1>2, <1>5 DEF SetRequest, At, Then, CommandTypes, Stages
  <2>2. serving[h] \notin together => Members(h)' /\ Progress(h)'
    BY <1>3, <1>5, <2>1 DEF SetRequest, Members, Progress, taskVars
  <2>3. request' \in Body
    BY <1>1, <1>2, <1>5 DEF SetRequest, Queries
  <2> QED
    BY <1>1, <1>2, <1>5, <2>1, <2>2, <2>3, StageInv DEF SetRequest, taskVars, CommandTypes
<1>6. CASE SetWriter(h)
  <2> DEFINE next == IF asked[h].kind = "update" THEN "load" ELSE "find"
  <2>1. wc[h] = "writer" /\ Then(h, next) /\ next \in Stages /\ wc'[h] = next
    BY <1>2, <1>6 DEF SetWriter, At, Then, CommandTypes, Stages
  <2>2. serving[h] \notin together => Members(h)' /\ Progress(h)'
    BY <1>3, <1>6, <2>1 DEF SetWriter, Members, Progress, taskVars
  <2>3. writer' = serving[h]
    BY <1>6 DEF SetWriter
  <2> QED
    BY <1>1, <1>2, <1>6, <2>1, <2>2, <2>3, StageInv DEF SetWriter, taskVars, CommandTypes
<1> QED
  BY <1>4, <1>5, <1>6

\* A handler leaves with what is right for its request, or was not alone.
LEMMA LeaveInv ==
  ASSUME WInv, NEW h \in Handler, wc[h] # "idle", NEW sent, Leave(h, sent),
         serving[h] \notin together => sent = Answer(asked[h], serving[h])
  PROVE  WInv'
<1>1. /\ wc' = [wc EXCEPT ![h] = "idle"] /\ serving' = [serving EXCEPT ![h] = 0]
      /\ asked' = [asked EXCEPT ![h] = NoQuery] /\ body' = [body EXCEPT ![h] = NoBody]
      /\ target' = [target EXCEPT ![h] = "none"] /\ page' = [page EXCEPT ![h] = <<>>]
      /\ UNCHANGED <<requests, params, request, writer, torn, together>>
  BY DEF Leave, Then, memberVars
<1>2. CommandTypes
  BY DEF WInv
<1>3. \A g \in Handler \ {h} :
        /\ wc'[g] = wc[g] /\ serving'[g] = serving[g] /\ asked'[g] = asked[g]
        /\ body'[g] = body[g] /\ target'[g] = target[g] /\ page'[g] = page[g]
        /\ InCommand(g)' <=> InCommand(g)
  BY <1>1, <1>2 DEF CommandTypes, InCommand
<1>4. /\ wc'[h] = "idle" /\ serving'[h] = 0 /\ page'[h] = <<>> /\ body'[h] = NoBody
      /\ ~InCommand(h)'
  BY <1>1, <1>2 DEF CommandTypes, InCommand
<1>5. serving[h] \in 1 .. requests /\ requests \in Nat
  BY <1>2 DEF WInv, Numbers, CommandTypes
<1>6. asked[h].kind \in {"fetch", "update", "runonce"}
  BY <1>2 DEF CommandTypes, Queries
<1>7. CommandTypes'
  <2>1. NoQuery \in Queries /\ NoBody \in Body
    BY DEF NoQuery, Queries, NoBody, Body
  <2>2. wrong' \subseteq [number : 1 .. requests', kind : {"fetch", "update", "runonce"}]
    BY <1>1, <1>2, <1>5, <1>6 DEF Leave, CommandTypes
  <2>3. serving' \in [Handler -> 0 .. requests']
    BY <1>1, <1>2 DEF CommandTypes
  <2> DEFINE Pages == Seq([list : Stored \cup {"mainshow", "none", "invalid"}, from : Nat])
  <2>4. page' \in [Handler -> Pages]
    <3>1. <<>> \in Pages
      OBVIOUS
    <3>2. page \in [Handler -> Pages]
      BY <1>2, Zenon DEF CommandTypes
    <3> HIDE DEF Pages
    <3> QED
      BY <1>1, <3>1, <3>2
  <2>5. asked' \in [Handler -> Queries] /\ body' \in [Handler -> Body]
    BY <1>1, <1>2, <2>1 DEF CommandTypes
  <2>6. target' \in [Handler -> Stored \cup {"mainshow", "none"}]
    BY <1>1, <1>2 DEF CommandTypes
  <2>7. wc' \in [Handler -> {"idle", "params", "request", "writer", "load", "find", "return",
                            "none", "send", "runonce"}]
    BY <1>1, <1>2 DEF CommandTypes
  <2> QED
    BY <1>1, <1>2, <2>2, <2>3, <2>4, <2>5, <2>6, <2>7 DEF CommandTypes
<1>8. Numbers'
  BY <1>1, <1>3, <1>4 DEF WInv, Numbers
<1>9. Alone'
  <2> SUFFICES ASSUME NEW g \in Handler, InCommand(g)', serving'[g] \notin together'
               PROVE Members(g)' /\ Progress(g)'
    BY DEF Alone
  <2>1. g # h /\ InCommand(g) /\ serving[g] \notin together
    BY <1>1, <1>3, <1>4
  <2>2. Members(g) /\ Progress(g)
    BY <2>1 DEF WInv, Alone
  <2> QED
    BY <1>1, <1>3, <2>1, <2>2 DEF Members, Progress
<1>10. AloneIsRight'
  BY <1>1 DEF Leave, WInv, AloneIsRight
<1> QED
  BY <1>7, <1>8, <1>9, <1>10 DEF WInv
\* A body is read, a list is found.
LEMMA ReadInv == ASSUME WInv, NEW h \in Handler, LoadMessage(h) \/ Find(h) PROVE WInv'
<1>1. InCommand(h)
  BY DEF LoadMessage, Find, At, InCommand
<1>2. CommandTypes
  BY DEF WInv
<1>3. body \in [Handler -> Body] /\ request \in Body /\ params \in Queries
  BY <1>2 DEF CommandTypes
<1>4. serving[h] \notin together => Members(h) /\ Progress(h)
  BY <1>1 DEF WInv, Alone
<1>5. CASE LoadMessage(h)
  <2>1. /\ wc[h] = "load" /\ Then(h, "find") /\ "find" \in Stages /\ wc'[h] = "find"
        /\ body' = [body EXCEPT ![h] = request] /\ params.format = "pb"
        /\ UNCHANGED <<requests, params, request, writer, serving, asked, target, page, torn,
                       webHistory>>
    BY <1>2, <1>5 DEF LoadMessage, At, Then, CommandTypes, Stages, memberVars
  <2>2. body' \in [Handler -> Body] /\ body'[h] = request
    BY <1>3, <2>1
  <2>3. serving[h] \notin together => Members(h)' /\ Progress(h)'
    BY <1>4, <2>1, <2>2 DEF Members, Progress
  <2>4. \A g \in Handler : ~InCommand(g) => page'[g] = page[g] /\ body'[g] = body[g]
    BY <1>1, <1>3, <2>1
  <2> QED
    BY <1>1, <1>2, <2>1, <2>2, <2>3, <2>4, StageInv DEF CommandTypes
<1>6. CASE Find(h)
  <2> DEFINE update == asked[h].kind = "update"
             found == IF update /\ params.list = "none" THEN body[h].id ELSE params.list
             next == IF found = "none" THEN "none" ELSE "return"
  <2>1. /\ wc[h] = "find" /\ Then(h, next) /\ next \in Stages /\ wc'[h] = next
        /\ target' = [target EXCEPT ![h] = found]
        /\ UNCHANGED <<requests, params, request, writer, serving, asked, body, page, torn,
                       webHistory>>
    BY <1>2, <1>6 DEF Find, At, Then, CommandTypes, Stages, memberVars
  <2>2. found \in Stored \cup {"mainshow", "none"}
    BY <1>3 DEF Queries, Body
  <2>3. target \in [Handler -> Stored \cup {"mainshow", "none"}]
    BY <1>2 DEF CommandTypes
  <2>4. target' \in [Handler -> Stored \cup {"mainshow", "none"}] /\ target'[h] = found
    BY <2>1, <2>2, <2>3
  <2>5. ASSUME serving[h] \notin together PROVE Members(h)' /\ Progress(h)'
    <3>1. Members(h) /\ Progress(h)
      BY <1>4, <2>5
    <3>2. params = asked[h]
      BY <2>1, <3>1 DEF Members
    <3>3. asked[h].kind # "runonce" /\ asked[h].kind \in {"fetch", "update", "runonce"}
      BY <1>1, <1>2 DEF WInv, Numbers, CommandTypes, Queries
    <3>4. found = ListOf(asked[h])
      BY <2>1, <3>1, <3>2, <3>3 DEF Progress, ListOf
    <3>5. Members(h)'
      BY <2>1, <3>1 DEF Members
    <3> QED
      BY <2>1, <2>4, <3>1, <3>4, <3>5 DEF Progress, ListOf
  <2> QED
    BY <1>1, <1>2, <2>1, <2>4, <2>5, StageInv DEF CommandTypes
<1> QED
  BY <1>5, <1>6

\* The answer is written: by a handler that is alone, to its own page.
LEMMA WriteInv == ASSUME WInv, NEW h \in Handler, Return(h) \/ ReturnNone(h) PROVE WInv'
<1> DEFINE Line == [list : Stored \cup {"mainshow", "none", "invalid"}, from : Nat]
<1>1. InCommand(h)
  BY DEF Return, ReturnNone, At, InCommand
<1>2. CommandTypes
  BY DEF WInv
<1>3. /\ body \in [Handler -> Body] /\ params \in Queries /\ request \in Body
      /\ target \in [Handler -> Stored \cup {"mainshow", "none"}] /\ asked[h] \in Queries
  BY <1>2 DEF CommandTypes
<1>4. page \in [Handler -> Seq(Line)]
  BY <1>2, Zenon DEF CommandTypes
<1>5. serving[h] \notin together => Members(h) /\ Progress(h)
  BY <1>1 DEF WInv, Alone
<1>6. asked[h].kind \in {"fetch", "update"}
  BY <1>1, <1>3 DEF WInv, Numbers, Queries
<1>7. /\ wc'[h] = "send" /\ Then(h, "send") /\ "send" \in Stages
      /\ UNCHANGED <<requests, params, request, writer, serving, asked, body, target, torn,
                     webHistory>>
  BY <1>2 DEF Return, ReturnNone, Then, CommandTypes, Stages, memberVars
<1>8. CASE Return(h)
  <2> DEFINE line == [list |-> target[h], from |-> body[h].from]
  <2>1. page' = [g \in Handler |->
                  IF wc[g] # "idle" /\ serving[g] = writer THEN Append(page[g], line) ELSE page[g]]
    BY <1>8 DEF Return
  <2>2. line \in Line
    BY <1>3 DEF Body
  <2>3. page' \in [Handler -> Seq(Line)]
    <3> HIDE DEF Line, line
    <3> QED
      BY <1>4, <2>1, <2>2
  <2>4. \A g \in Handler : ~InCommand(g) => page'[g] = page[g]
    BY <2>1 DEF WInv, Numbers, InCommand
  <2>5. ASSUME serving[h] \notin together PROVE Members(h)' /\ Progress(h)'
    <3>1. Members(h) /\ Progress(h) /\ wc[h] = "return"
      BY <1>5, <1>8, <2>5 DEF Return, At
    <3>2. writer = serving[h] /\ target[h] = ListOf(asked[h]) /\ page[h] = <<>>
      BY <3>1 DEF Members, Progress
    <3>3. target[h] # "none"
      BY <3>1 DEF Progress
    <3>4. page'[h] = Append(<<>>, line)
      BY <2>1, <3>1, <3>2
    <3>5. page'[h] = <<line>>
      BY <3>4
    <3>6. CASE asked[h].kind = "fetch"
      <4>1. body[h].from = 0 /\ asked[h].list = target[h]
        BY <3>1, <3>2, <3>6 DEF Progress, NoBody, ListOf
      <4>2. page'[h] = Answer(asked[h], serving[h])
        BY <3>3, <3>5, <3>6, <4>1 DEF Answer
      <4> QED
        BY <1>7, <3>1, <3>6, <4>2 DEF Members, Progress, Answer
    <3>7. CASE asked[h].kind = "update"
      <4>1. body[h].from = serving[h] /\ asked[h].format = "pb"
        BY <3>1, <3>7 DEF Progress
      <4>2. page'[h] = Answer(asked[h], serving[h])
        BY <3>2, <3>3, <3>5, <3>7, <4>1 DEF Answer, ListOf
      <4> QED
        BY <1>7, <3>1, <3>7, <4>2 DEF Members, Progress, Answer
    <3> QED
      BY <1>6, <3>6, <3>7
  <2> QED
    BY <1>1, <1>3, <1>7, <2>3, <2>4, <2>5, StageInv DEF Line
<1>9. CASE ReturnNone(h)
  <2> DEFINE line == [list |-> "invalid", from |-> 0]
  <2>1. page' = IF asked[h].kind = "fetch" THEN page
                ELSE [page EXCEPT ![h] = Append(@, line)]
    BY <1>9 DEF ReturnNone
  <2>2. line \in Line
    OBVIOUS
  <2>3. page' \in [Handler -> Seq(Line)]
    <3> HIDE DEF Line, line
    <3> QED
      BY <1>4, <2>1, <2>2
  <2>4. \A g \in Handler : ~InCommand(g) => page'[g] = page[g]
    BY <1>1, <1>4, <2>1
  <2>5. ASSUME serving[h] \notin together PROVE Members(h)' /\ Progress(h)'
    <3>1. Members(h) /\ Progress(h) /\ wc[h] = "none"
      BY <1>5, <1>9, <2>5 DEF ReturnNone, At
    <3>2. ListOf(asked[h]) = "none" /\ page[h] = <<>>
      BY <3>1 DEF Progress
    <3>3. CASE asked[h].kind = "fetch"
      <4>1. page'[h] = Answer(asked[h], serving[h])
        BY <2>1, <3>2, <3>3 DEF Answer, ListOf
      <4> QED
        BY <1>7, <3>1, <3>3, <4>1 DEF Members, Progress, Answer
    <3>4. CASE asked[h].kind = "update"
      <4>1. asked[h].format = "pb"
        BY <3>1, <3>4 DEF Progress
      <4>2. page'[h] = Append(<<>>, line)
        BY <1>4, <2>1, <3>2, <3>4
      <4>3. page'[h] = Answer(asked[h], serving[h])
        BY <3>2, <3>4, <4>1, <4>2 DEF Answer, ListOf
      <4> QED
        BY <1>7, <3>1, <3>4, <4>3 DEF Members, Progress, Answer
    <3> QED
      BY <1>6, <3>3, <3>4
  <2> QED
    BY <1>1, <1>3, <1>7, <2>3, <2>4, <2>5, StageInv DEF Line
<1> QED
  BY <1>8, <1>9

\* A request is answered: with an error, with its page, or with nothing after a command of another
\* resource.
LEMMA AnswerInv ==
  ASSUME WInv, NEW h \in Handler, LoadThrows(h) \/ Send(h) \/ RanOnce(h) PROVE WInv'
<1>1. InCommand(h) /\ serving[h] \notin together => Members(h) /\ Progress(h)
  BY DEF WInv, Alone
<1>2. CASE LoadThrows(h)
  <2> DEFINE sent == <<[list |-> "error", from |-> 0]>>
  <2>1. wc[h] = "load" /\ Leave(h, sent) /\ params.format # "pb" /\ InCommand(h)
    BY <1>2 DEF LoadThrows, At, InCommand
  <2>2. serving[h] \notin together => sent = Answer(asked[h], serving[h])
    BY <1>1, <2>1 DEF Members, Progress, Answer
  <2> QED
    BY <2>1, <2>2, LeaveInv
<1>3. CASE Send(h)
  <2>1. wc[h] = "send" /\ Leave(h, page[h]) /\ InCommand(h)
    BY <1>3 DEF Send, At, InCommand
  <2>2. serving[h] \notin together => page[h] = Answer(asked[h], serving[h])
    BY <1>1, <2>1 DEF Progress
  <2> QED
    BY <2>1, <2>2, LeaveInv
<1>4. CASE RanOnce(h)
  <2>1. wc[h] = "runonce" /\ Leave(h, page[h])
    BY <1>4 DEF RanOnce, At
  <2>2. page[h] = Answer(asked[h], serving[h])
    BY <2>1 DEF WInv, Numbers, InCommand, Answer
  <2> QED
    BY <2>1, <2>2, LeaveInv
<1> QED
  BY <1>2, <1>3, <1>4

\* A crash changes nothing else.
LEMMA TearInv == WInv /\ Tear => WInv'
<1> SUFFICES ASSUME WInv, Tear PROVE WInv'
  OBVIOUS
<1>1. /\ UNCHANGED <<requests, params, request, writer, wc, serving, asked, body, target, page,
                     together, wrong>>
      /\ torn' \in BOOLEAN
  BY DEF Tear, memberVars, taskVars, webHistory
<1>2. CommandTypes'
  BY <1>1 DEF WInv, CommandTypes
<1>3. Numbers'
  BY <1>1 DEF WInv, Numbers, InCommand
<1>4. Alone'
  BY <1>1 DEF WInv, Alone, InCommand, Members, Progress, Answer
<1> QED
  BY <1>1, <1>2, <1>3, <1>4 DEF WInv, AloneIsRight

-----------------------------------------------------------------------------
(***************************************************************************)
(* The theorems.                                                           *)
(***************************************************************************)
\* The command's invariant.
LEMMA WebSafety == WebSpec => []WInv
<1>1. WInv /\ [WebNext]_webVars => WInv'
  <2> SUFFICES ASSUME WInv, [WebNext]_webVars PROVE WInv'
    OBVIOUS
  <2>1. ASSUME NEW h \in Handler, Receive(h) PROVE WInv'
    BY <2>1, ReceiveInv
  <2>2. ASSUME NEW h \in Handler, SetParams(h) \/ SetRequest(h) \/ SetWriter(h) PROVE WInv'
    BY <2>2, MembersInv
  <2>3. ASSUME NEW h \in Handler, LoadMessage(h) \/ Find(h) PROVE WInv'
    BY <2>3, ReadInv
  <2>4. ASSUME NEW h \in Handler, Return(h) \/ ReturnNone(h) PROVE WInv'
    BY <2>4, WriteInv
  <2>5. ASSUME NEW h \in Handler, LoadThrows(h) \/ Send(h) \/ RanOnce(h) PROVE WInv'
    BY <2>5, AnswerInv
  <2>6. CASE MainPops \/ (\E t \in Thread : SetMainshow(t)) \/ \E h \in Handler : Merging(h)
    BY <2>6, CommandRests DEF MainPops, SetMainshow, Merging
  <2>7. CASE Tear
    BY <2>7, TearInv
  <2>8. CASE UNCHANGED webVars
    BY <2>8, CommandRests DEF webVars
  <2> QED
    BY <2>1, <2>2, <2>3, <2>4, <2>5, <2>6, <2>7, <2>8 DEF WebNext, Serve
<1> QED
  BY <1>1, WebInitInv, PTL DEF WebSpec

\* Types of the list and of the command, beside each other, and who holds mutex_.
THEOREM WebTypes == WebSpec => []WebTypeOK
<1>1. TypeOK /\ WInv => WebTypeOK
  BY DEF WInv, WebTypeOK
<1> QED
  BY <1>1, WebSafety, WebImplementsPlaylist, PlaylistTypes, PTL

\* Whatever earlier requests have left in the members, a request that no other one has met in the
\* command is answered as it should be.
THEOREM AloneAnswered == WebSpec => []AloneIsRight
<1>1. WInv => AloneIsRight
  BY DEF WInv
<1> QED
  BY <1>1, WebSafety, PTL
=============================================================================
