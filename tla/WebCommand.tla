----------------------------- MODULE WebCommand -----------------------------
(***************************************************************************)
(* The web server's handler threads at the /playlist command, over the     *)
(* mainshow of Playlist, which the main thread and /requirements/runonce,  *)
(* another command, fetch and pop meanwhile.  WebCommand keeps a request's *)
(* parameters, the request and its writer in members of the one object     *)
(* that all handler threads call.                                          *)
(*                                                                         *)
(* A request is known by its number.  Its resource, its overwrite and the  *)
(* page it sends are taken from arguments, all else through the members.   *)
(***************************************************************************)
EXTENDS Playlist

CONSTANTS
  Stored,                \* lists in the database
  Query,                 \* the requests that people make
  MaxRequests            \* bound: the requests made

\* The list that the parameters name, and the one whose id is in the body.  A list that is not found
\* is as none.
Queries == [kind : {"fetch", "update", "runonce"}, list : Stored \cup {"mainshow", "none"},
            body : Stored \cup {"none"}, overwrite : BOOLEAN, format : {"pb", "other"}]

ASSUME WebAssumption ==
  /\ Stored \cap {"mainshow", "none", "invalid", "error"} = {}
  /\ Query \subseteq Queries /\ MaxRequests \in Nat

VARIABLES
  requests,              \* how many have come
  params, request, writer, \* the command's members: a request's query, its body and its page
  wc, serving, asked,    \* each handler's next step, its request and what that asks for
  body, target,          \* the body it has read and the list it works on
  page,                  \* what is written to its request's page
  torn                   \* two threads have met at a member, and automation has crashed

\* History variables: the requests that were in the command together with another, and the requests
\* that were not answered as they should be.
VARIABLES together, wrong

memberVars == <<params, request, writer>>
taskVars == <<serving, asked, body, target, page>>
webHistory == <<together, wrong>>
commandVars == <<requests, memberVars, wc, taskVars, torn, webHistory>>
webVars == <<playlistVars, commandVars>>

\* A body, by the request it came with and the id in it.
Body == [from : Nat, id : Stored \cup {"none"}]
NoQuery == [kind |-> "fetch", list |-> "none", body |-> "none", overwrite |-> FALSE,
            format |-> "pb"]
NoBody == [from |-> 0, id |-> "none"]

WebInit ==
  /\ Init
  /\ requests = 0 /\ params = NoQuery /\ request = NoBody /\ writer = 0
  /\ wc = [h \in Handler |-> "idle"] /\ serving = [h \in Handler |-> 0]
  /\ asked = [h \in Handler |-> NoQuery] /\ body = [h \in Handler |-> NoBody]
  /\ target = [h \in Handler |-> "none"] /\ page = [h \in Handler |-> <<>>]
  /\ torn = FALSE /\ together = {} /\ wrong = {}

-----------------------------------------------------------------------------
(***************************************************************************)
(* WebCommand::handle_command sets the members one by one.                 *)
(***************************************************************************)
At(h, stage) == wc[h] = stage /\ ~ended /\ ~torn
Then(h, stage) == wc' = [wc EXCEPT ![h] = stage]

Others(h) == {serving[g] : g \in {g \in Handler \ {h} : wc[g] \notin {"idle", "runonce"}}}

Receive(h) ==
  /\ At(h, "idle") /\ op[h] = "idle" /\ requests < MaxRequests
  /\ requests' = requests + 1
  /\ serving' = [serving EXCEPT ![h] = requests']
  /\ \E q \in Query :
       /\ asked' = [asked EXCEPT ![h] = q]
       /\ \/ q.kind = "fetch" /\ Then(h, "params") /\ UNCHANGED playlistVars
          \/ q.kind = "update" /\ Then(h, "params") /\ Post(h)
          \/ q.kind = "runonce" /\ Then(h, "runonce") /\ SetTable(h)
       /\ together' = IF q.kind = "runonce" \/ Others(h) = {} THEN together
                      ELSE together \cup Others(h) \cup {requests'}
  /\ UNCHANGED <<memberVars, body, target, page, torn, wrong>>

SetParams(h) ==
  /\ At(h, "params")
  /\ params' = asked[h] /\ Then(h, "request")
  /\ UNCHANGED <<playlistVars, requests, request, writer, taskVars, torn, webHistory>>

SetRequest(h) ==
  /\ At(h, "request")
  /\ request' = [from |-> serving[h], id |-> asked[h].body] /\ Then(h, "writer")
  /\ UNCHANGED <<playlistVars, requests, params, writer, taskVars, torn, webHistory>>

SetFirstWriter(h) == \* mutant: a writer that is set already is kept
  /\ At(h, "writer")
  /\ writer' = IF writer = 0 THEN serving[h] ELSE writer
  /\ Then(h, IF asked[h].kind = "update" THEN "load" ELSE "find")
  /\ UNCHANGED <<playlistVars, requests, params, request, taskVars, torn, webHistory>>
SetWriter(h) ==
  /\ At(h, "writer")
  /\ writer' = serving[h]
  /\ Then(h, IF asked[h].kind = "update" THEN "load" ELSE "find")
  /\ UNCHANGED <<playlistVars, requests, params, request, taskVars, torn, webHistory>>

-----------------------------------------------------------------------------
(***************************************************************************)
(* What a request is to get: the list that it asks for, or the list that   *)
(* it changes by its own body.                                             *)
(***************************************************************************)
Answer(q, r) ==
  LET list_asked == IF q.list = "none" THEN q.body ELSE q.list
  IN CASE q.kind = "runonce" \/ (q.kind = "fetch" /\ q.list = "none") -> <<>>
       [] q.kind = "fetch" /\ q.list # "none" -> <<[list |-> q.list, from |-> 0]>>
       [] q.kind = "update" /\ q.format # "pb" -> <<[list |-> "error", from |-> 0]>>
       [] q.kind = "update" /\ q.format = "pb" /\ list_asked = "none" ->
            <<[list |-> "invalid", from |-> 0]>>
       [] OTHER -> <<[list |-> list_asked, from |-> r]>>

\* The handler returns, and the page it leaves is sent.
Leave(h, sent) ==
  /\ wrong' = wrong \cup
       IF sent = Answer(asked[h], serving[h]) THEN {}
       ELSE {[number |-> serving[h], kind |-> asked[h].kind]}
  /\ Then(h, "idle")
  /\ serving' = [serving EXCEPT ![h] = 0] /\ asked' = [asked EXCEPT ![h] = NoQuery]
  /\ body' = [body EXCEPT ![h] = NoBody] /\ target' = [target EXCEPT ![h] = "none"]
  /\ page' = [page EXCEPT ![h] = <<>>]
  /\ UNCHANGED <<requests, memberVars, torn, together>>

(***************************************************************************)
(* PlaylistCommand::handle_command.                                        *)
(***************************************************************************)
LoadMessage(h) ==
  /\ At(h, "load") /\ params.format = "pb"
  /\ body' = [body EXCEPT ![h] = request] /\ Then(h, "find")
  /\ UNCHANGED <<playlistVars, requests, memberVars, serving, asked, target, page, torn,
                 webHistory>>

\* It throws, and the web server sends an error instead of the page.
LoadThrows(h) ==
  /\ At(h, "load") /\ params.format # "pb"
  /\ Withdraw(h) /\ Leave(h, <<[list |-> "error", from |-> 0]>>)

\* FetchPlaylistFromParams, or else the id in the body; then ApplyMergeRequest clears the list for
\* overwrite.  Replace does not save mainshow; a stored list is Store's PlaylistUpdate.
Find(h) ==
  /\ At(h, "find")
  /\ LET update == asked[h].kind = "update"
         found == IF update /\ params.list = "none" THEN body[h].id ELSE params.list
     IN /\ target' = [target EXCEPT ![h] = found]
        /\ Then(h, IF found = "none" THEN "none" ELSE "return")
        /\ CASE update /\ found # "mainshow" -> Withdraw(h)
             [] update /\ found = "mainshow" /\ asked[h].overwrite -> MergeClear(h)
             [] OTHER -> UNCHANGED playlistVars
  /\ UNCHANGED <<requests, memberVars, serving, asked, body, page, torn, webHistory>>

\* CopyTo, which waits for mutex_, and ReturnMessage, to the page of whoever is served by the
\* member; a page that has been sent takes no more.
Return(h) ==
  /\ At(h, "return") /\ op[h] = "idle"
  /\ target[h] = "mainshow" => mutex = Nobody
  /\ page' = [g \in Handler |->
               IF wc[g] # "idle" /\ serving[g] = writer
               THEN Append(page[g], [list |-> target[h], from |-> body[h].from]) ELSE page[g]]
  /\ Then(h, "send")
  /\ UNCHANGED <<playlistVars, requests, memberVars, serving, asked, body, target, torn,
                 webHistory>>

\* There is no such list: a fetch writes nothing, an update's message goes to its own page.
ReturnNone(h) ==
  /\ At(h, "none")
  /\ page' = IF asked[h].kind = "fetch" THEN page
             ELSE [page EXCEPT ![h] = Append(@, [list |-> "invalid", from |-> 0])]
  /\ Then(h, "send")
  /\ UNCHANGED <<playlistVars, requests, memberVars, serving, asked, body, target, torn,
                 webHistory>>

Send(h) == At(h, "send") /\ Leave(h, page[h]) /\ UNCHANGED playlistVars

\* /requirements/runonce with SET_MAINSHOW has fetched mainshow.
RanOnce(h) ==
  /\ At(h, "runonce") /\ op[h] = "idle"
  /\ Leave(h, page[h]) /\ UNCHANGED playlistVars

-----------------------------------------------------------------------------
(***************************************************************************)
(* Two threads at one member, of which one writes it: what they read is    *)
(* undefined, and may end automation.                                      *)
(***************************************************************************)
Sets(h) == {wc[h]} \cap {"params", "request", "writer"}
Reads(h) ==
  CASE wc[h] = "load" -> {"params", "request"}
    [] wc[h] = "find" -> {"params"}
    [] wc[h] = "return" -> {"params", "writer"}
    [] OTHER -> {}

Tear ==
  /\ ~ended /\ ~torn
  /\ \E g \in Handler : \E h \in Handler \ {g} : Sets(g) \cap (Sets(h) \cup Reads(h)) # {}
  /\ torn' = TRUE
  /\ UNCHANGED <<playlistVars, requests, memberVars, wc, taskVars, webHistory>>

-----------------------------------------------------------------------------
\* A handler's steps in a command; its next step in the merge; SET_MAINSHOW of the schedule and of
\* a request; the main thread plays a show.
Serve(h) ==
  \/ SetParams(h) \/ SetRequest(h) \/ SetWriter(h)
  \/ LoadMessage(h) \/ LoadThrows(h) \/ Find(h)
  \/ Return(h) \/ ReturnNone(h) \/ Send(h) \/ RanOnce(h)
Merging(h) == At(h, "return") /\ (MergeSize(h) \/ MergeEntry(h)) /\ UNCHANGED commandVars
SetMainshow(t) ==
  /\ ~torn /\ (t = Main \/ op[t] # "idle")
  /\ Fetch(t) /\ UNCHANGED commandVars
MainPops == ~torn /\ Pop(Main) /\ UNCHANGED commandVars

\* What a thread that has begun something goes on with.
GoesOn(t) ==
  \/ op[t] # "idle" /\ SetMainshow(t)
  \/ t = Main /\ op[t] # "idle" /\ MainPops
  \/ t \in Handler /\ (Serve(t) \/ Merging(t))

WebNext ==
  \/ MainPops \/ Tear
  \/ \E t \in Thread : SetMainshow(t)
  \/ \E h \in Handler : Receive(h) \/ Serve(h) \/ Merging(h)

\* A thread that can go on does; one that waits for mutex_ gets it when it comes free often enough.
WebSpec == WebInit /\ [][WebNext]_webVars /\ \A t \in Thread : SF_webVars(GoesOn(t))

-----------------------------------------------------------------------------
(***************************************************************************)
(* Properties.                                                             *)
(***************************************************************************)
CommandTypes ==
  /\ requests \in Nat /\ params \in Queries /\ request \in Body /\ writer \in Nat
  /\ wc \in [Handler -> {"idle", "params", "request", "writer", "load", "find", "return", "none",
                         "send", "runonce"}]
  /\ serving \in [Handler -> 0 .. requests] /\ asked \in [Handler -> Queries]
  /\ body \in [Handler -> Body] /\ target \in [Handler -> Stored \cup {"mainshow", "none"}]
  /\ page \in [Handler -> Seq([list : Stored \cup {"mainshow", "none", "invalid"}, from : Nat])]
  /\ wrong \subseteq [number : 1 .. requests, kind : {"fetch", "update", "runonce"}]
  /\ together \subseteq 1 .. requests /\ torn \in BOOLEAN

\* The type invariant, of the list and of the command.
WebTypeOK == TypeOK /\ CommandTypes

\* A request that has the command's members to itself gets its own answer, once, whatever the
\* members keep of the requests before it.
AloneIsRight == \A w \in wrong : w.number \in together

\* Every request is answered, unless automation ends: nobody keeps mutex_, or waits for what only a
\* waiting thread could do.
EveryRequestAnswered ==
  \A r \in 1 .. MaxRequests :
    requests >= r ~> (\A h \in Handler : serving[h] # r) \/ ended \/ torn

(***************************************************************************)
(* What documentation says, and the code does not do.                      *)
(***************************************************************************)
\* apidocs.txt: /playlist/fetch "Returns an automation::Playlist object representing the ..."
\* playlist that it is asked for.
FetchReturnsItsList == \A w \in wrong : w.kind # "fetch"
=============================================================================
