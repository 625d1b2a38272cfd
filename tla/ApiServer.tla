----------------------------- MODULE ApiServer -----------------------------
(***************************************************************************)
(* The HTTP API (cmd/api, handlers, services): concurrent requests, each   *)
(* served by a goroutine that is at one step of its handler.  Requests     *)
(* that post an RFQ save a row and publish a message; the others publish,  *)
(* read the table page by page, or ask the faucet.  The process has one    *)
(* channel to RabbitMQ: it may be missing from the start (queue is nil,    *)
(* Publish panics and the server's Recover answers 500), and once it is    *)
(* lost it is never opened again.                                          *)
(***************************************************************************)
EXTENDS Faucet

CONSTANTS
    MaxTime,        \* bound: seconds, the resolution of created_at
    PageSize        \* rows a reader asks for: 20 unless it says otherwise

ASSUME ApiAssumption == MaxTime \in Nat \ {0} /\ PageSize \in Nat \ {0}

VARIABLES
    route,          \* request -> the queue it publishes to, or "list", "faucet"
    createdAt,      \* request -> the time its handler began
    channel,        \* "nil", "open" or "closed"
    messages,       \* the requests whose message was published
    table,          \* the requests whose row is in the table rfqs
    page,           \* reader -> the rows it has been given, page after page
    known,          \* reader -> the rows in the table when it began (history)
    clock

apiVars == <<route, createdAt, channel, messages, table, page, known, clock>>

vars == <<faucetVars, apiVars>>

PostQueues == {"rfq.events", "rfq.quotes", "auction.events", "auction.bids", "aqua.liquidity"}

ApiTypeOK ==
    /\ FaucetTypeOK
    /\ at \in [Requests -> FaucetSteps \cup {"save", "publish", "page"}]
    /\ route \in [Requests -> PostQueues \cup {"none", "list", "faucet"}]
    /\ createdAt \in [Requests -> 0 .. MaxTime]
    /\ channel \in {"nil", "open", "closed"}
    /\ messages \subseteq Requests
    /\ table \subseteq {r \in Requests : route[r] = "rfq.events"}
    /\ page \in [Requests -> Seq(table)]
    /\ known \in [Requests -> SUBSET table]
    /\ clock \in 1 .. MaxTime

(* NewQueue failed or not; a nil queue is only logged. *)
ApiInit ==
    /\ FaucetInit
    /\ route = [r \in Requests |-> "none"]
    /\ createdAt = [r \in Requests |-> 0]
    /\ channel \in {"nil", "open"}
    /\ messages = {}
    /\ table = {}
    /\ page = [r \in Requests |-> << >>]
    /\ known = [r \in Requests |-> {}]
    /\ clock = 1

-----------------------------------------------------------------------------
(* The handlers: what a request with a readable body begins with.          *)

Begin(r, name, step) ==
    /\ Become(r, "idle", step)
    /\ route' = [route EXCEPT ![r] = name]
    /\ UNCHANGED <<nonce, price, nodeVars, channel, messages, table, page, clock>>

CreateRFQ(r) ==
    /\ Begin(r, "rfq.events", "save")
    /\ createdAt' = [createdAt EXCEPT ![r] = clock]
    /\ UNCHANGED known

(* The id of the path is ignored here and in PlaceBid: the body names one. *)
SubmitQuote(r) == Begin(r, "rfq.quotes", "publish") /\ UNCHANGED <<createdAt, known>>

(* MUTANT: the auction is saved into the table of RFQs. *)
CreateAuctionSaved(r) == Begin(r, "auction.events", "save") /\ UNCHANGED <<createdAt, known>>

CreateAuction(r) == Begin(r, "auction.events", "publish") /\ UNCHANGED <<createdAt, known>>

PlaceBid(r) == Begin(r, "auction.bids", "publish") /\ UNCHANGED <<createdAt, known>>

(* The message names auction 0, whatever the path says. *)
FinalizeAuction(r) == Begin(r, "auction.events", "publish") /\ UNCHANGED <<createdAt, known>>

ConnectLiquidity(r) == Begin(r, "aqua.liquidity", "publish") /\ UNCHANGED <<createdAt, known>>

WithdrawLiquidity(r) == Begin(r, "aqua.liquidity", "publish") /\ UNCHANGED <<createdAt, known>>

(* A client that asks for page after page. *)
BeginListing(r) ==
    /\ Begin(r, "list", "page")
    /\ known' = [known EXCEPT ![r] = table]
    /\ UNCHANGED createdAt

FaucetRequest(r) ==
    /\ RequestTokens(r)
    /\ route' = [route EXCEPT ![r] = "faucet"]
    /\ UNCHANGED <<createdAt, channel, messages, table, page, known, clock>>

-----------------------------------------------------------------------------
(* The services.                                                           *)

ServiceUnchanged == UNCHANGED <<nonce, price, nodeVars, route, createdAt, channel, known, clock>>

(* MUTANT: the message is on its way before the row is saved. *)
SaveRFQAfterwards(r) ==
    /\ \/ Become(r, "save", "publish") /\ table' = table \cup {r}
       \/ Become(r, "save", "error") /\ UNCHANGED table
    /\ messages' = IF channel = "open" THEN messages \cup {r} ELSE messages
    /\ UNCHANGED page
    /\ ServiceUnchanged

(* The insert succeeds; or it fails, which need not mean that it was not   *)
(* executed, and ends the request.                                         *)
SaveRFQ(r) ==
    /\ \/ Become(r, "save", "publish") /\ table' = table \cup {r}
       \/ Become(r, "save", "error") /\ table' \in {table, table \cup {r}}
    /\ UNCHANGED <<messages, page>>
    /\ ServiceUnchanged

Publish(r, ifFails) ==
    /\ \/ channel = "open" /\ Become(r, "publish", "ok") /\ messages' = messages \cup {r}
       \/ channel = "closed" /\ Become(r, "publish", ifFails) /\ UNCHANGED messages
       \/ channel = "nil" /\ Become(r, "publish", "error") /\ UNCHANGED messages
    /\ UNCHANGED <<table, page>>
    /\ ServiceUnchanged

(* For a created RFQ a failure is logged, and the answer is 201. *)
PublishRFQ(r) == route[r] = "rfq.events" /\ Publish(r, "ok")

PublishQuote(r) == route[r] = "rfq.quotes" /\ Publish(r, "error")

PublishAuction(r) ==
    route[r] \in {"auction.events", "auction.bids"} /\ Publish(r, "error")

PublishLiquidity(r) == route[r] = "aqua.liquidity" /\ Publish(r, "error")

(* MUTANT: in any order at all. *)
AnyListing(s) == TRUE

(* Rows as a query returns them: latest first, in any order among those of *)
(* the same second.                                                        *)
LatestFirst(s) == \A i, j \in DOMAIN s : i < j => createdAt[s[i]] >= createdAt[s[j]]

Listings ==
    {s \in [1 .. Cardinality(table) -> table] : IsInjective(s) /\ LatestFirst(s)}

(* One page: LIMIT PageSize OFFSET what was read before.  A short page is  *)
(* the last one.                                                           *)
ListRFQs(r) ==
    /\ at[r] = "page"
    /\ \E s \in Listings :
          LET read == Len(page[r])
              rows == SubSeq(s, read + 1, Min({read + PageSize, Len(s)}))
          IN  /\ page' = [page EXCEPT ![r] = @ \o rows]
              /\ at' = IF Len(rows) < PageSize THEN [at EXCEPT ![r] = "ok"] ELSE at
    /\ UNCHANGED <<messages, table>>
    /\ ServiceUnchanged

(* The connection to RabbitMQ is lost. *)
LoseChannel ==
    /\ channel = "open"
    /\ channel' = "closed"
    /\ UNCHANGED <<faucetVars, route, createdAt, messages, table, page, known, clock>>

Tick ==
    /\ clock < MaxTime
    /\ clock' = clock + 1
    /\ UNCHANGED <<faucetVars, route, createdAt, channel, messages, table, page, known>>

Serve(r) ==
    \/ SaveRFQ(r)
    \/ PublishRFQ(r) \/ PublishQuote(r) \/ PublishAuction(r) \/ PublishLiquidity(r)
    \/ ListRFQs(r)
    \/ (ReadNonce(r) \/ ReadPrice(r) \/ SendTransaction(r) \/ CallFails(r)) /\ UNCHANGED apiVars

Next ==
    \/ \E r \in Requests :
          \/ CreateRFQ(r) \/ SubmitQuote(r)
          \/ CreateAuction(r) \/ PlaceBid(r) \/ FinalizeAuction(r)
          \/ ConnectLiquidity(r) \/ WithdrawLiquidity(r)
          \/ BeginListing(r) \/ FaucetRequest(r)
          \/ Serve(r)
    \/ Mine /\ UNCHANGED apiVars
    \/ LoseChannel
    \/ Tick

Spec == ApiInit /\ [][Next]_vars

(* The node mines what it can. *)
FairSpec == Spec /\ WF_vars(Mine /\ UNCHANGED apiVars)

-----------------------------------------------------------------------------

(***************************************************************************)
(* A reader that pages to the end has been given every row that was there  *)
(* when it began, however many rows were inserted meanwhile, also rows     *)
(* with an earlier created_at than some it had read, unless another row    *)
(* is of the same second, which lets the two change places between pages.  *)
(***************************************************************************)
AloneInSecond(q) == \A p \in table \ {q} : createdAt[p] # createdAt[q]

PagesComplete ==
    \A r \in Requests :
        route[r] = "list" /\ at[r] = "ok" =>
            \A q \in known[r] : AloneInSecond(q) => q \in Range(page[r])

(***************************************************************************)
(* Answers are true.  A posted RFQ that is answered 201 has its row saved  *)
(* (its message may not be published: that is only logged).  Any other     *)
(* posting request that is answered with a success, the 201 of POST        *)
(* /auction too, which saves no row, has its message published.  No        *)
(* message of an RFQ goes out without its row.  And a request that is      *)
(* answered with a failure has published nothing; if it posted an RFQ, its *)
(* row may be in the table all the same.                                   *)
(***************************************************************************)
AnswersTrue ==
    \A r \in Requests :
        /\ route[r] = "rfq.events" /\ (at[r] = "ok" \/ r \in messages) => r \in table
        /\ route[r] \in PostQueues \ {"rfq.events"} /\ at[r] = "ok" => r \in messages
        /\ at[r] = "error" => r \notin messages
=============================================================================
