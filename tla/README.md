# rocket-lab in TLA+

rocket-lab takes orders for space ships. Three Go services work together: the
**order service** (HTTP), which keeps the orders, and the **inventory** and
**payment** services (gRPC), which it calls. This directory holds a model of
the system in TLA+, the TLC configurations that check it on small instances, and
proofs, checked by TLAPS, of what holds for every size of it.

## The system

| component | source | state | operations |
|---|---|---|---|
| order handlers | `order/pkg/handler/handler.go` | per request: decoded request, the copy of the order taken under the lock, the call under way | `GetOrder`, `CreateOrder`, `PayOrder`, `CancelOrder` |
| order store | same, `OrderStore` | map of orders under a `RWMutex` | a lookup under `RLock`, an assignment under `Lock` |
| order process | `order/cmd/main.go` | up, draining after a signal, down | start, signal, `Shutdown` with a deadline, exit |
| payment service | `payment/pkg/service/service.go` | none but its log: a line per payment | `PayOrder` |
| inventory service | `inventory/pkg/service/service.go` | map of parts, filled at start, never written | `GetPart`, `ListParts` |
| gRPC processes | `inventory/cmd/main.go`, `payment/cmd/main.go` | listening, stopping | serve, signal, `GracefulStop` |
| interceptors | `*/internal/interceptor` | none | recover a panic into `Internal`; log |
| generated HTTP server | `shared/pkg/openapi/order/v1` (ogen) | none; the connection is the library's | route, decode, validate, encode, refuse |
| API client | same, `oas_client_gen.go` | none | encode and send, decode and validate the answer |
| JSON codec | same, `oas_json_gen.go` | per document: the message so far, a bit set of the required members | `Decode` and `Encode` of seven message types |
| generated protobuf code | `shared/pkg/proto` | none | messages, enums, stubs |
| API description | `shared/api/order/v1` | - | what clients are promised |

How they interact: every HTTP request runs in a goroutine. `CreateOrder` calls
`ListParts` of the inventory, `PayOrder` calls `PayOrder` of the payment
service, each with a context of 5 seconds; all handlers share the store. Nothing
else is shared and nothing is persisted.

What is hard here:

- `PayOrder` and `CancelOrder` look an order up under the lock, **let the lock
  go**, and later assign the copy they took. In between, `PayOrder` waits up to 5
  seconds for another service. Whatever another handler stored is overwritten.
- A payment may be made although the handler has answered 500, or has died with
  its process. The payment service remembers nothing, so a retry charges again.
- The map of orders dies with the process; the payments do not.
- Shutdown has a deadline of 10 seconds, reading a request one of 15.
- The payment method changes its representation three times on its way from the
  request to the map.
- The inventory visits a map in an order that changes, and sorts unstably.
- The decoders keep the required members as bits of bytes, with a mask for each byte.
- A request has two ends: a handler goes on without its client, and a client may wait
  for a process that is gone. Neither the client nor `GracefulStop` has a deadline.

What makes each component correct:

- *handlers and store*: what an order says of its payment is true; what was
  announced is what is stored; a settled order stays settled; every request is
  answered; and, as the API promises, an order is paid or cancelled once.
- *order process*: a signal stops it, as no handler keeps it for ever; a restart leaves no order half made.
- *payment service*: each payment belongs to a request that was not refused.
- *inventory*: the answer depends on the request and the catalog only.
- *HTTP and JSON*: what one side says is what the other side hears; a request that
  is refused has touched nothing; what reaches a handler is what it relies on.
- *gRPC process*: a call it took is answered, panics and stops notwithstanding; it
  is served once at most.

## Modules

`A -> B`: A EXTENDS B; `A => B`: A is shown to implement B (INSTANCE).

    RocketLab -> OrderService -> Inventory -> Uuids
         \-----> Payment --------------------> Uuids
    SerialClients -> RocketLab                   SerialClients => OrderApi
    HttpApi -> RocketLab, OrderHttp              HttpApi => RocketLab
    OrderHttp -> OrderService, OrderJson -> Uuids
    JsonDecoder -> OrderJson
    GrpcServer -> Payment                        GrpcServer => PaymentCalls -> Payment
    OrderStore                                   OrderStore => AtomicStore
    InventoryServer -> Inventory

The core:

- **Uuids**: the identifiers, those that parse and those `uuid.New` may mint. A
  version 4 UUID is never minted twice: this is the one thing assumed of chance.
- **Inventory**: the answers of `GetPart` and `ListParts` as operators over a
  constant catalog, and the catalog `NewInventoryServer` loads. Names of
  parts are ranks in the order of Go strings.
- **Payment**: the payment service. `ledger` is the set of its log lines.
- **OrderService**: the handlers and the process. `orders` is
  `OrderStore.orders`; `pc[r]`, `req[r]`, `snap[r]` and `rpc[r]` are the
  goroutine of request `r`: where it stands, what was decoded, its copy of the
  order, its call; `reply[r]` is what it returned, and stays as a history.
- **RocketLab**: the composition with the payment service, the specification,
  and the properties.

Around it, each module opens one thing the core takes as one step:

- **OrderStore**: the map under its `RWMutex`. The lock is modelled as `sync`
  documents it: a queue of writers, the readers that hold it and those a writer keeps
  out. A lookup or assignment that overlaps another assignment may find or leave
  anything. **AtomicStore** is the map as OrderService has it.
- **InventoryServer**: `GetPart` and `ListParts` loop by loop, with the order of the map
  and of equal names left open, shown to compute the operators of Inventory. The parts
  by type are a first loop over the map, a second one that filters its result into a slice
  of its own, and a sort in place.
- **GrpcServer**: the payment process as a gRPC server with its interceptors: a call is
  taken, handled or panics, unwinds, is recovered, answered; the process gets a signal,
  stops gracefully, is killed, starts. The caller may give up any time.
  **PaymentCalls** is the call as RocketLab is composed with it.
- **OrderJson**: the messages as schemas; which objects are well-formed, the message each
  stands for, and `Encode`. **JsonDecoder**: the `Decode` methods as they run, member by
  member and then byte by byte of the bit set.
- **OrderHttp**: between a wire and a handler, as operators: routes, path parameters,
  bodies, `Validate`, the default error handler, the encoding of each Go type a handler
  may return, and all of the client. **HttpApi**: clients and connections around
  RocketLab: `wire[r]` is what was sent, `resp[r]` what came back, `got[r]` what the
  client made of it.
- **OrderApi**: what the API promises: each request takes effect in one step.
  **SerialClients**: the system when no two requests about one order overlap, and
  the mapping under which it implements OrderApi.

Proofs are in **RocketLabProofs**, **SerialClientsProofs**, **OrderStoreProofs**,
**GrpcServerProofs**, **InventoryServerProofs**, **JsonDecoderProofs**,
**OrderJsonProofs** and **HttpApiProofs**; the instances for TLC in the modules whose
names begin with **MC**.

Operators called a *mutant* in their comment are the same definition with a
plausible mistake in it. Nothing uses them; put in the place of the original they
make a property fail, which shows that the property depends on that code.

### How the handlers correspond to the code

A step is what happens between two points at which another goroutine, or another
service, can interfere. A critical section of the store is one map operation and
so one step; the rest of a handler touches only its own variables and joins the
step before or after it.

| code (`handler.go`) | action |
|---|---|
| `GetOrder` 73-120 | `GetOrder` |
| `CreateOrder` up to `ListParts` 125-155 | `CreateCall` |
| any error of `ListParts` 156-161 | `CreateFail` |
| a part out of stock 163-187 | `CreateConflict` |
| price, identifier, assignment, 201 176-213 | `CreateStore` |
| lookup, 404 222-232, 310-319 | `Refuse404` |
| status check, 409 235-254, 321-334 | `Refuse409` |
| pending: copy, call 256-281 | `PayCall` |
| answer, assignment, 200 288-303 | `PayCommit` |
| error of the call, 500 282-287 | `PayFail` |
| `CancelOrder` up to its copy 309-336 | `CancelRead` |
| assignment, 200 338-342 | `CancelWrite` |

The process (`main.go`): `Arrive` is a request on a connection the open listener
accepted, `Abandon` a request that is never read or whose client goes away first,
`Signal` wakes `main` up, `Exit` is the return of `Shutdown` and of `main`, `Crash`
a kill, `Start` a new process with an empty store. `ServePayment` is the payment
service taking up a call: once at most, at any time after it was sent, even
when nobody waits for it any more.

Choices worth knowing:

- `CreateFail` and `PayFail` may happen at any time while a call is under way:
  the deadline may pass, the connection may be down, the client may be gone (the
  context of the call is that of the request). The 10 seconds of the middleware are
  longer than the 5 of a call and add no behaviour.
- The write timeout of 15 seconds and a connection that breaks are one and the same to a
  client: `Lose` in HttpApi. In RocketLab a client that hears nothing and asks again is
  another `r`.
- When `middleware.Timeout` finds its context over after the handler has returned it writes a
  504 after the answer, which `net/http` drops; it is not modelled.
- An unread request is `Abandon`, to which HttpApi adds what its client sees (`NotRead`).
- Branches no request reaches are left out: an empty UUID string (142-147; a
  `uuid.UUID` is never printed as ""), a status outside the three (249-253), a
  method outside the four (267-268, refused by the generated validator), a number
  of parts that differs from that of the identifiers (163-168; the service answers
  one for each). The conjunct of the last stays in `InStock`.
- A panic of a handler is left out: only `uuid.New` in `CreateOrder` (190) could cause one,
  before anything is stored and in a request that charges nothing, and the Go version of
  `go.mod` ends the process when there is no randomness, which `Crash` has.
- `CreatedAt`, texts of errors, and logs are left out. Prices are a few million
  kopecks: `int64` does not overflow.

## Runs

| run | checks | bounds | states |
|---|---|---|---|
| `settling` | `IInv`, `SaidInv`, `TypeOK`, `PaidMeansCharged`, `ChargesAccountedFor`, `SettledMeansAnswered`, `PaymentAcceptsOurCalls`, `StoreMatchesAnswers`, `OrdersKept` | 4 requests, 2 orders, 3 payments, 3 ships, all operations | 115 000 |
| `serial` | `SerialInv`, `PaidOnce`, `KeepsPromise` | 4 requests, 1 order, 3 payments, 2 methods, one request per order at a time | 25 000 |
| `store` | `LockInv`, `MutualExclusion`, `StoreIsAtomic`, `EveryoneGetsThrough` | 4 threads, 1 key, 2 values | 58 000 |
| `grpc` | `GrpcInv`, `TakenIsAnswered`, `ServesCalls`, `StopEnds` | 2 calls, 3 transactions, 3 kinds of request | 12 000 |
| `http` | `HttpInv`, `HttpTypeOK`, `UndecodableMeansUntouched`, `AnswersAreFaithful`, `RequestsArriveIntact`, `PaidAsTold`, `ServesAsModelled`, `RequestsEnd`, `ShutdownEnds` | 2 requests, 1 order, 1 payment, 15 requests on the wire | 82 000 |
| `json` | `DecoderInv`, `DecodesAsSpecified`, `NamesWhatIsMissing`, `RoundTrip` | all seven types, documents that lack up to 3 members or have at most one, repeat or add one (two where a type is small), 6 values | 255 000 |
| `inventory` | `ServerInv`, `AnswersAsSpecified`, `ListIsCompleteAndSorted` | 6 parts, 2 of one name, lists of up to 3 of 5 identifiers | 20 000 |
| `cancel_paid`, `pay_cancelled`, `pay_twice` | `PaidIsNotCancelled`, `CancelledIsNotPaid`, `PaidOnce`: **violated** | 3 requests, 1 order | |
| `create_404` | `NotFoundMeansMissing`: **violated** | 3 requests | |
| `bad_request` | `BadRequestsAreErrors`: **violated** | 2 requests | |

Why the bounds are enough.

- *settling*, *serial*: an order needs one request to be made, two to race, and one to
  look or to try again, which is four. Requests about different orders share nothing but
  the map, whose entries are independent. Three payments are as many as three requests to
  pay can cause. The ships are the cases of `CreateOrder`: all four places with a part used
  twice, one out of stock, one unknown. A process may stop and start any number of times;
  a request identifier is used once.
- *store*: two writers that queue, a reader that holds the lock and one that is kept out.
  Keys are independent: the lock is one for all, so one key is the hardest case.
- *grpc*: one call panics, or waits, while the other is under way.
- *http*: what two requests share is all in the handlers, which `settling` has with four;
  here one makes an order and the other asks anything of it. The wires are what the
  generated client sends for each operation, and one request for each thing routing,
  decoding and validation look at.
- *json*: the members are decoded one at a time, and `OrderDto` is the only type whose
  bits take two bytes. The proof covers documents of any length.

Requests, orders and transactions are only compared, so the safety runs of MCRocketLab use
symmetry; the runs that check liveness do not. No action bounds a counter, and none is
left out by a constraint. Deadlock is checked wherever the system goes on: a process can
always be killed or started, and a handler may always come to the store. The runs of
InventoryServer and JsonDecoder make one call and stop.

Two properties say less than their names might suggest. `ChargesAccountedFor` traces every
charge to one request that was not refused; it does not bound the charges of an order, since a
client that asks again after a 500 may be charged again. `PaidOnce` counts requests answered
200, not charges, for the same reason.

**Fairness.**

- `HttpFairness`: the goroutine of a connection that can go on does (`ServeConnection`):
  reading ends with `ReadTimeout`, a call with its context of 5 seconds, and the lock is
  held for one map operation at a time. A client reads what has come. `Shutdown` returns
  once every connection was served (`Drained`). That its deadline ends it before (`Exit`, at
  any time) is possible but not assumed, so that `ShutdownEnds` shows what the deadlines of
  reading and of the calls are worth. Nothing is assumed of the payment service, of lost
  connections, or of crashes and restarts; nor of a deadline of the client's, which has none.
- `FairGrpcSpec`: the goroutine of a call that was taken goes on, since the handler waits
  for nothing, and `GracefulStop` returns once it can. Callers need not receive.
- `FairSpec` of OrderStore: a goroutine that can run is run; whether it can is up to the lock.
  Nobody has to come to the store.

### What the violated runs show

Each states what a document or a test of the repository says, and TLC finds
concurrent requests, a slow service or a bad request that refute it:

- `cancel_paid`: `CancelOrder` reads a pending order, `PayOrder` pays it, and
  `CancelOrder` assigns its copy. "Отменяет заказ, который ещё не был оплачен"
  (`order_cancel.yaml:3`). The transaction is gone from the order as well.
- `pay_cancelled`: the order is cancelled, and reported cancelled, while `PayOrder`
  waits. The order ends PAID. "Пытаемся оплатить отменённый заказ — должна быть
  ошибка конфликта" (`api_test.go:824`).
- `pay_twice`: two requests to pay are answered 200, with two transactions.
  "Пытаемся оплатить повторно — должна быть ошибка конфликта" (`api_test.go:803`),
  "Заказ уже оплачен или отменён" (`order_pay.yaml:35`).
- `create_404`: the inventory is slow, and parts that exist are "not found".
  "Компонент не найден" (`orders.yaml:27`).

- `bad_request`: a request that is not decoded is answered by ogen's default error
  handler. The 400 it writes has an `error_message` and neither `code` nor `message`, which
  the schema `Error` requires (`order_pay.yaml:22`, `components/errors/error.yaml`): the
  generated client cannot read it.

The tests send one request after the other, which is why they pass: the run
`serial` shows, and SerialClientsProofs proves, that for such clients the API keeps its
promise. (Two
cancellations that overlap are both answered 200 as well, where
`api_test.go:914` expects a conflict; the order is cancelled all the same.)

## Proofs

All theorems are about every value of the constants: any catalog, any sets of requests,
identifiers, transactions, threads, calls, documents and wires, finite or not (but the
catalog, which is finite). The assumptions are those named in the modules, and TLC
evaluates all of them:

- `UuidAssumption`: what parses, and that an absent value is no identifier.
  `NoneAssumption`, `OrderAssumption`, `RepliesAssumption`: an absent value is no method,
  no order, no reply. `AbsentAssumption`: nobody is no thread.
- `InputsAssumption`: what the generated decoder and validator let through. The theorem
  `ServesAsRocketLab` and the run `http` show that they let through nothing else.
- `CatalogAssumption`: the catalog is a finite map of parts under their own identifiers.
- `CallsAssumption`, `DocumentsAssumption`, `WiresAssumption`: the shape of a gRPC request,
  of a document (a sequence), of a request on the wire (one of the five paths, with some
  text where the path has a parameter).
- `TextsAssumption`: the text of an identifier that is in the system is the one
  `UUID.String` writes. A `uuid.UUID` is 16 bytes and has no other.
- `AskedAssumption`: the inputs of RocketLab include whatever the bodies and paths of
  the wires of HttpApi say, by one of the four methods. It ties two constants to each other
  and says nothing of what the server does with a body or a method it should refuse.

| module | theorem | states |
|---|---|---|
| RocketLabProofs | `Invariance`, `TypeCorrect`, `PaidOrdersWereCharged`, `ChargesBelongToRequests`, `CallsAreAccepted` | `IInv` and its parts |
| | `SaidInvariance`, `SettledOrdersWereAnswered`, `LateCopiesKeepOrders` | `SaidInv`, `SettledMeansAnswered`, `OrdersKept` |
| | `OrdersAreAsAnswered` | `StoreMatchesAnswers`, what was announced and what it cost |
| SerialClientsProofs | `SerialInvariance`, `SerialClientsPayOnce`, `SerialClientsGetThePromise` | `SerialInv`, `PaidOnce`, and the refinement `KeepsPromise` |
| OrderStoreProofs | `LockInvariance`, `HandlersExclude`, `CriticalSectionsAreSteps` | `LockInv`, `MutualExclusion`, and the refinement `StoreIsAtomic` |
| GrpcServerProofs | `GrpcInvariance`, `TakenCallsAreAnswered`, `CallsAreServed` | `GrpcInv`, `TakenIsAnswered`, and the refinement `ServesCalls` |
| InventoryServerProofs | `ServerInvariance`, `HandlersAnswerAsSpecified`, `ListsAreCompleteAndSorted` | `ServerInv`, `AnswersAsSpecified`, `ListIsCompleteAndSorted` |
| JsonDecoderProofs | `DecoderInvariance`, `DecodersDecode`, `MissingAreNamed`, `MessagesSurvive` | `DecoderInv`, `DecodesAsSpecified`, `NamesWhatIsMissing`, `RoundTrip` |
| OrderJsonProofs | `EncodingsAreRead` | `Encode`, then `Message`, is the identity on the messages of any schema |
| HttpApiProofs | `ServesAsRocketLab` | the refinement `ServesAsModelled` |
| | `HttpInvariance`, `HttpTypesAreCorrect`, `UnreadableMeansNothingDone`, `ClientsAreToldTheTruth`, `RequestsAreHandledAsAsked`, `PaidClientsWereCharged` | `HttpInv`, `HttpTypeOK`, `UndecodableMeansUntouched`, `AnswersAreFaithful`, `RequestsArriveIntact`, `PaidAsTold` |

With these every safety property a passing run checks is a theorem, every action property and
every refinement.

**IInv.** `PaidMeansCharged` is not inductive: a handler that waits assigns
later what it read before. `CopiesArePending` says what such a copy is: a real
order, pending, with no transaction in it. `CallsAreTracked` says what a call is: it was
made by a request to pay that is still waiting, or dead, or answered 500, or
answered 200 with the transaction of the call; an answered call is on the ledger
with its order and method, under a transaction of its own. Together with the
round trip of the method (`MethodsConvert`) they make every assignment of the
handlers agree with the ledger (`BooksAgree`), and let a fresh payment be added.
The actions are grouped by what they have in common: those that return
(`ReturnPreserves`, with `WritePreserves` for those that also assign), those that only
move or end a handler (`MovePreserves`), and the four of their own: arrival, the
copy, the payment service, the process.

**SaidInv**, on top of it: `CopiesAgree`, the copy a handler holds is of an order still
in the map, with its parts and price, so that a late assignment changes neither;
`OrdersAnnounced`, so that a new identifier cannot meet an order; `SettledWereMinted`, so
that it cannot meet an old answer. `ReturnFrame` says what a return leaves alone;
`AnswerSays`, `CreateSays` and `SettleSays` are the three kinds of return.

**SerialInv**: with one request per order at a time the copy a handler holds *is* what the map
holds (`CopiesAreCurrent`), which `OneAtATime` carries from step to step. The order is
then pending when it is settled, and by `SettledMeansAnswered` nobody was told otherwise:
`PaidOnce`. `TxnsWereTold` says that a transaction is first told to the client whose call it
answers, so the one PayOrder tells is new, as `OrderApi!Pay` demands. Each action is then an
action of OrderApi (`MapsArrive` to `MapsGone`) or unseen by the clients (`Unseen`).

**LockInv**: the writer is the first in the queue and came in when no reader was there. Under
mutual exclusion a lookup finds what the map has and an assignment leaves what it was
given, which makes `Lookup` and `Assign` the steps of AtomicStore.

**GrpcInv**: how far a call is and what has been made of it agree; only a call that passed the
checks panics, and it has charged nothing then.

**DecoderInv**: after the members before `at` the message has the last mention of each, and a
bit is set just if its member was mentioned. `DecodersFit` checks the tables of each of the
seven types: each required member has a bit of its own, and each bit of a mask a member.

**StoreMatchesAnswers**, the price. `TotalPrice` is a fold, that is a recursive function over
the sets of places, of which there are two to four (`PartIdsAre`). `PriceOfPlaces` gives the
function that solves its recursion, the sum over the places of a set (`AtMostFour`,
`TermTakenOut`), and shows that any solution sums up all of them. That the terms are the
prices of the catalog needs what the inventory answers, a part for each identifier
(`AnswerHasParts`), and that `partsMap` is the catalog for them (`PartsMapIsCatalog`).

**EncodingsAreRead**. `Encode` is a recursive function, and the induction theorems of the
library cannot be used: they take an operator as a parameter. What they rest on can: a claim
about a prefix that fails has a shortest prefix for which it fails (`FirstFailure`, from the
well-foundedness of the strict subsets of a finite set), which one unfolding refutes.
`EncoderWrites` shows so that the recursion has a solution, `EncodeWrites` that a member is
in the document just if it is set, once, as itself. `MessagesSurvive` joins it with
`DecodersDecode`. **MissingAreNamed**: the bits that are left over are named along the bytes,
in the order of the members' numbers.

**ServerInv**: of each loop, what was gathered and what is yet to come are disjoint, repeat
nothing, and make up what the loop began with; a loop over identifiers has looked up those
before, so that a bad one is the first. An answer by type is the one the operator of Inventory
says, because two sorted lists of one set, no two of equal name in one of them, are the
same: `OneOrder` looks at the first place at which they differ.

**HttpInv**: before a client sends there is nothing; a handler runs for what was decoded from
the wire; a handler that returned answered what its operation answers (`AnswerOf`), and told
the transaction of its call; what came back is, by how far the request got, nothing, the end of
the connection, a refusal, or the encoded reply; and the client made of it what it was.
`Served` says what `Serve` lets through, `RequestsAreServed` that it undoes what the
generated client does, `AnswersAreRead` that the client undoes `EncodeReply`, each operation
by the schemas of its messages (`CreateOrderRequestIs` to `CancelOrderResponseIs`) and
`EncodingsAreRead`; `RefusalsAreNotRead` and `ErrorHandlerIsNotRead` that nothing else passes
for an answer. `HandlerMoves` is what a step of a handler does to its own request and no
other, from which, and `IInv` and `SaidInv`, each step keeps the connections as they should be.

Only model-checked, since no prover here reaches it: liveness under fairness, that is
`RequestsEnd`, `ShutdownEnds`, `StopEnds`, `EveryoneGetsThrough`.

## Not modelled

- The inventory process as a process: it is the payment process of GrpcServer, word for
  word, around a service that changes no state, so a call to it that is slow, panics or
  gets lost is an error at any time, which `CreateFail` has.
- Descriptors and the wire format of protobuf, lexing of JSON, the escaping of paths: the
  libraries'.
- `FindPath` and the middleware hook of the generated server, which nothing here uses;
  metrics, spans and the log, which change no state; ports, dialing and the seed's texts.
- The test utilities. Tests are quoted where they state a property.

## What could come next

1. The inventory process as an instance of a gRPC server with GrpcServer's, so that
   `CreateFail` is derived and not assumed.
2. The safety properties of RocketLab stated of HttpApi, by what clients were told
   (`got`) instead of what handlers returned (`reply`); `PaidAsTold` is the first.
