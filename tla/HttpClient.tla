----------------------------- MODULE HttpClient -----------------------------
(***************************************************************************)
(* httpClient (http/internal/httpsp/client.go): a shared client, from      *)
(* which goroutines derive one client per request with New, the builder    *)
(* methods, and Receive and Request with their attempts.  A value carries  *)
(* the call it was set for, so that a request tells where its parts come   *)
(* from.  Header maps are references, as in Go.                            *)
(***************************************************************************)
EXTENDS Integers, Sequences, SequencesExt

CONSTANTS
  Client,      \* goroutines, each with the client it has derived
  Shared,      \* the client they derive from
  RetryArgs,   \* values WithRetry is called with
  MaxSetters,  \* bound: builder calls
  MaxCalls     \* bound: calls of New

ASSUME HttpAssumption ==
  /\ Shared \notin Client /\ RetryArgs \subseteq Int
  /\ MaxSetters \in Nat /\ MaxCalls \in Nat

Kind   == {"json", "xml", "form", "multipart", "bytes"}
Status == {"2xx", "4xx", "5xx"}
NoBody == [kind |-> "none", boundary |-> 0]
Bad    == <<"bad">>  \* a header or query struct that is not a struct

VARIABLES
  options,   \* of the shared client: its base URL is set, retries
  call,      \* number of the call a client was derived for
  pc,
  builder,   \* fields of a derived client
  header,    \* header maps, by the client that made them
  setters,
  mode,      \* arguments of Receive or Request
  sent,      \* requests of the call, one per attempt
  outcomes,  \* what became of each
  unclosed,  \* attempts whose response body is open
  result     \* what the caller got

client == <<call, builder, header, setters>>
vars   == <<options, client, pc, mode, sent, outcomes, unclosed, result>>

Tag(c) == IF c = Shared THEN <<c, 0>> ELSE <<c, call[c]>>

Fresh(c) == [header |-> c, url |-> options.url, path |-> FALSE, query |-> <<>>,
             headerStructs |-> <<>>, cookies |-> <<>>, bodies |-> {}]

(* WithRetry: negative counts are clamped.                                 *)
Unclamped(n) == n  \* mutant
WithRetry(n) == IF n < 0 THEN 0 ELSE n

(* NewHTTPClient.                                                          *)
Init ==
  /\ options \in [url : BOOLEAN, maxRetries : {WithRetry(n) : n \in RetryArgs}]
  /\ call = [c \in Client |-> 0] /\ setters = 0
  /\ pc = [c \in Client |-> "idle"]
  /\ builder = [c \in Client |-> Fresh(Shared)]
  /\ header = [c \in Client \cup {Shared} |->
                 [type |-> NoBody, values |-> IF c = Shared THEN <<Tag(c)>> ELSE <<>>]]
  /\ mode = [c \in Client |-> [of |-> "Receive", decode |-> FALSE]]
  /\ sent = [c \in Client |-> <<>>] /\ outcomes = [c \in Client |-> <<>>]
  /\ unclosed = [c \in Client |-> {}]
  /\ result = [c \in Client |-> [resp |-> "none", err |-> "none"]]

-----------------------------------------------------------------------------
(* New and the builder methods.                                            *)

NewCall(c) ==
  /\ pc[c] \in {"idle", "returned"}
  /\ FoldFunction(+, 0, call) < MaxCalls /\ call' = [call EXCEPT ![c] = @ + 1]
  /\ pc' = [pc EXCEPT ![c] = "building"]
  /\ sent' = [sent EXCEPT ![c] = <<>>] /\ outcomes' = [outcomes EXCEPT ![c] = <<>>]
  /\ unclosed' = [unclosed EXCEPT ![c] = {}]
  /\ UNCHANGED <<options, setters, mode, result>>

(* Mutant: the header map of the shared client is used as it is.           *)
NewSharesHeader(c) ==
  /\ NewCall(c)
  /\ builder' = [builder EXCEPT ![c] = Fresh(Shared)]
  /\ UNCHANGED header

New(c) ==
  /\ NewCall(c)
  /\ builder' = [builder EXCEPT ![c] = Fresh(c)]
  /\ header' = [header EXCEPT ![c] = header[Shared]]

Setter(c) ==
  /\ pc[c] = "building" /\ setters < MaxSetters /\ setters' = setters + 1
  /\ UNCHANGED <<options, call, pc, mode, sent, outcomes, unclosed, result>>

Updates(c, new)   == builder' = [builder EXCEPT ![c] = new]
Header(c)         == header[builder[c].header]
PutHeader(c, new) == header' = [header EXCEPT ![builder[c].header] = new]

(* Set, Header, HeaderMap, BearerToken and BasicAuth replace a value.      *)
Set(c) == Setter(c) /\ PutHeader(c, [Header(c) EXCEPT !.values = <<Tag(c)>>]) /\ UNCHANGED builder
Add(c) == Setter(c) /\ PutHeader(c, [Header(c) EXCEPT !.values = Append(@, Tag(c))]) /\ UNCHANGED builder

AddCookies(c) == Setter(c) /\ Updates(c, [builder[c] EXCEPT !.cookies = Append(@, Tag(c))]) /\ UNCHANGED header

(* That an argument is no struct is noticed when the request is built.     *)
HeaderStruct(c, s) == Setter(c) /\ Updates(c, [builder[c] EXCEPT !.headerStructs = Append(@, s)]) /\ UNCHANGED header
Query(c, q)        == Setter(c) /\ Updates(c, [builder[c] EXCEPT !.query = Append(@, q)]) /\ UNCHANGED header
Base(c)            == Setter(c) /\ Updates(c, [builder[c] EXCEPT !.url = TRUE]) /\ UNCHANGED header

(* Get, Post, Head, Put, Patch, Delete and Options set method and path.    *)
Method(c) == Setter(c) /\ Updates(c, [builder[c] EXCEPT !.path = TRUE]) /\ UNCHANGED header

WithType(c, k) == [Header(c) EXCEPT !.type = [kind |-> k, boundary |-> 0]]

(* BodyJSON, BodyXML and BodyForm name their type at once; BodyMultipart   *)
(* does when its body is built, BodyBytes never.                           *)
Body(c, k) ==
  /\ Setter(c) /\ Updates(c, [builder[c] EXCEPT !.bodies = @ \cup {k}])
  /\ IF k \in {"json", "xml", "form"} THEN PutHeader(c, WithType(c, k)) ELSE UNCHANGED header

RequestStruct(c, s, json) ==
  /\ Setter(c)
  /\ Updates(c, [builder[c] EXCEPT !.query = Append(@, s),
                                   !.headerStructs = Append(@, s),
                                   !.bodies = IF json THEN @ \cup {"json"} ELSE @])
  /\ IF json THEN PutHeader(c, WithType(c, "json")) ELSE UNCHANGED header

-----------------------------------------------------------------------------
(* Receive.                                                                *)

(* The URL is built from base, path and query.                             *)
buildURL(c) == (builder[c].path \/ builder[c].url) /\ ~Contains(builder[c].query, Bad)

(* The header structs up to the first bad one are set.                     *)
applyHeaderStructs(c) ==
  LET structs == builder[c].headerStructs IN
  IF structs # <<>> /\ structs[1] # Bad THEN [Header(c) EXCEPT !.values = <<Tag(c)>>] ELSE Header(c)

Ends(c, resp, err) ==
  /\ pc' = [pc EXCEPT ![c] = "returned"]
  /\ result' = [result EXCEPT ![c] = [resp |-> resp, err |-> err]]

(* Receive is called by the application, or by Request.                    *)
Receive(c) ==
  /\ pc[c] = "building"
  /\ \E of \in {"Receive", "Request"}, decode \in BOOLEAN : mode' = [mode EXCEPT ![c] = [of |-> of, decode |-> decode]]
  /\ IF ~buildURL(c) THEN Ends(c, "none", "request") /\ UNCHANGED <<header, builder>>
     ELSE /\ PutHeader(c, applyHeaderStructs(c))
          /\ IF Contains(builder[c].headerStructs, Bad)
             THEN Ends(c, "none", "request") /\ UNCHANGED builder
             ELSE /\ Updates(c, [builder[c] EXCEPT !.headerStructs = <<>>])
                  /\ IF options.maxRetries < 0 THEN Ends(c, "none", "none")
                     ELSE pc' = [pc EXCEPT ![c] = "attempt"] /\ UNCHANGED result
  /\ UNCHANGED <<options, call, setters, sent, outcomes, unclosed>>

Attempt(c) == Len(sent[c]) + 1
HasNext(c) == Len(sent[c]) <= options.maxRetries

(* Mutant: the body is built once, and the first attempt reads it.         *)
BodyReadOnce(c) ==
  IF Attempt(c) > 1 \/ builder[c].bodies = {} THEN NoBody
  ELSE [kind |-> CHOOSE k \in builder[c].bodies : TRUE, boundary |-> 1]

(* The first of five fields that is set; a multipart body comes with a     *)
(* boundary of its own each time.                                          *)
BodyFields == <<"json", "xml", "form", "multipart", "bytes">>
FirstSet(bodies) ==
  BodyFields[CHOOSE i \in 1..5 : BodyFields[i] \in bodies /\ \A j \in 1..i - 1 : BodyFields[j] \notin bodies]

buildBody(c) ==
  LET kind == FirstSet(builder[c].bodies) IN
  IF builder[c].bodies = {} THEN NoBody
  ELSE [kind |-> kind, boundary |-> IF kind = "multipart" THEN Attempt(c) ELSE 0]

(* The body is built before the header is cloned.                          *)
Send(c) ==
  /\ pc[c] = "attempt"
  /\ LET body == buildBody(c)
         h    == IF body.kind = "multipart" THEN [Header(c) EXCEPT !.type = body] ELSE Header(c)
     IN  /\ PutHeader(c, h)
         /\ sent' = [sent EXCEPT ![c] = Append(@, [header |-> h, body |-> body, query |-> builder[c].query,
                                                   cookies |-> builder[c].cookies])]
  /\ pc' = [pc EXCEPT ![c] = "do"]
  /\ UNCHANGED <<options, call, builder, setters, mode, outcomes, unclosed, result>>

(* A value that cannot be marshalled fails the first attempt.              *)
MarshalFails(c) ==
  /\ pc[c] = "attempt" /\ Attempt(c) = 1 /\ buildBody(c).kind \in {"json", "xml"}
  /\ Ends(c, "none", "request")
  /\ UNCHANGED <<options, client, mode, sent, outcomes, unclosed>>

(* Do fails: no connection, no answer in time, or the context is over.     *)
DoFails(c) ==
  /\ pc[c] = "do"
  /\ outcomes' = [outcomes EXCEPT ![c] = Append(@, "error")]
  /\ IF HasNext(c) THEN pc' = [pc EXCEPT ![c] = "attempt"] /\ UNCHANGED result ELSE Ends(c, "none", "error")
  /\ UNCHANGED <<options, client, mode, sent, unclosed>>

DoAnswers(c, status) ==
  /\ pc[c] = "do"
  /\ outcomes' = [outcomes EXCEPT ![c] = Append(@, status)]
  /\ unclosed' = [unclosed EXCEPT ![c] = @ \cup {Len(sent[c])}]
  /\ pc' = [pc EXCEPT ![c] = "answered"]
  /\ UNCHANGED <<options, client, mode, sent, result>>

Retried(c) == Last(outcomes[c]) = "5xx" /\ HasNext(c)

(* Mutant: the body of a 5xx response is not closed before the next attempt. *)
RetryLeavesBody(c) ==
  /\ pc[c] = "answered" /\ Retried(c)
  /\ pc' = [pc EXCEPT ![c] = "attempt"]
  /\ UNCHANGED <<options, client, mode, sent, outcomes, unclosed, result>>

Retry(c) ==
  /\ pc[c] = "answered" /\ Retried(c)
  /\ unclosed' = [unclosed EXCEPT ![c] = @ \ {Len(sent[c])}]
  /\ pc' = [pc EXCEPT ![c] = "attempt"]
  /\ UNCHANGED <<options, client, mode, sent, outcomes, result>>

(* The rest of Request: the body is drained and closed, and a status that  *)
(* is not a success is an error.                                           *)
Request(c, err) ==
  LET status == Last(outcomes[c]) IN
  IF mode[c].of = "Receive" THEN Ends(c, status, err) /\ UNCHANGED unclosed
  ELSE /\ unclosed' = [unclosed EXCEPT ![c] = @ \ {Len(sent[c])}]
       /\ Ends(c, status, IF err = "none" /\ status # "2xx" THEN "status" ELSE err)

(* The body may not decode.  With a timeout the context is cancelled       *)
(* before the body is read, and what has not arrived by then is lost.      *)
Decode(c) ==
  /\ pc[c] = "answered" /\ ~Retried(c)
  /\ \E err \in {"none"} \cup (IF mode[c].decode THEN {"decode"} ELSE {}) : Request(c, err)
  /\ UNCHANGED <<options, client, mode, sent, outcomes>>

Build(c) ==
  \/ Set(c) \/ Add(c) \/ AddCookies(c) \/ Base(c) \/ Method(c)
  \/ Query(c, Tag(c)) \/ Query(c, Bad)
  \/ \E s \in {Tag(c), Bad} : HeaderStruct(c, s) \/ (\E json \in BOOLEAN : RequestStruct(c, s, json))
  \/ \E k \in Kind : Body(c, k)

Next ==
  \E c \in Client :
    \/ New(c) \/ Build(c) \/ Receive(c) \/ Send(c) \/ MarshalFails(c)
    \/ DoFails(c) \/ (\E s \in Status : DoAnswers(c, s)) \/ Retry(c) \/ Decode(c)

Spec == Init /\ [][Next]_vars

-----------------------------------------------------------------------------
(* Properties.                                                             *)

(* "Always call New() before building a new request to avoid state         *)
(* leakage" (httpspi/clientspi.go:19): a request has what was set for its  *)
(* own call and the defaults of the shared client, whatever other          *)
(* goroutines build at the same time.                                      *)
OwnRequest ==
  \A c \in Client : \A i \in 1..Len(sent[c]) :
    LET r == sent[c][i] IN
    /\ ToSet(r.header.values) \subseteq {Tag(c), Tag(Shared)}
    /\ ToSet(r.query) \cup ToSet(r.cookies) \subseteq {Tag(c)}
    /\ r.header.type.kind \in {"none"} \cup builder[c].bodies

(* Every attempt sends the whole request again, and a request whose body   *)
(* was set in one way has the type, and the boundary, of that body.        *)
SameEachAttempt ==
  \A c \in Client : \A i \in 1..Len(sent[c]) :
    LET r == sent[c][i] IN
    /\ r.body.kind = sent[c][1].body.kind /\ r.header.values = sent[c][1].header.values
    /\ r.body.kind = "none" => builder[c].bodies = {}
    /\ \A k \in Kind \ {"bytes"} : builder[c].bodies = {k} => r.header.type = r.body

(* Only network errors and 5xx responses trigger retries (client.go:65),   *)
(* as many as configured; without a response there is an error, and        *)
(* Request reports success only for a 2xx answer to the last attempt.      *)
TrueResult ==
  \A c \in Client :
    /\ Len(sent[c]) <= 1 + options.maxRetries
    /\ \A i \in 1..Len(sent[c]) - 1 : outcomes[c][i] \in {"error", "5xx"}
    /\ (pc[c] = "returned" /\ result[c].err = "none") =>
          /\ result[c].resp # "none" /\ result[c].resp = Last(outcomes[c])
          /\ mode[c].of = "Request" => result[c].resp = "2xx"

(* Request leaves no response body open, Receive only the one it returns.  *)
NoBodyLeft ==
  \A c \in Client :
    pc[c] = "returned" =>
      unclosed[c] = IF mode[c].of = "Receive" /\ result[c].resp # "none" THEN {Len(sent[c])} ELSE {}
=============================================================================
