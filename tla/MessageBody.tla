----------------------------- MODULE MessageBody -----------------------------
(***************************************************************************)
(* packages/core/src/bodies.ts, json.ts and buffered.ts, and the ways a    *)
(* body leaves a program (packages/node, browser, lambda): a body is data, *)
(* a promise of it, or an iterable or async iterable of chunks, some of    *)
(* which can be read once only.  A chain of middlewares and transports     *)
(* reads it, replaces it and passes it on.                                 *)
(*                                                                         *)
(* Chunks, strings too, are counted in bytes of UTF-8: a character takes   *)
(* one byte, or a lead and a trail.  A quote opens a JSON text.            *)
(***************************************************************************)
EXTENDS Naturals, SequencesExt

CONSTANTS Byte,      \* bytes of UTF-8
          Content,   \* what senders say, as bytes of whole characters
          MaxHops    \* bound on the middlewares and transports of a chain

VARIABLES body,      \* message.body
          got,       \* what the last reader got, or how reading failed
          did,       \* the last hop
          hops       \* middlewares and transports so far

bodyVars == <<body, got, did, hops>>

Lead == "lead"
Trail == "trail"
Replacement == "?"        \* U+FFFD
Zero == "zero"            \* the zeros up to the size of a chunk's buffer
Promised == <<"{}">>      \* JSON.stringify of a promise

ASSUME BodyAssumption ==
    /\ {Lead, Trail, Replacement, Zero} \subseteq Byte
    /\ Promised \in Seq(Byte) /\ Content \subseteq Seq(Byte)
    /\ MaxHops \in Nat

\* Chunks: a string, or a Uint8Array that may be a view on a larger buffer.
TextChunk(bytes)         == [binary |-> FALSE, bytes |-> bytes, view |-> FALSE]
BinaryChunk(bytes, view) == [binary |-> TRUE, bytes |-> bytes, view |-> view]

\* A JsonBody holds its data ("json"), or the promise of it ("parsed").
Kind    == {"data", "promise", "iterable", "json", "parsed", "generator", "node", "fetched"}
OneShot == {"generator", "node", "fetched"}

Body(kind, chunks) == [kind |-> kind, chunks |-> chunks, used |-> FALSE]

Bytes(chunks) == FlattenSeq([i \in DOMAIN chunks |-> chunks[i].bytes])

\* What a body is meant to say.
Says(b) == Bytes(b.chunks)

-----------------------------------------------------------------------------
\* The halves of characters whose other half is elsewhere.
Halves(bytes) ==
    {i \in DOMAIN bytes :
        \/ bytes[i] = Lead  /\ ~(i < Len(bytes) /\ bytes[i + 1] = Trail)
        \/ bytes[i] = Trail /\ ~(i > 1 /\ bytes[i - 1] = Lead)}

\* DECODER.decode: half a character is none.
Decoded(bytes) ==
    [i \in DOMAIN bytes |-> IF i \in Halves(bytes) THEN Replacement ELSE bytes[i]]

AsString(c) == IF c.binary THEN TextChunk(Decoded(c.bytes)) ELSE c

AsBinary(c) == IF c.binary THEN c ELSE BinaryChunk(c.bytes, FALSE)

MapChunks(F(_), chunks) == [i \in DOMAIN chunks |-> F(chunks[i])]

\* Mutation of Merge: the second part is written over the first.
MergeOver(a, b) == IF b.bytes = <<>> THEN a ELSE b

\* merge(): one part if the other is empty, else a buffer of its own.
Merge(a, b) ==
    CASE a.bytes = <<>> -> b
      [] a.bytes # <<>> /\ b.bytes = <<>> -> a
      [] OTHER -> BinaryChunk(a.bytes \o b.bytes, FALSE)

\* What iterating gives: yieldStringify, or the chunks a one-shot body has left.
Yields(b) ==
    CASE b.kind = "parsed" -> <<TextChunk(Promised)>>
      [] b.used -> <<>>
      [] OTHER -> b.chunks

\* A second reader waits for node's stream forever, and finds fetch's locked; an
\* exhausted generator is merely empty.
Outcome(b) ==
    CASE b.used /\ b.kind = "node" -> "hangs"
      [] b.used /\ b.kind = "fetched" -> "throws"
      [] OTHER -> "ok"

\* Mutation of Used: every body counts as read.
UsedAlways(b) == [b EXCEPT !.used = TRUE]

\* Reading uses up a stream and a generator.
Used(b) == [b EXCEPT !.used = b.kind \in OneShot]

BufferText(b) == Bytes(MapChunks(AsString, Yields(b)))

\* reduce(merge) has no initial value.
BinaryOutcome(b) ==
    IF b.kind = "iterable" /\ b.chunks = <<>> THEN "throws" ELSE Outcome(b)

BufferBinary(b) ==
    LET chunks == MapChunks(AsBinary, Yields(b))
        merged[i \in 0..Len(chunks)] ==
            IF i = 0 THEN BinaryChunk(<<>>, FALSE) ELSE Merge(merged[i - 1], chunks[i])
    IN  merged[Len(chunks)]

\* JSON.parse accepts it.
ParsesAsJson(bytes) ==
    /\ bytes # <<>> /\ bytes[1] \in {"quote", Promised[1]}
    /\ \A i \in DOMAIN bytes : bytes[i] # Zero

-----------------------------------------------------------------------------
\* bodyToWriteStream: a buffer of the size of the chunk's buffer.
Padded(c) == IF c.view THEN c.bytes \o <<Zero>> ELSE c.bytes

Wire(b) == FlattenSeq(MapChunks(Padded, MapChunks(AsBinary, Yields(b))))

\* The ways to cut bytes into at most two chunks: enough to cut any character.
Cuts(bytes) ==
    IF bytes = <<>> THEN {<<>>}
    ELSE {<<bytes>>} \union
         {<<SubSeq(bytes, 1, k), SubSeq(bytes, k + 1, Len(bytes))>> : k \in 1..(Len(bytes) - 1)}

-----------------------------------------------------------------------------
\* A sender's body; small Buffers of node are views on its pool.
BodyInit ==
    /\ \E c \in Content :
          \/ \E chunk \in {TextChunk(c), BinaryChunk(c, FALSE), BinaryChunk(c, TRUE)} :
                \E kind \in {"data", "promise"} : body = Body(kind, <<chunk>>)
          \/ \E cut \in Cuts(c) : \E kind \in {"iterable", "generator"} :
                body = Body(kind, [i \in DOMAIN cut |-> BinaryChunk(cut[i], FALSE)])
          \/ ParsesAsJson(c) /\ body = Body("json", <<TextChunk(c)>>)
    /\ got = [outcome |-> "none", bytes |-> <<>>]
    /\ did = "send"
    /\ hops = 0

\* A chain ends at a reader that fails or waits.
Hop(name) ==
    /\ hops < MaxHops /\ got.outcome \notin {"hangs", "throws"}
    /\ hops' = hops + 1
    /\ did' = name

\* The body is replaced by one made of what was read of it.
Replaced(outcome, new) ==
    IF outcome = "ok"
    THEN body' = new /\ got' = [outcome |-> "none", bytes |-> <<>>]
    ELSE UNCHANGED body /\ got' = [outcome |-> outcome, bytes |-> <<>>]

\* bufferText and toJSON of messages.ts, bufferText of buffered.ts.
BufferedAsText ==
    /\ Hop("bufferText")
    /\ Replaced(Outcome(body), Body("data", <<TextChunk(BufferText(body))>>))

\* bufferBinary of buffered.ts.
BufferedAsBinary ==
    /\ Hop("bufferBinary")
    /\ Replaced(BinaryOutcome(body), Body("data", <<BufferBinary(body)>>))

Streamed ==
    \/ /\ Hop("streamText")
       /\ Replaced(Outcome(body), Body("generator", MapChunks(AsString, Yields(body))))
    \/ /\ Hop("streamBinary")
       /\ Replaced(Outcome(body), Body("generator", MapChunks(AsBinary, Yields(body))))

\* bufferedText(message): the message goes on with the body that was read.
ReadText ==
    /\ Hop("readText")
    /\ got' = [outcome |-> Outcome(body),
               bytes |-> IF Outcome(body) = "ok" THEN BufferText(body) ELSE <<>>]
    /\ body' = Used(body)

\* bodyJson: a JsonBody is not read, an empty body is undefined.
ReadJson ==
    LET held == body.kind \in {"json", "parsed"}
        text == IF held THEN Says(body) ELSE BufferText(body)
        outcome == IF ~held /\ Outcome(body) # "ok" THEN Outcome(body)
                   ELSE IF text = <<>> \/ ParsesAsJson(text) THEN "ok" ELSE "throws"
    IN  /\ Hop("readJson")
        /\ got' = [outcome |-> outcome, bytes |-> IF outcome = "ok" THEN text ELSE <<>>]
        /\ body' = IF held THEN body ELSE Used(body)

\* parseJson: bodyJson is called and not awaited, so jsonBody is given a promise.
ParseJson ==
    /\ Hop("parseJson")
    /\ \/ body.kind \in {"json", "parsed"} /\ UNCHANGED body
       \/ /\ body.kind \notin {"json", "parsed"}
          /\ Outcome(body) = "ok"
          /\ body' = Body("parsed", <<TextChunk(BufferText(body))>>)
    /\ got' = [outcome |-> "none", bytes |-> <<>>]

\* Over node, either way: what is written arrives in chunks of any size, which
\* may be views on node's buffers.
OverNode ==
    /\ Hop("node")
    /\ \E cut \in Cuts(Wire(body)), view \in BOOLEAN :
          Replaced(Outcome(body), Body("node", [i \in DOMAIN cut |-> BinaryChunk(cut[i], view)]))

\* XmlHttpHandler: the whole response in one array.
ToXhr ==
    /\ Hop("xhr")
    /\ Replaced(Outcome(body), Body("iterable", <<BinaryChunk(Wire(body), FALSE)>>))

\* An api gateway's event and result hold a string.
OverLambda ==
    /\ Hop("lambda")
    /\ Replaced(Outcome(body), Body("data", <<TextChunk(BufferText(body))>>))

\* toFetchRequest buffers the body as text.
FetchText(b) == BufferText(b)

\* The adapter streams it; nothing streams from an empty one.
ToFetchAdapter ==
    /\ Hop("fetchRequest")
    /\ Replaced(Outcome(body),
           IF FetchText(body) = <<>> THEN Body("data", <<TextChunk(<<>>)>>)
           ELSE Body("generator", <<BinaryChunk(FetchText(body), FALSE)>>))

\* bodyToReadableStream enqueues each chunk.
Enqueued(b) == MapChunks(AsBinary, Yields(b))

\* toFetchResponse, and fromReadableStream on the other side.
FromFetchAdapter ==
    /\ Hop("fetchResponse")
    /\ Replaced(Outcome(body), Body("fetched", Enqueued(body)))

BodyNext ==
    \/ BufferedAsText \/ BufferedAsBinary \/ Streamed
    \/ ReadText \/ ReadJson \/ ParseJson
    \/ OverNode \/ ToXhr \/ OverLambda \/ ToFetchAdapter \/ FromFetchAdapter

BodySpec == BodyInit /\ [][BodyNext]_bodyVars

-----------------------------------------------------------------------------
BodyTypeOK ==
    /\ body.kind \in Kind /\ body.used \in BOOLEAN
    /\ body.used => body.kind \in OneShot
    /\ \A i \in DOMAIN body.chunks : body.chunks[i].bytes \in Seq(Byte)
    /\ body.kind \in {"data", "promise", "json", "parsed"} => Len(body.chunks) = 1
    /\ got.outcome \in {"none", "ok", "hangs", "throws"}
    /\ hops \in 0..MaxHops

\* A chunk starts or ends within a character, and is decoded on its own.
SplitsCharacter(b) ==
    \E i \in DOMAIN b.chunks : b.chunks[i].binary /\ Halves(b.chunks[i].bytes) # {}

AsText  == {"bufferText", "streamText", "readText", "readJson", "parseJson",
            "lambda", "fetchRequest"}
Readers == {"readText", "readJson"}

\* The ways in which a hop is known to lose what a body says.
Lossy(hop, b) ==
    \/ b.used
    \/ hop \in AsText /\ SplitsCharacter(b)
    \/ hop \in {"node", "xhr"} /\ \E i \in DOMAIN b.chunks : b.chunks[i].view
    \/ b.kind = "parsed" /\ hop \notin {"readJson", "parseJson"}
    \/ hop = "bufferBinary" /\ BinaryOutcome(b) = "throws"
    \/ hop = "readJson" /\ ~ParsesAsJson(Says(b)) /\ Says(b) # <<>>

\* What a message says survives every chain of middlewares and transports that
\* stream, buffer, read and convert its body, and readers get all of it, but for
\* six things: a body that was read before, a character cut in two by a chunk
\* that is decoded on its own (bodies.ts:20, 28, 107), a chunk that is a view on
\* a larger buffer written by node (streams.ts:11), a body that parseJson made
\* (json.ts:73), an iterable without chunks buffered as binary (bodies.ts:48),
\* and what is no JSON read as such.
BodyKept ==
    [][Lossy(did', body)
       \/ /\ Says(body') = Says(body)
          /\ got'.outcome = (IF did' \in Readers THEN "ok" ELSE "none")
          /\ did' \in Readers => got'.bytes = Says(body)]_bodyVars

\* json.ts:31 says that a JsonBody "will lazily yield JSON.stringify(data) when
\* asked to stream", and json.ts:64 that parseJson replaces "message.body with a
\* JsonBody so that json only needs to be parsed once": the text of such a
\* message is the JSON that was parsed.
ParsedBodyYieldsItsJson ==
    did = "readText" /\ body.kind = "parsed" /\ ParsesAsJson(Says(body)) =>
        got.bytes = Says(body)
=============================================================================
