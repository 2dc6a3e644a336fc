---------------------------- MODULE TelegramSend ----------------------------
(***************************************************************************)
(* Sending to Telegram: a long text is cut into chunks that are sent one   *)
(* after the other, each with up to three attempts; photos and files go in *)
(* one multipart request.  A request may have been carried out although    *)
(* its answer was lost.                                                    *)
(***************************************************************************)
EXTENDS Naturals, Sequences, SequencesExt

CONSTANTS
    SendTexts,     \* sequences of "x", "sp" (space) and "nl" (newline)
    ChunkMax,      \* TELEGRAM_MAX_MESSAGE_LENGTH
    MaxAttempts

ASSUME SendAssumption == ChunkMax \in Nat \ {0} /\ MaxAttempts \in Nat \ {0}

(* "buffer": telegramSendPhotoBuffer; "image" and "document": telegramSendFile. *)
SendKinds == {"text", "buffer", "image", "document"}

VARIABLES
    outText, outKind,
    chunk,        \* the chunk being sent
    attempt,      \* of that chunk
    onAir,        \* a request waits for its answer
    delivered,    \* chunks the chat shows, in order
    result        \* "none", or what the send returned

sendVars == <<outText, outKind, chunk, attempt, onAir, delivered, result>>

-----------------------------------------------------------------------------
(* lastIndexOf(c, end - 1), with positions from 0 and 0 for "not there",   *)
(* which no caller accepts.                                                *)
LastIndexOf(text, c, end) ==
    LET at == {i \in 0 .. end - 1 : text[i + 1] = c}
    IN IF at = {} THEN 0 ELSE CHOOSE i \in at : \A j \in at : j <= i

(* Where the chunk from pos ends, and the next one starts: after the last  *)
(* newline, else the last space, of the final quarter, else at the limit.  *)
NextPos(text, pos) ==
    LET end == pos + ChunkMax
        from == pos + (ChunkMax * 3) \div 4
        nl == LastIndexOf(text, "nl", end)
        sp == LastIndexOf(text, "sp", end)
        cut == IF nl >= from THEN nl + 1 ELSE IF sp >= from THEN sp + 1 ELSE end
    IN <<cut, cut>>

(* chunkText *)
ChunkText(text) ==
    LET chunksFrom[pos \in 0 .. Len(text)] ==
            IF Len(text) - pos <= ChunkMax THEN <<SubSeq(text, pos + 1, Len(text))>>
            ELSE LET cut == NextPos(text, pos)
                 IN <<SubSeq(text, pos + 1, cut[1])>> \o chunksFrom[cut[2]]
    IN chunksFrom[0]

Parts == IF outKind = "text" THEN Len(ChunkText(outText)) ELSE 1

SendInit ==
    /\ outKind \in SendKinds
    /\ outText \in IF outKind = "text" THEN SendTexts ELSE {<<>>}
    /\ chunk = 1 /\ attempt = 1 /\ onAir = FALSE /\ delivered = <<>> /\ result = "none"

-----------------------------------------------------------------------------
Post ==
    /\ result = "none" /\ ~onAir
    /\ onAir' = TRUE
    /\ UNCHANGED <<outText, outKind, chunk, attempt, delivered, result>>

(* The request is carried out, its answer not yet there. *)
Arrives ==
    /\ onAir
    /\ Len(SelectSeq(delivered, LAMBDA c : c = chunk)) < attempt
    /\ delivered' = Append(delivered, chunk)
    /\ UNCHANGED <<outText, outKind, chunk, attempt, onAir, result>>

Shown == Len(SelectSeq(delivered, LAMBDA c : c = chunk)) = attempt

(* The answer {ok: true}. *)
Succeeds ==
    /\ onAir /\ Contains(delivered, chunk)
    /\ onAir' = FALSE
    /\ \/ chunk < Parts /\ chunk' = chunk + 1 /\ attempt' = 1 /\ UNCHANGED result
       \/ chunk = Parts /\ result' = "true" /\ UNCHANGED <<chunk, attempt>>
    /\ UNCHANGED <<outText, outKind, delivered>>

\* Mutant: a chunk that failed for good is skipped.
GiveUpChunk ==
    \/ chunk < Parts /\ chunk' = chunk + 1 /\ attempt' = 1 /\ UNCHANGED result
    \/ chunk = Parts /\ result' = "true" /\ UNCHANGED <<chunk, attempt>>

(* The error reaches the caller's catch: false; the file send of an image  *)
(* does not look at what sendPhoto returned.                               *)
GiveUp ==
    /\ result' = IF outKind = "image" THEN "true" ELSE "false"
    /\ UNCHANGED <<chunk, attempt>>

(* withRetry: only text chunks know permanent errors, files do not retry.  *)
AttemptsLeft(error) ==
    /\ outKind \in {"text", "buffer"} /\ attempt < MaxAttempts
    /\ outKind = "text" => error # "permanent"

(* 429, 5xx, a network error or a timeout; 400, 401 and 403 are permanent. *)
(* Only an error of the network may follow a request that was carried out. *)
Fails(error) ==
    /\ onAir
    /\ error # "network" => ~Shown
    /\ onAir' = FALSE
    /\ \/ /\ AttemptsLeft(error)
          /\ attempt' = IF attempt < MaxAttempts THEN attempt + 1 ELSE attempt
          /\ UNCHANGED <<chunk, result>>
       \/ ~AttemptsLeft(error) /\ GiveUp
    /\ UNCHANGED <<outText, outKind, delivered>>

SendNext == Post \/ Arrives \/ Succeeds \/ \E error \in {"429", "network", "permanent"} : Fails(error)

(* Every request is answered or times out, except that of a document.      *)
SendProgress == Post \/ Succeeds \/ (outKind # "document" /\ \E error \in {"429", "network"} : Fails(error))

-----------------------------------------------------------------------------
(* The chunks of a text are the text, none is longer than the limit and    *)
(* none but that of an empty text is empty.                                *)
ChunksAreText ==
    outKind = "text" =>
        LET chunks == ChunkText(outText) IN
        /\ FlattenSeq(chunks) = outText
        /\ \A i \in DOMAIN chunks : Len(chunks[i]) <= ChunkMax /\ (chunks[i] = <<>> => outText = <<>>)

(* What send returns is true: after true the chat shows every chunk, in    *)
(* order; the chunks shown are always a prefix of the message, repeated    *)
(* only where an answer was lost.                                          *)
SendIsHonest ==
    /\ result = "true" /\ outKind # "image" => Range(delivered) = 1 .. Parts
    /\ \A i \in 1 .. Len(delivered) - 1 : delivered[i + 1] \in {delivered[i], delivered[i] + 1}
    /\ delivered # <<>> => delivered[1] = 1

(* A send ends, also under rate limits, unless Telegram never answers an   *)
(* upload: sendDocument has no timeout.                                    *)
SendEnds == (outKind # "document") ~> (result # "none")

(* A message arrives whole and in order, or the caller is told. *)
SendIsFaithful ==
    /\ ChunksAreText /\ SendIsHonest /\ [][ChunksAreText' /\ SendIsHonest']_sendVars
    /\ SendEnds
=============================================================================
