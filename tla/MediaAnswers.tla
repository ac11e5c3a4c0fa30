---------------------------- MODULE MediaAnswers ----------------------------
(***************************************************************************)
(* What the Runtime makes of the answer to a paid call: a product, a        *)
(* refusal, or a doubt (infrastructure/media: images.py, speech.py and       *)
(* audio_generation.py).  Images come as one JSON object, voices of Doubao   *)
(* as a stream of stream, other sound as bytes.                             *)
(*                                                                         *)
(* What a provider has made it does not refuse, and what it has not made it  *)
(* cannot deliver; everything else may arrive.                              *)
(***************************************************************************)
EXTENDS Naturals, Sequences, FiniteSets

CONSTANTS
  MaxBytes,     \* max_bytes, in units of the sizes below
  Asked,        \* images asked for
  Longest       \* bound: images of an answer, events of a stream

ASSUME AnswersAssumption == MaxBytes \in Nat \ {0} /\ Asked \in Nat \ {0} /\ Longest \in Nat

Sizes == 0 .. MaxBytes + 1
Lists(S) == UNION {[1 .. n -> S] : n \in 0 .. Longest}

\* No answer at all, 2xx, 408, 5xx, and any other status.
Unclear == {"none", "timeout", "failing"}
Said(code) == IF code = "refusing" THEN "refusal" ELSE "doubt"
SaidAnyStatus(code) == IF code = "none" THEN "doubt" ELSE "refusal"   \* mutant: as if it were a refusal

\* A call that is not answered with 2xx: whether it may be so when the product is
\* made, or not.
Statuses(made) == IF made THEN Unclear ELSE Unclear \cup {"refusing"}

-----------------------------------------------------------------------------
(* Images: each in the answer itself or behind a URL.                       *)

Images == [bytes : Sizes, url : BOOLEAN, image : BOOLEAN]     \* 0 bytes: not in the answer
\* Either, not both, and an image of the format asked for.
GoodImage(pic) == (pic.bytes # 0) # pic.url /\ (pic.bytes # 0 => pic.image)
\* Doubao's sequences may be shorter than asked.
GoodCount(n, upTo) == IF upTo THEN n \in 1 .. Asked ELSE n = Asked
Together(images) ==
  LET upTo[n \in 0 .. Len(images)] == IF n = 0 THEN 0 ELSE upTo[n - 1] + images[n].bytes
  IN  upTo[Len(images)]

ImageAnswers == [images : Lists(Images), json : BOOLEAN, billed : BOOLEAN, upTo : BOOLEAN]
\* One thing wrong with it and the outcome is open.
ReadImages(a) ==
  IF /\ a.json /\ a.billed /\ GoodCount(Len(a.images), a.upTo)
     /\ \A i \in DOMAIN a.images : GoodImage(a.images[i])
     /\ Together(a.images) =< MaxBytes
  THEN "product" ELSE "doubt"

-----------------------------------------------------------------------------
(* Sound: a body of bytes, whole or cut short.                              *)

SoundAnswers ==
  [type : BOOLEAN, declared : {"no", "yes", "junk"}, length : Sizes, received : Sizes,
   encoded : BOOLEAN, sound : BOOLEAN]
\* The length that is declared is that of the body, but if it is encoded.
WholeBody(a) == a.declared = "yes" /\ ~ a.encoded => a.received = a.length
ReadSound(a) ==
  IF /\ a.type /\ a.declared # "junk" /\ (a.declared = "yes" => a.length =< MaxBytes)
     /\ a.received \in 1 .. MaxBytes /\ WholeBody(a) /\ a.sound
  THEN "product" ELSE "doubt"

-----------------------------------------------------------------------------
(* Doubao's voice: events, of which one ends the stream.                    *)

Events == {"blank", "sentence", "chunk", "end", "refusing", "error", "junk"}
StreamAnswers == [events : Lists(Events), cut : BOOLEAN, sound : BOOLEAN]

Among(stream, e) == \E i \in DOMAIN stream : stream[i] = e
Before(stream, i, e) == \E j \in 1 .. i - 1 : stream[j] = e
Chunks(stream, i) == Cardinality({j \in 1 .. i : stream[j] = "chunk"})
\* _event raises: after the end, for what is no event, and beyond the limit.
Raises(stream, i) ==
  \/ stream[i] # "blank" /\ Before(stream, i, "end")
  \/ stream[i] \in {"refusing", "error", "junk"}
  \/ stream[i] = "chunk" /\ Chunks(stream, i) > MaxBytes
RaisesFirst(stream, i) == Raises(stream, i) /\ \A j \in 1 .. i - 1 : ~ Raises(stream, j)
\* A code that says the request is bad, and no sound was sent before it.
RefusesJob(stream, i) ==
  stream[i] = "refusing" /\ ~ Before(stream, i, "end") /\ ~ Before(stream, i, "chunk")
ReadStream(a) ==
  IF \E i \in DOMAIN a.events : RaisesFirst(a.events, i)
  THEN IF \E i \in DOMAIN a.events : RaisesFirst(a.events, i) /\ RefusesJob(a.events, i)
       THEN "refusal" ELSE "doubt"
  ELSE IF ~ a.cut /\ Among(a.events, "end") /\ Among(a.events, "chunk") /\ a.sound
       THEN "product" ELSE "doubt"

-----------------------------------------------------------------------------
(* What a provider may send, whether it has made the product or not.        *)

ImagesSent(made) ==
  {a \in ImageAnswers : ~ made => \A i \in DOMAIN a.images : ~ (a.images[i].url \/ a.images[i].image)}
SoundsSent(made) == {a \in SoundAnswers : ~ made => ~ a.sound}
\* When it has made the voice it sends of it before it says otherwise.
StreamsSent(made) ==
  {a \in StreamAnswers :
     IF made THEN \A i \in DOMAIN a.events : a.events[i] = "refusing" => Before(a.events, i, "chunk")
     ELSE ~ Among(a.events, "chunk")}

\* What the Runtime hears then.
HeardOf(made) ==
  {Said(s) : s \in Statuses(made)} \cup {ReadImages(a) : a \in ImagesSent(made)}
    \cup {ReadSound(a) : a \in SoundsSent(made)} \cup {ReadStream(a) : a \in StreamsSent(made)}
HeardWhenMade == HeardOf(TRUE)
HeardWhenNot == HeardOf(FALSE)
=============================================================================
