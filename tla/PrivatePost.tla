----------------------------- MODULE PrivatePost ----------------------------
(***************************************************************************)
(* A private post at rest: the payload and the clear fields of             *)
(* src/post_content.rs, the encode and decode seams of src/at_rest.rs with *)
(* the hooks of src/encryption.rs, the default codec of                    *)
(* src/codec/laquna, and the structural validation of                      *)
(* src/read_pipeline.rs on the way in and on the way out.                  *)
(*                                                                         *)
(* The host keeps the records and calls these functions; its calls overlap *)
(* at the codec's await.  Between the calls it may install other hooks,    *)
(* edit the audience a record belongs to, or copy a record elsewhere.  The *)
(* rotation oracle is a replica of the deployment's (DefaultRotationOracle *)
(* is modelled by RotationOracle).                                         *)
(***************************************************************************)
EXTENDS Naturals, FiniteSetsExt

CONSTANTS
    None,       \* an absent field, or no generation
    Place,      \* where records live: originator, nsid and rkey
    Call,       \* calls of the host under way at once
    Post,       \* contents a post may have
    Hooks,      \* the at-rest hooks the host may install
    Audience,   \* audience lists
    Freshness,  \* data_freshness_bound of the rotation oracle
    MaxHostTime,  \* bound on the clock
    MaxMoves,   \* bound on what the host does between the calls
    MaxDraws    \* bound on the slugs drawn

ASSUME PrivatePostAssumption ==
    /\ Freshness \in Nat /\ MaxHostTime \in Nat /\ MaxMoves \in Nat /\ MaxDraws \in Nat
    /\ \A post \in Post : post # None /\ post.text \in Nat
    /\ \A h \in Hooks : h.limit # None => h.limit \in Nat

VARIABLES
    hostClock,  \* SystemTime::now()
    rotations,  \* the instants at which the deployment began a generation
    replica,    \* what the installed rotation oracle holds of it, and since when
    hooks,      \* the hooks in force
    audience,   \* the audience list of each place
    moves,      \* how often the host changed either, or copied a record
    store,      \* the record at each place
    posted,     \* history: what was ever posted where, and to which audience
    call,       \* where each call stands
    slugs,      \* slugs drawn so far
    masks,      \* the mask of every artifact laquna produced: its seed and slug
    told        \* the event the last step offered its sink, if it did

hostVars   == <<hooks, audience, moves>>
oracleVars == <<rotations, replica>>
postVars == <<hostClock, oracleVars, hostVars, store, posted, call, slugs, masks, told>>

Idle == [phase |-> "idle"]

-----------------------------------------------------------------------------
(* post_content.rs.  A post is its text, the DIDs its facets mention and its  *)
(* embed; the size stands for its length.                                     *)

MediaKinds(embed) ==
    CASE embed \in {"images", "recordWithImages"} -> {"image"}
      [] embed \in {"video", "recordWithVideo"}   -> {"video"}
      [] OTHER -> {}

Quotes(embed) ==
    IF embed \in {"record", "recordWithImages", "recordWithVideo"} THEN {"strongRef"} ELSE {}

(* Every blob inside the embed: also the thumb of a link card, which is no    *)
(* media of the post.                                                         *)
Blobs(embed) == IF embed = "external" THEN {"thumb"} ELSE MediaKinds(embed)

(* derive_clear_fields, an absent field as the empty set. *)
ClearFields(post) ==
    [embedBlobs  |-> Blobs(post.embed),
     mentionDids |-> post.mentions,
     quote       |-> Quotes(post.embed),
     mediaKinds  |-> MediaKinds(post.embed)]

(* Mutation of ApplyTo: an empty field leaves what the record had.            *)
ApplyToKeeps(record, post) ==
    [f \in DOMAIN ClearFields(post) |->
        IF ClearFields(post)[f] = {} THEN record.clear[f] ELSE ClearFields(post)[f]]

(* ClearFields::apply_to: a field is set or removed, whatever the record had. *)
ApplyTo(record, post) == ClearFields(post)

(* The two forms of a payload: plain text, or the marker and a JSON object.   *)
Payload(post, form) ==
    IF form = "text" THEN [form |-> "text", text |-> post.text]
                     ELSE [form |-> "content", post |-> post]

Forms(post) ==
    {"content"} \cup (IF post.mentions = {} /\ post.embed = "none" THEN {"text"} ELSE {})

FromPayload(payload) ==
    IF payload.form = "text"
    THEN [text |-> payload.text, mentions |-> {}, embed |-> "none"]
    ELSE payload.post

(* A post is its three parts, and None stands for nothing else: no payload    *)
(* and no content is None.                                                    *)
ASSUME ContentAssumption ==
    \A post \in Post :
        /\ post = [text |-> post.text, mentions |-> post.mentions, embed |-> post.embed]
        /\ \A form \in {"text", "content"} :
              Payload(post, form) # None /\ FromPayload(Payload(post, form)) # None

-----------------------------------------------------------------------------
(* read_pipeline.rs: exactly one of text and encodedContent, with no orphan   *)
(* of the encoded side.                                                       *)
ValidRecord(r) ==
    \/ r.text = None /\ r.content # None /\ r.codec # None
    \/ r.text # None /\ r.content = None /\ r.codec = None /\ r.generation = None

-----------------------------------------------------------------------------
(* codec/laquna: an artifact is the payload under the mask of its seed and of *)
(* a slug it carries in the clear.                                            *)

(* The seed policies: the place of the record, or a recipe of the operator's, *)
(* here one that binds the audience list.                                     *)
Seed(h, place, list) == IF h.policy = "DidNsidRkey" THEN <<place>> ELSE <<place, list>>

(* Mutation of SlugFor: the slug is the generation's. *)
SlugOfGeneration(generation) == generation

(* A fresh slug for every encode, whatever generation it is stamped with.     *)
SlugFor(generation) == slugs

Mask(artifact) == <<artifact.seed, artifact.slug>>

Size(payload) == IF payload.form = "content" THEN payload.post.text ELSE payload.text

(* What an operator's codec makes of bytes it did not write: text of nobody's. *)
Garbled == [form |-> "text", text |-> 0]

(* What a codec makes of an artifact of its own: the artifact's slug is used, *)
(* the caller's seed.  Another seed, or a payload longer than the limit, is   *)
(* DecompressionFailed, which the adapter reports as Malformed: None here.    *)
Unmask(h, artifact, seed) ==
    IF artifact.seed = seed /\ (h.limit = None \/ Size(artifact.payload) <= h.limit)
    THEN artifact.payload ELSE None

(* The codec of the hooks on any artifact: laquna refuses what is none of    *)
(* its own, an operator's codec need not.                                     *)
Decode(h, artifact, seed) ==
    IF artifact.codec = h.id THEN Unmask(h, artifact, seed)
    ELSE IF h.rotation THEN None ELSE Garbled

-----------------------------------------------------------------------------
(* at_rest.rs and encryption.rs *)

(* validate_at_rest_install: a codec that requires rotation needs an oracle   *)
(* that yields a generation.                                                  *)
Installable(h) == h.rotation => h.oracle /\ replica.generation # None

(* One event; whether the sink takes it or fails, the seam goes on. *)
Tell(event) == told' = event

Silent == told' = None

Finish(c) == call' = [call EXCEPT ![c] = Idle]

FailEncode(c, class) ==
    /\ Finish(c)
    /\ Tell([type |-> "ContentEncodeFailed", class |-> class])

(* Mutation of OracleStale: the age of the oracle's data is not looked at.    *)
OracleStaleNever(now) == FALSE

(* resolve_rotation_generation: the oracle's data is too old, or from later.  *)
OracleStale(now) == now < replica.synced \/ now - replica.synced > Freshness

(* encode_record_content up to the codec: the host has drawn up the payload   *)
(* and read the clock.  An oracle is asked when it last synced, and for its   *)
(* generation after that: two calls, and no lock over them.                   *)
Write(c, place, post, form, now) ==
    /\ call[c] = Idle
    /\ IF hooks.oracle /\ OracleStale(now)
       THEN /\ FailEncode(c, "RotationStateUnavailable")
       ELSE /\ call' = [call EXCEPT ![c] =
                  [phase |-> IF hooks.oracle THEN "asking" ELSE "encoding",
                   place |-> place, list |-> audience[place], post |-> post,
                   payload |-> Payload(post, form), hooks |-> hooks, now |-> now,
                   generation |-> None]]
            /\ Silent
    /\ UNCHANGED <<hostClock, oracleVars, hostVars, store, posted, slugs, masks>>

(* The second half of resolve_rotation_generation: whatever the replica holds *)
(* by now.                                                                    *)
ResolveGeneration(c) ==
    /\ call[c].phase = "asking"
    /\ call' = [call EXCEPT ![c].phase = "encoding", ![c].generation = replica.generation]
    /\ UNCHANGED <<hostClock, oracleVars, hostVars, store, posted, slugs, masks>>
    /\ Silent

(* Mutation of StampedCodec: the hooks are asked for their codec once more,   *)
(* after the await.                                                           *)
StampedCodecLate(e) == hooks.id

(* The codec that was taken from the hooks when the call began.               *)
StampedCodec(e) == e.hooks.id

(* The codec's answer: laquna needs a generation and a slug from the CSRNG; an *)
(* operator's codec fails as its backend does.  The record is stamped with    *)
(* the codec's id and the generation that was resolved.                       *)
CodecEncodes(c) ==
    LET e == call[c]
        artifact == [codec |-> e.hooks.id, seed |-> Seed(e.hooks, e.place, e.list),
                     slug |-> SlugFor(e.generation), payload |-> e.payload]
    IN  /\ e.phase = "encoding"
        /\ e.hooks.rotation => e.generation # None
        /\ slugs < MaxDraws
        /\ slugs' = slugs + 1
        /\ masks' = IF e.hooks.rotation THEN masks \cup {Mask(artifact)} ELSE masks
        /\ call' = [call EXCEPT ![c] =
              [phase |-> "encoded", place |-> e.place, list |-> e.list, post |-> e.post,
               now |-> e.now,
               encoded |-> [codec |-> StampedCodec(e), content |-> artifact,
                            generation |-> e.generation]]]
        /\ Tell([type |-> "ContentEncoded", codec |-> StampedCodec(e),
                 generation |-> e.generation])
        /\ UNCHANGED <<hostClock, oracleVars, hostVars, store, posted>>

CodecRefuses(c) ==
    /\ call[c].phase = "encoding"
    /\ \E class \in {"BackendUnavailable", "RotationStateUnavailable", "DeadlineExceeded"} :
          /\ class = "DeadlineExceeded" => ~call[c].hooks.rotation
          /\ class = "RotationStateUnavailable" <=>
                call[c].hooks.rotation /\ call[c].generation = None
          /\ FailEncode(c, class)
    /\ UNCHANGED <<hostClock, oracleVars, hostVars, store, posted, slugs, masks>>

(* The host drops the call at its await: no event tells of it. *)
Abandon(c) ==
    /\ call[c].phase \in {"encoding", "decoding"}
    /\ Finish(c)
    /\ UNCHANGED <<hostClock, oracleVars, hostVars, store, posted, slugs, masks>>
    /\ Silent

(* The host puts the encoded content and the clear fields into the record that *)
(* is there, with or without its text, and stores it if                       *)
(* validate_record_for_write lets it.                                         *)
StoreRecord(c) ==
    LET e == call[c]
        base == store[e.place]
    IN
    /\ e.phase = "encoded"
    /\ \E text \in {None, base.text} :
          LET r == [text |-> text, content |-> e.encoded.content, codec |-> e.encoded.codec,
                    generation |-> e.encoded.generation, clear |-> ApplyTo(base, e.post)]
          IN  IF ValidRecord(r)
              THEN /\ store' = [store EXCEPT ![e.place] = r]
                   /\ posted' = posted \cup
                         {[place |-> e.place, list |-> e.list, post |-> e.post]}
                   /\ Silent
              ELSE /\ UNCHANGED <<store, posted>>
                   /\ Tell([type |-> "MalformedRecordRejected"])
    /\ Finish(c)
    /\ UNCHANGED <<hostClock, oracleVars, hostVars, slugs, masks>>

-----------------------------------------------------------------------------
(* An authorized read: validate_record_for_read, then decode_record_content   *)
(* on the hooks of the moment, at the place the record was found.             *)

FailDecode(c, class) ==
    /\ Finish(c)
    /\ Tell([type |-> "ContentDecodeFailed", class |-> class])

Read(c, place) ==
    LET r == store[place] IN
    /\ call[c] = Idle
    /\ r.content # None
    /\ IF ~ValidRecord(r)
         THEN Finish(c) /\ Tell([type |-> "MalformedRecordRejected"])
       ELSE IF r.codec # hooks.id
         THEN FailDecode(c, "UnknownOrWrongCodec")
         ELSE /\ call' = [call EXCEPT ![c] =
                    [phase |-> "decoding", record |-> r, hooks |-> hooks,
                     place |-> place, list |-> audience[place]]]
              /\ Silent
    /\ UNCHANGED <<hostClock, oracleVars, hostVars, store, posted, slugs, masks>>

CodecDecodes(c) ==
    LET d == call[c]
        found == Decode(d.hooks, d.record.content, Seed(d.hooks, d.place, d.list))
    IN  /\ d.phase = "decoding"
        /\ IF found = None
           THEN /\ call' = [call EXCEPT ![c] =
                      [phase |-> "answered", read |-> d, got |-> None]]
                /\ Tell([type |-> "ContentDecodeFailed", class |-> "Malformed"])
           ELSE /\ call' = [call EXCEPT ![c] =
                      [phase |-> "answered", read |-> d, got |-> FromPayload(found)]]
                /\ Silent
        /\ UNCHANGED <<hostClock, oracleVars, hostVars, store, posted, slugs, masks>>

(* An operator's codec may fail as its backend does. *)
CodecCannotDecode(c) ==
    /\ call[c].phase = "decoding"
    /\ ~call[c].hooks.rotation
    /\ FailDecode(c, "BackendUnavailable")
    /\ UNCHANGED <<hostClock, oracleVars, hostVars, store, posted, slugs, masks>>

Answered(c) ==
    /\ call[c].phase = "answered"
    /\ Finish(c)
    /\ UNCHANGED <<hostClock, oracleVars, hostVars, store, posted, slugs, masks>>
    /\ Silent

-----------------------------------------------------------------------------
(* The host, its audiences and the rotation of the deployment. *)

Move == moves < MaxMoves /\ moves' = moves + 1

Install(h) ==
    /\ Move
    /\ h # hooks
    /\ Installable(h)
    /\ hooks' = h
    /\ UNCHANGED <<hostClock, oracleVars, audience, store, posted, call, slugs, masks>>
    /\ Silent

MoveAudience(place, list) ==
    /\ Move
    /\ list # audience[place]
    /\ audience' = [audience EXCEPT ![place] = list]
    /\ UNCHANGED <<hostClock, oracleVars, hooks, store, posted, call, slugs, masks>>
    /\ Silent

CopyRecord(from, to) ==
    /\ Move
    /\ store[from] # store[to] /\ store[from].content # None
    /\ store' = [store EXCEPT ![to] = store[from]]
    /\ UNCHANGED <<hostClock, oracleVars, hooks, audience, posted, call, slugs, masks>>
    /\ Silent

(* A generation is named by the instant at which it began. *)
Rotate ==
    /\ hostClock \notin rotations
    /\ rotations' = rotations \cup {hostClock}
    /\ UNCHANGED <<hostClock, replica, hostVars, store, posted, call, slugs, masks>>
    /\ Silent

(* The replica refreshes, or loses its generation for a while. *)
Sync ==
    /\ replica' \in {[generation |-> Max(rotations), synced |-> hostClock],
                     [replica EXCEPT !.generation = None]}
    /\ UNCHANGED <<hostClock, rotations, hostVars, store, posted, call, slugs, masks>>
    /\ Silent

HostTick ==
    /\ hostClock < MaxHostTime
    /\ hostClock' = hostClock + 1
    /\ UNCHANGED <<oracleVars, hostVars, store, posted, call, slugs, masks>>
    /\ Silent

(* Records of before the codec: plain text, which validation lets stand.      *)
PostInit ==
    /\ hostClock = 0
    /\ rotations = {0}
    /\ replica = [generation |-> 0, synced |-> 0]
    /\ hooks \in {h \in Hooks : Installable(h)}
    /\ \E list \in Audience : audience = [p \in Place |-> list]
    /\ \E post \in Post :
          store = [p \in Place |->
              [text |-> post.text, content |-> None, codec |-> None, generation |-> None,
               clear |-> ClearFields(post)]]
    /\ call = [c \in Call |-> Idle]
    /\ moves = 0 /\ posted = {}
    /\ slugs = 1 /\ masks = {} /\ told = None

PostNext ==
    \/ HostTick \/ Rotate \/ Sync
    \/ \E h \in Hooks : Install(h)
    \/ \E p \in Place, list \in Audience : MoveAudience(p, list)
    \/ \E p, q \in Place : CopyRecord(p, q)
    \/ \E c \in Call :
          \/ \E p \in Place, post \in Post, now \in {hostClock, hostClock - 1} \cap Nat :
                \E form \in Forms(post) : Write(c, p, post, form, now)
          \/ ResolveGeneration(c) \/ CodecEncodes(c) \/ CodecRefuses(c) \/ StoreRecord(c)
          \/ \E p \in Place : Read(c, p)
          \/ CodecDecodes(c) \/ CodecCannotDecode(c) \/ Answered(c) \/ Abandon(c)

PostSpec == PostInit /\ [][PostNext]_postVars

-----------------------------------------------------------------------------
(* Properties *)

(* What a reader gets was posted where it reads, to the audience it reads for *)
(* where the seeds bind one: never a record that was copied from elsewhere or *)
(* written before its audience changed, and never what another codec's bytes  *)
(* happen to decode to, however edits overlap and whichever hooks were        *)
(* installed while a codec was at work.                                       *)
ReadersGetWhatWasPosted ==
    \A c \in Call : call[c].phase = "answered" /\ call[c].got # None =>
        \E w \in posted :
            /\ w.place = call[c].read.place /\ w.post = call[c].got
            /\ w.list = call[c].read.list \/ call[c].read.hooks.policy = "DidNsidRkey"

(* The clear fields of every encoded record are those a reader derives from   *)
(* what it decodes, after any number of edits by overlapping calls: none is   *)
(* left over from an earlier version.  And no record carries its text beside  *)
(* its encoded content.                                                       *)
ClearFieldsAgree ==
    \A p \in Place : store[p].content # None =>
        /\ store[p].clear = ClearFields(FromPayload(store[p].content.payload))
        /\ store[p].text = None

(* No two artifacts share the mask of a record: not over an edit, not in two  *)
(* calls at once, not within one generation, not by the retry of a call that  *)
(* was abandoned.                                                             *)
MaskNeverReused ==
    [][\A c \in Call :
          call[c].phase = "encoding" /\ call'[c].phase = "encoded" /\ call[c].hooks.rotation
              => Mask(call'[c].encoded.content) \notin masks]_postVars

(* No record is stamped with a generation that had been replaced longer than  *)
(* the freshness bound before the call's own clock: however old the replica   *)
(* was, and whatever it became between the two questions and while the codec  *)
(* was at work.                                                               *)
StampedFresh ==
    \A c \in Call :
        LET generation == call[c].encoded.generation IN
        call[c].phase = "encoded" /\ generation # None =>
            ~\E later \in rotations :
                 generation < later /\ later + Freshness < call[c].now
=============================================================================
