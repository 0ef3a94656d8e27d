--------------------------- MODULE AttachmentText ---------------------------
(***************************************************************************)
(* What the chat layer makes of an attachment once it is stored: which     *)
(* uploads are accepted, who may bind one to a message, and how much of    *)
(* its text reaches the prompt.  A text is its length, an extension stands *)
(* for its row of EXT_RULES, a file for the type its first bytes show.     *)
(***************************************************************************)
EXTENDS Naturals, Sequences, FiniteSets, SequencesExt, FiniteSetsExt

CONSTANTS
    Threshold,      \* _INDEX_THRESHOLD_CHARS
    MaxPerMessage,  \* MAX_ATTACHMENTS_PER_MESSAGE
    MaxAudioBytes,  \* AUDIO_PART_MAX_BYTES
    TopK            \* snippets a retrieval returns at most

-----------------------------------------------------------------------------
(* Accepting an upload                                                     *)

\* The rows of EXT_RULES, by the sort of extension: a signature to match, the
\* MIME types a browser may declare.  Text formats have no signature.
Rules ==
    [ pdf   |-> [mimes |-> {"application/pdf"}, heads |-> {"pdf"}],
      png   |-> [mimes |-> {"image/png"}, heads |-> {"png"}],
      docx  |-> [mimes |-> {"application/zip", "application/octet-stream"}, heads |-> {"zip"}],
      doc   |-> [mimes |-> {"application/msword", "application/octet-stream"}, heads |-> {"ole2", "rtf"}],
      csv   |-> [mimes |-> {"text/csv", "text/plain"}, heads |-> {}] ]
Images == {"png"}
Audio == {"mp3"}
TextLike == {"csv"}
IsText(mime) == mime \in {"text/csv", "text/plain", "text/html"}

\* _validate_extension: a type nobody allows, or a declared MIME type that
\* contradicts the extension.  octet-stream, no type at all and text/* for text
\* formats pass.
ValidateExtension(ext, mime, allowed) ==
    IF ext \notin allowed THEN "type_not_allowed"
    ELSE IF \/ ext \notin DOMAIN Rules \/ mime \in {"", "application/octet-stream"}
            \/ Rules[ext].mimes = {} \/ mime \in Rules[ext].mimes
            \/ IsText(mime) /\ ext \in TextLike
         THEN "ok" ELSE "mime_mismatch"

\* check_file_signature
SignatureMatches(ext, head) ==
    ext \in DOMAIN Rules /\ Rules[ext].heads # {} => head \in Rules[ext].heads

\* LocalStorage.save counts the bytes while they stream; the partial file goes.
StoredBytes(size, cap) == IF size > cap THEN 0 ELSE size

\* upload: "ok" is the only outcome that leaves a file.
UploadOutcome(f, allowed, unbound, cap) ==
    IF unbound >= MaxPerMessage THEN "limit"
    ELSE LET v == ValidateExtension(f.ext, f.mime, allowed) IN
         IF v # "ok" THEN v
         ELSE IF StoredBytes(f.size, cap) < f.size THEN "too_large"
         ELSE IF ~SignatureMatches(f.ext, f.head) THEN "signature_mismatch"
         ELSE "ok"
-----------------------------------------------------------------------------
(* Binding: an attachment of these operators is a record [id, user, conv,  *)
(* message, ext, text, bytes, status, indexed].                            *)

ById(rows, id) == CHOOSE a \in rows : a.id = id
Known(rows, id) == \E a \in rows : a.id = id
Mine(a, user, conv) == a.user = user /\ a.conv = conv

\* resolve_and_bind_attachments: all or nothing.
BindOutcome(rows, ids, user, conv) ==
    IF Len(ids) > MaxPerMessage THEN "limit"
    ELSE IF \E i \in DOMAIN ids : ~Known(rows, ids[i]) THEN "not_found"
    ELSE IF \E i \in DOMAIN ids : ~Mine(ById(rows, ids[i]), user, conv) THEN "forbidden"
    ELSE "ok"
Bound(rows, ids, user, conv, message) ==
    IF BindOutcome(rows, ids, user, conv) # "ok" THEN rows
    ELSE {IF a.id \in ToSet(ids) THEN [a EXCEPT !.message = message] ELSE a : a \in rows}
-----------------------------------------------------------------------------
(* The text of an attachment in a prompt                                   *)

Least(a, b) == IF a < b THEN a ELSE b

\* should_index: what the parse indexes ahead of any question.
ShouldIndex(text) == text > Threshold

\* _attachment_context: all of a small text; of a large one the snippets that
\* answer the query, or its head when there is no index.
Context(a, budget, snippet) ==
    IF a.text = 0 THEN [id |-> a.id, as |-> "nothing", chars |-> 0]
    ELSE IF a.text <= budget THEN [id |-> a.id, as |-> "whole", chars |-> a.text]
    ELSE IF a.indexed THEN [id |-> a.id, as |-> "snippets", chars |-> TopK * snippet]
    ELSE [id |-> a.id, as |-> "head", chars |-> budget]

\* smart_attachment_text: this turn's documents, images excepted; an id that is
\* not the user's is left out without a word.
SmartText(rows, ids, user, conv, budget, snippet) ==
    LET shown(id) == /\ Known(rows, id)
                     /\ Mine(ById(rows, id), user, conv)
                     /\ ById(rows, id).ext \notin Images
                     /\ ById(rows, id).text > 0
        kept == SelectSeq(ids, shown)
    IN [i \in DOMAIN kept |-> Context(ById(rows, kept[i]), budget, snippet)]

\* history_attachment_texts: per earlier message, all that is bound to it and not
\* deleted, cut at the budget.
HistoryRows(rows, messages, user, conv) ==
    {a \in rows : a.message \in messages /\ Mine(a, user, conv) /\ a.status # "deleted"}
HistoryChars(rows, messages, user, conv, budget, snippet) ==
    LET hit == HistoryRows(rows, messages, user, conv)
        chars(m) == MapThenSumSet(LAMBDA a : Context(a, budget, snippet).chars,
                                  {a \in hit : a.message = m})
    IN [m \in {a.message : a \in {x \in hit : x.text > 0}} |-> Least(chars(m), budget)]
-----------------------------------------------------------------------------
(* Media parts                                                             *)

\* collect_image_parts and collect_audio_parts: the user's own, of the right
\* kind, and readable; a file that cannot be read is skipped.
PartIds(rows, ids, user, conv, exts, loads(_)) ==
    SelectSeq(ids, LAMBDA id : /\ Known(rows, id)
                               /\ Mine(ById(rows, id), user, conv)
                               /\ ById(rows, id).ext \in exts
                               /\ loads(ById(rows, id)))
\* _load_image_part, _load_audio_part
ImageLoads(a) == a.status # "deleted"
AudioLoads(a) == a.status # "deleted" /\ a.bytes <= MaxAudioBytes
ImageParts(rows, ids, user, conv) == PartIds(rows, ids, user, conv, Images, ImageLoads)
AudioParts(rows, ids, user, conv) == PartIds(rows, ids, user, conv, Audio, AudioLoads)

\* The longer edge of an image after its resize, never under one pixel.
ResizedEdges(w, h, edge) ==
    LET long == IF w > h THEN w ELSE h
        scaled(x) == IF long <= edge THEN x
                     ELSE IF (x * edge) \div long < 1 THEN 1 ELSE (x * edge) \div long
    IN <<scaled(w), scaled(h)>>
-----------------------------------------------------------------------------
(* Artifacts                                                               *)

\* _get_owned: an artifact of another tenant, or one past its expiry, does not
\* exist for the caller; an administrator sees all owners' artifacts.
ArtifactVisible(a, user, admin, now) ==
    (a.owner = user \/ admin) /\ (a.expires = 0 \/ a.expires > now)

\* open verifies before it hands out a byte; open_stream after the last one.
OpenOutcome(a, user, admin, now) ==
    IF ~ArtifactVisible(a, user, admin, now) THEN "not_found"
    ELSE IF a.stored # a.checksum THEN "checksum_mismatch" ELSE "bytes"
StreamedChunks(a, user, admin, now, chunks) ==
    IF ArtifactVisible(a, user, admin, now) THEN chunks ELSE 0

\* list_for_owner
Listed(artifacts, user, now, withExpired) ==
    {a \in artifacts : a.owner = user /\ (withExpired \/ a.expires = 0 \/ a.expires > now)}
=============================================================================
