----------------------------- MODULE MCGmailIngest -----------------------------
\* A behaviour is a pull, or it is about one input of normalize(), which has no state:
\* the pull of such a behaviour is one that is refused.
EXTENDS GmailIngest, GmailNormalize

Attachments == [m \in 1..N |-> IF m = 1 THEN 1 ELSE 0]

-----------------------------------------------------------------------------
(* Payloads: a container of at most three parts, each a leaf or a container *)
(* of two leaves; leaves and inner containers may be attachments.           *)

Part(filename, attachmentId, disposition, mimeType, data, parts) ==
    [filename |-> filename, attachmentId |-> attachmentId, disposition |-> disposition,
     mimeType |-> mimeType, data |-> data, parts |-> parts]

Leaf ==
    {Part("", Absent, Absent, type, data, <<>>) :
       type \in {"text/plain", "text/html"}, data \in {"x", "y"}}
    \cup {Part("", Absent, Absent, "text/plain", Absent, <<>>),
          Part("f", Absent, Absent, "text/plain", "x", <<>>),
          Part("", "id", "inline", "image/png", Absent, <<>>),
          Part("", Absent, "attachment", "text/html", "y", <<>>)}

Container(filename, parts) ==
    Part(filename, Absent, Absent, "multipart/mixed", Absent, parts)

Inner == {Container(f, <<a, b>>) : f \in {"", "f"}, a \in Leaf, b \in Leaf}

Payload ==
    Leaf \cup {Container("", <<a, b>>) : a \in Leaf \cup Inner, b \in Leaf \cup Inner}
    \cup {Container("", <<a, b, c>>) : a \in Leaf, b \in Leaf, c \in Leaf}

\* Mailboxes, with names that hold what the code looks for.
Name == {<<>>, <<"a">>} \cup {<<"a", ch, "a">> : ch \in {",", "<", ">", Blank}}
        \cup {<<"<", ",">>, <<">", ",">>}
Mailboxes == [handle : {<<"a">>}, displayName : Name]

VARIABLE input

Input ==
    [payload : Payload]
    \cup [from : {<<a, b>> : a, b \in Mailboxes}, to : {<<c>> : c \in Mailboxes}]
Asks(fields) == DOMAIN input = fields

MCInit ==
    /\ Init
    /\ \/ input = [nothing |-> 0]
       \/ at = "unsupported" /\ arrived = 0 /\ life = 0 /\ ~refreshToken /\ input \in Input

MCNext == (IF Asks({"nothing"}) THEN Next ELSE Refuses) /\ UNCHANGED input

MCSpec == MCInit /\ [][MCNext]_<<vars, input>> /\ WF_vars(Step)

\* The pulls of a full sync.
FullSyncs == MCSpec /\ at = "none"

-----------------------------------------------------------------------------

\* The body of a message is its first text part and its first html part in
\* document order, its attachments the topmost ones in that order, whatever the
\* nesting; nothing inside an attachment is taken for the body.  Its participants are
\* those of the address headers, in the order of their roles, and none beside, although
\* names hold commas and angle brackets.
NormalizeAgrees ==
    /\ Asks({"payload"}) => WalkAgrees(input.payload)
    /\ Asks({"from", "to"}) =>
         ReadBack(input.from, input.to, CHOOSE part \in Leaf : part.data = Absent)
===============================================================================
