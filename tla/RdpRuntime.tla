----------------------------- MODULE RdpRuntime -----------------------------
(* One RDP session from the inside (infrastructure/rdp_client.rs, with       *)
(* clipboard.rs, license_cache.rs and domain/profile.rs): how run connects,  *)
(* with its one retry, and the loop that shows the server's screen and keeps *)
(* the two clipboards the same.                                              *)
(*                                                                           *)
(* The server is external: it answers or not, and sends what it likes.  So   *)
(* are the two people who copy text, one on each side.  Commands from the    *)
(* manager are the subject of RdpSession; here there is only its             *)
(* cancellation.                                                             *)
EXTENDS Integers, Sequences, ClipboardSync

CONSTANTS Texts,       \* what is copied
          Profiles,    \* profiles from the app's editor
          Files,       \* .rdp files the user imports
          MaxCopies,   \* bound on the copies made, on both sides together
          MaxUpdates   \* bound on the server's screen updates

ASSUME BoundsAssumption == MaxCopies \in Nat /\ MaxUpdates \in Nat
ASSUME TextAssumption == NoText \notin Texts
ASSUME InputsAssumption == \A p \in Profiles : p.credssp \in BOOLEAN

VARIABLES profile,     \* what the session connects with
          pc,          \* where run is
          result,      \* what it returned
          attempts,    \* the attempts to connect: [credssp, stub, bypass]
          retry,       \* the attempt about to be made
          repaired,    \* a license PDU was replaced
          cancelled,   \* the session's token
          image, dirty, shown,  \* updates decoded, frame_dirty, updates sent
          drawable,             \* the image has pixels to send
          local, remote,        \* the clipboards: [text, from]
          last,                 \* ClipboardSync.last_text
          toServer, fromServer, \* the clipboard channel
          writeFailed, \* no text crossed since one was not written locally
          unsent,      \* the last announcement or request was not built
          copies

connVars == <<profile, pc, result, attempts, retry, repaired>>
screenVars == <<image, dirty, shown, drawable>>
clipVars == <<local, remote, last, toServer, fromServer, writeFailed, unsent, copies>>
vars == <<connVars, cancelled, screenVars, clipVars>>

-----------------------------------------------------------------------------
(* Profiles.                                                                 *)

\* What the runtime and validate look at; share is the local folder or "".
Profile(credssp, user, clipboard, drives, share) ==
    [credssp |-> credssp, user |-> user, clipboard |-> clipboard,
     drives |-> drives, share |-> share]

\* User names PSM@token and PAM@token are a CyberArk gateway's.
IsCyberarkPam(p) == p.user \in {"psm", "pam"}

\* validate: drive redirection needs a folder.  (A profile without id, host,
\* port or user is refused likewise and never gets here.)
Valid(p) == p.drives => p.share # ""
HasLocalShare(p) == p.drives /\ p.share # ""

\* The channels try_connect attaches.
Channels(p) == (IF HasLocalShare(p) THEN {"rdpdr", "rdpsnd"} ELSE {})
               \cup (IF p.clipboard THEN {"cliprdr"} ELSE {})

\* The app's own parser makes the profile of an imported file: it knows one
\* spelling of the key for CredSSP, and takes a missing one for no.  (What the
\* parser in Rust makes of the file is dropped by the bridge.)
AppParse(f) ==
    LET drives == f.drives = 1 \/ f.store
    IN Profile(f.key = "mixed" /\ f.value = 1, f.user, TRUE, drives,
               IF drives THEN "default" ELSE "")

Init ==
    /\ profile \in Profiles \cup {AppParse(f) : f \in Files}
    /\ Valid(profile)
    /\ pc = "try" /\ result = "none" /\ attempts = <<>> /\ repaired = FALSE
    /\ retry = [credssp |-> profile.credssp, stub |-> IsCyberarkPam(profile), bypass |-> FALSE]
    /\ cancelled = FALSE
    /\ image = 0 /\ dirty = FALSE /\ shown = 0 /\ drawable = TRUE
    /\ local \in [text : Texts \cup {NoText}, from : {"user"}]
    /\ remote \in [text : Texts \cup {NoText}, from : {"user"}]
    /\ last = NoText /\ toServer = <<>> /\ writeFailed = FALSE
    /\ unsent = FALSE /\ copies = 0
    /\ fromServer = << Act("format_list", NoText) >>

-----------------------------------------------------------------------------
(* Connecting.                                                               *)

Return(what) == pc' = "ended" /\ result' = what

\* try_connect begins: nothing is dialled for a session already cancelled.
TryConnect ==
    /\ pc = "try"
    /\ IF cancelled
       THEN Return("cancelled") /\ UNCHANGED attempts
       ELSE /\ pc' = "tcp"
            /\ attempts' = Append(attempts, retry)
            /\ UNCHANGED result
    /\ UNCHANGED <<profile, retry, repaired, cancelled, screenVars, clipVars>>

Stages == <<"tcp", "begin", "tls", "finalize", "active">>
After(stage) == Stages[1 + CHOOSE i \in 1..4 : Stages[i] = stage]

\* The TCP connect, connect_begin and the TLS upgrade answer in time.
StageDone ==
    /\ pc \in {"tcp", "begin", "tls"}
    /\ pc' = After(pc)
    /\ UNCHANGED <<profile, result, attempts, retry, repaired, cancelled,
                   screenVars, clipVars>>

\* Each is given CONNECT_TIMEOUT; an error ends run, with or without NLA, and
\* so does one of connect_finalize that is none of the license.
StageFails ==
    /\ pc \in {"tcp", "begin", "tls", "finalize"}
    /\ \E why \in {"timeout", IF pc = "tcp" THEN "io" ELSE "negotiation"} : Return(why)
    /\ UNCHANGED <<profile, attempts, retry, repaired, cancelled, screenVars, clipVars>>

Attempt == attempts[Len(attempts)]

\* connect_finalize_with_license_bypass puts a message that the license is
\* valid in the place of a license PDU that does not decode.
Repairs(license) == license = "malformed" /\ Attempt.bypass /\ ~Attempt.credssp

Finalize(license) ==
    /\ pc = "finalize"
    /\ license = "good" \/ Repairs(license)
    /\ pc' = "active"
    /\ repaired' = (license # "good")
    /\ drawable' \in BOOLEAN   \* the desktop size is the server's
    /\ UNCHANGED <<profile, result, attempts, retry, cancelled,
                   image, dirty, shown, clipVars>>

\* Mutant: the retry leaves NLA out, as the license repair needs.
LicenseFails_Downgrade(license) ==
    /\ pc = "finalize" /\ license # "good" /\ Len(attempts) = 1
    /\ pc' = "try"
    /\ retry' = [credssp |-> FALSE, stub |-> TRUE, bypass |-> TRUE]
    /\ UNCHANGED <<profile, result, attempts, repaired, cancelled, screenVars, clipVars>>

\* What connect_finalize ends with, if it does not succeed: the text of the
\* error tells a license error from another.
FinalizeErrors(license) ==
    {"timeout", "negotiation"}
    \cup {e \in {"LicenseExchangeState"} : license # "good" /\ ~Repairs(license)}
IsLicenseError(error) == error = "LicenseExchangeState"

\* A license error of the first attempt is answered with a second, with the
\* stub cache and the same security; its own ends run.
LicenseFails(license) ==
    /\ pc = "finalize"
    /\ \E error \in FinalizeErrors(license) : IsLicenseError(error)
    /\ IF Len(attempts) = 1
       THEN /\ pc' = "try"
            /\ retry' = [credssp |-> profile.credssp, stub |-> TRUE, bypass |-> TRUE]
            /\ UNCHANGED result
       ELSE Return("license") /\ UNCHANGED retry
    /\ UNCHANGED <<profile, attempts, repaired, cancelled, screenVars, clipVars>>

Connecting == \/ TryConnect \/ StageDone \/ StageFails
              \/ \E license \in {"good", "malformed", "garbage"} :
                    Finalize(license) \/ LicenseFails(license)

-----------------------------------------------------------------------------
(* The session loop: one arm of its select! at a time.                       *)

Cancel ==
    /\ ~cancelled
    /\ cancelled' = TRUE
    /\ UNCHANGED <<connVars, screenVars, clipVars>>

\* Mutant: the token is looked at with the clipboard only.
SeeCancelled_Clipboard ==
    /\ pc = "active" /\ cancelled /\ "cliprdr" \in Channels(profile)
    /\ Return("cancelled")
    /\ UNCHANGED <<profile, attempts, retry, repaired, cancelled, screenVars, clipVars>>

SeeCancelled ==
    /\ pc = "active" /\ cancelled
    /\ Return("cancelled")
    /\ UNCHANGED <<profile, attempts, retry, repaired, cancelled, screenVars, clipVars>>

\* Terminate ends the session well; a read, a write or a PDU that fails does
\* not.
ServerEnds ==
    /\ pc = "active"
    /\ \E what \in {"ok", "protocol", "io"} : Return(what)
    /\ UNCHANGED <<profile, attempts, retry, repaired, cancelled, screenVars, clipVars>>

\* Mutant: the first image is marked, one that changes is not.
GraphicsUpdate_MarkFirst ==
    /\ pc = "active" /\ image < MaxUpdates
    /\ image' = image + 1
    /\ dirty' = (image = 0 \/ dirty)
    /\ UNCHANGED <<connVars, cancelled, shown, drawable, clipVars>>

\* A PDU with a graphics update changes the image and marks it.
GraphicsUpdate ==
    /\ pc = "active" /\ image < MaxUpdates
    /\ image' = image + 1
    /\ dirty' = TRUE
    /\ UNCHANGED <<connVars, cancelled, shown, drawable, clipVars>>

\* An image without pixels, or shorter than its size says, is not sent.
EmitFullFrame == shown' = IF drawable THEN image ELSE shown

\* Every 33 ms a marked image is sent whole, whatever updates it took; the
\* mark goes even if nothing was sent.
FrameTick ==
    /\ pc = "active" /\ dirty
    /\ EmitFullFrame
    /\ dirty' = FALSE
    /\ UNCHANGED <<connVars, cancelled, image, drawable, clipVars>>

HasClipboard == pc = "active" /\ "cliprdr" \in Channels(profile)

\* apply_clipboard_action.  A text is put on the local clipboard, which may
\* fail; a message is built and sent, and one that cannot be built is dropped.
\* Either failure is logged and forgotten.  (The channel is there, as
\* HasClipboard says.)
WriteLocal(text) ==
    /\ \/ local' = [text |-> text, from |-> "remote"] /\ writeFailed' = FALSE
       \/ writeFailed' = TRUE /\ UNCHANGED local
    /\ UNCHANGED <<toServer, unsent>>

SendMessage(m) ==
    /\ \/ toServer' = Append(toServer, m) /\ unsent' = (m.type = "send" /\ unsent)
       \/ unsent' = (m.type = "send" => unsent) /\ UNCHANGED toServer
    /\ writeFailed' = (m.type # "announce" /\ writeFailed)
    /\ UNCHANGED local

Apply(action) ==
    CASE action = Nothing -> UNCHANGED <<local, toServer, writeFailed, unsent>>
      [] action.type = "write" -> WriteLocal(action.text)
      [] OTHER -> SendMessage(action)

\* get_text, whose failure counts as an empty clipboard.
Readings == {local.text, NoText}

\* Every second the local clipboard is looked at.
ClipboardTick ==
    /\ HasClipboard
    /\ \E text \in Readings :
          LET sync == OnLocalText(last, text)
          IN last' = sync.last /\ Apply(sync.action)
    /\ UNCHANGED <<connVars, cancelled, screenVars, remote, fromServer, copies>>

\* A PDU of the clipboard channel; its event is taken from the backend's
\* queue and answered before the loop goes on.
ClipboardPdu ==
    /\ HasClipboard /\ fromServer # <<>>
    /\ \E text \in Readings :
          LET sync == OnRemoteEvent(last, Head(fromServer), text)
          IN last' = sync.last /\ Apply(sync.action)
    /\ fromServer' = Tail(fromServer)
    /\ UNCHANGED <<connVars, cancelled, screenVars, remote, copies>>

-----------------------------------------------------------------------------
(* The server's end of the clipboard channel, and the two users.             *)

Tell(type, text) == fromServer' = Append(fromServer, Act(type, text))

\* The server takes a message: an announcement makes its clipboard stand for
\* the local one; a request is answered with its own text, if it has one.
ServerTakes ==
    LET m == Head(toServer)
    IN /\ HasClipboard /\ toServer # <<>>
       /\ toServer' = Tail(toServer)
       /\ remote' = IF m.type = "announce" /\ m.text # NoText
                    THEN [text |-> NoText, from |-> "local"] ELSE remote
       /\ IF m.type = "request"
          THEN Tell(IF remote.from = "user" /\ remote.text # NoText THEN "text" ELSE "error",
                    remote.text)
          ELSE UNCHANGED fromServer
       /\ UNCHANGED <<connVars, cancelled, screenVars, local, last, writeFailed, unsent,
                      copies>>

\* Somebody pastes there, which asks for the local text.
RemotePaste ==
    /\ HasClipboard /\ copies < MaxCopies
    /\ remote.from = "local"
    /\ Tell("data_request", NoText)
    /\ copies' = copies + 1
    /\ UNCHANGED <<connVars, cancelled, screenVars, local, remote, last, toServer, writeFailed,
                   unsent>>

\* Somebody copies there: a text, or what is not text.
RemoteCopy(t) ==
    /\ HasClipboard /\ copies < MaxCopies
    /\ remote' = [text |-> t, from |-> "user"]
    /\ Tell("copied", t)
    /\ copies' = copies + 1
    /\ UNCHANGED <<connVars, cancelled, screenVars, local, last, toServer, writeFailed,
                   unsent>>

LocalCopy(t) ==
    /\ HasClipboard /\ copies < MaxCopies
    /\ local' = [text |-> t, from |-> "user"]
    /\ copies' = copies + 1
    /\ UNCHANGED <<connVars, cancelled, screenVars, remote, last, toServer, fromServer,
                   writeFailed, unsent>>

Next == \/ Connecting \/ Cancel \/ SeeCancelled \/ ServerEnds
        \/ GraphicsUpdate \/ FrameTick \/ ClipboardTick \/ ClipboardPdu
        \/ ServerTakes \/ RemotePaste
        \/ \E t \in Texts \cup {NoText} : RemoteCopy(t) \/ LocalCopy(t)

Spec == Init /\ [][Next]_vars

\* Timeouts bound every stage of connecting; select! picks a ready arm at
\* random, so that none is passed over for ever; reading the local clipboard
\* succeeds at some time; the server reads its end.
Fairness == /\ WF_vars(Connecting) /\ WF_vars(SeeCancelled) /\ WF_vars(FrameTick)
            /\ WF_vars(ClipboardTick) /\ WF_vars(ClipboardPdu) /\ WF_vars(ServerTakes)
FairSpec == Spec /\ Fairness

-----------------------------------------------------------------------------
(* Properties.                                                               *)

\* No failure makes a session weaker: run makes at most two attempts, each
\* with NLA exactly if the profile says so, and the license repair, which
\* leaves CredSSP out, is only ever made for a profile without it, on the
\* attempt after a license error.
NlaNeverDropped ==
    /\ Len(attempts) <= 2
    /\ \A i \in DOMAIN attempts : attempts[i].credssp = profile.credssp
    /\ repaired => ~profile.credssp /\ Len(attempts) = 2

\* A cancelled session dials no more, not even for the retry, and ends,
\* whatever it is doing.
CancelRespected ==
    /\ [][Len(attempts') > Len(attempts) => ~cancelled]_vars
    /\ cancelled ~> pc = "ended"

\* A text never bounces back: what came from the remote clipboard and still
\* is on the local one is not announced to the remote, with one exception.
\* After a text that could not be written locally the older one, whichever
\* side it came from, looks new and is announced; that ends with the next text
\* that crosses.
NoBounce ==
    [][Len(toServer') > Len(toServer) /\ toServer'[Len(toServer')].type = "announce" =>
          local.from # "remote" \/ writeFailed]_vars

\* When nobody copies any more the two clipboards come to hold the same, in
\* whatever order copies and messages crossed, as long as they hold text; a
\* text that was not written locally is made up for, an announcement or a
\* request that could not be built is not.
InSync == remote.from = "local" \/ NoText \in {remote.text, local.text}
          \/ remote.text = local.text
Converges == <>[](~HasClipboard \/ InSync \/ unsent)

\* The last update is shown, however updates and ticks interleave, unless the
\* server's desktop has no pixels.
FramesShown == \A n \in 1..MaxUpdates :
                  (image = n /\ pc = "active" /\ drawable) ~> (shown >= n \/ pc = "ended")
=============================================================================
