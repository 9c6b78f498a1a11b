--------------------------- MODULE ClipboardSync ---------------------------
(* What portix_rdp's clipboard sync decides (infrastructure/clipboard.rs):   *)
(* given the last text that crossed the channel, what to remember and what   *)
(* the session loop is to do.                                                *)
CONSTANT NoText  \* a clipboard that holds no text, or an empty one

Act(type, text) == [type |-> type, text |-> text]
Nothing == Act("nothing", NoText)
Sync(last, action) == [last |-> last, action |-> action]

\* Mutant: only the first text is announced.
OnLocalText_First(last, text) ==
    IF text = NoText \/ last # NoText THEN Sync(last, Nothing)
                                      ELSE Sync(text, Act("announce", text))

\* on_local_text: the poll announces a text that is not the last one.
OnLocalText(last, text) ==
    IF text \in {NoText, last} THEN Sync(last, Nothing)
                               ELSE Sync(text, Act("announce", text))

\* Mutant: a text written to the local clipboard is not remembered.
OnRemoteEvent_Forgets(last, event, local) ==
    CASE event.type = "format_list" -> Sync(local, Act("announce", local))
      [] event.type = "copied" /\ event.text # NoText -> Sync(last, Act("request", NoText))
      [] event.type = "data_request" -> Sync(last, Act("send", local))
      [] event.type = "text" -> Sync(last, Act("write", event.text))
      [] OTHER -> Sync(last, Nothing)

\* on_remote_event, for what ClipboardBackend queues; local is the clipboard
\* as it is now.  An error response is never queued.
OnRemoteEvent(last, event, local) ==
    CASE event.type = "format_list" -> Sync(local, Act("announce", local))
      [] event.type = "copied" ->
            Sync(last, IF event.text = NoText THEN Nothing ELSE Act("request", NoText))
      [] event.type = "data_request" -> Sync(last, Act("send", local))
      [] event.type = "text" ->
            IF event.text = last THEN Sync(last, Nothing)
                                 ELSE Sync(event.text, Act("write", event.text))
      [] event.type = "error" -> Sync(last, Nothing)
============================================================================
