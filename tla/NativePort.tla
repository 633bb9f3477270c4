------------------------------ MODULE NativePort ------------------------------
(***************************************************************************)
(* What the browser extension and native-msg-proxy share: the two streams    *)
(* the browser puts between them, and the ends of it.  The browser delivers  *)
(* in order; what an end wrote before it closed is still delivered.          *)
(***************************************************************************)
EXTENDS Naturals, Sequences

VARIABLES
    stdin,      \* messages to the proxy
    stdout,     \* frames to the extension
    port,       \* "open", "closed" for the extension, "gone" with the browser
    ppc         \* the main thread of the proxy: "reading"; in client.Stop(), which
                \* waits ("stopping") or terminates ("killing"); "leaving", "exited"

portVars == <<stdin, stdout, port, ppc>>

PortInit == stdin = <<>> /\ stdout = <<>> /\ port = "open" /\ ppc = "reading"

\* fwrite to stdout; with the browser gone it fails and nobody minds.
Push(frame) ==
    stdout' = IF port = "open" THEN Append(stdout, frame) ELSE stdout

\* port.postMessage; on a closed port it throws out of the handler.
Post(messages) ==
    stdin' = IF port = "open" THEN stdin \o messages ELSE stdin
=============================================================================
