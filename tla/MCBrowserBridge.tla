--------------------------- MODULE MCBrowserBridge ---------------------------
(* The extension and the proxy on small instances, for TLC. *)
EXTENDS BrowserBridge
=============================================================================
