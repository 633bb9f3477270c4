------------------------------ MODULE MsgProcess ------------------------------
(***************************************************************************)
(* From a request to the handler and back (include/msg-process.hpp).         *)
(*                                                                           *)
(* A request is what a client wrote: [object, cmd, val].  object says        *)
(* whether it parses as a JSON object; cmd and val are <<>> where the member *)
(* is missing or is no string, and <<the string>> otherwise.  A command is a *)
(* string, a val a text as in ApiStrings.                                    *)
(***************************************************************************)
EXTENDS ApiStrings, Integers, Sequences

SM_SRV_RPLY_OK == 0
SM_SRV_RPLY_NOREPLY == -2
URL_STRUCT_SIZE == 16       \* sizeof(SM_SRV_URL_STRUCT)

\* CompareNoCase(_T("url")) = 0, for the spellings the model uses.
IsUrl(cmd) == cmd \in {"url", "URL"}

\* get_string_val succeeds, and nUrlSize is not 0.
HasText(val) == val # <<>> /\ val[1] # <<>>

\* The requests for which process_message calls the handler.
Calls(request) ==
    /\ request.object
    /\ request.cmd # <<>> /\ IsUrl(request.cmd[1])
    /\ HasText(request.val)

UrlOffset == URL_STRUCT_SIZE

\* The SM_SRV_URL_STRUCT it hands over: header, bytes, terminator.
UrlStruct(request) ==
    LET bytes == Utf8(request.val[1])
    IN  [structSize |-> URL_STRUCT_SIZE + Len(bytes) + 1,
         urlOffset |-> UrlOffset,
         urlSize |-> Len(bytes),
         mem |-> [o \in 1..URL_STRUCT_SIZE |-> Junk] \o bytes \o <<NUL>>]

\* What send_message_to_sender passes to server.SendMessage: nothing, or the
\* handler's result with the two members of the request.
Reply_Always(request, nReply) ==
    <<[rply |-> nReply, cmd |-> request.cmd[1], val |-> request.val[1]]>>
Reply(request, nReply) ==
    IF nReply = SM_SRV_RPLY_NOREPLY THEN <<>>
    ELSE <<[rply |-> nReply, cmd |-> request.cmd[1], val |-> request.val[1]]>>
=============================================================================
