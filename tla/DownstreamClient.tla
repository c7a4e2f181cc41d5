--------------------------- MODULE DownstreamClient ---------------------------
(***************************************************************************)
(* The client of a downstream server (downstream_client, downstream.py):   *)
(* by the server's transport, one that owns a child process (StdioClient)  *)
(* or one that speaks HTTP (HttpClient).  The other does not exist.        *)
(***************************************************************************)
EXTENDS StdioClient

CONSTANTS Tools, Cursors, Sessions, Nothing, Invalid, MaxPages

VARIABLES step, session, wanted, cursor, seen, found, asked, given

httpVars == <<step, session, wanted, cursor, seen, found, asked, given>>

Http == INSTANCE HttpClient

ASSUME PagesAssumption == Http!ListingAssumption

NoChild ==
    /\ child = "exited"
    /\ pipe = << >>
    /\ held = << >>
    /\ reader = "gone"
    /\ queue = << >>
    /\ worker = "finished"
    /\ next = 1
    /\ closing = [c \in Closers |-> "done"]
    /\ closed = FALSE
    /\ stop = FALSE
    /\ written = << >>
    /\ consumed = << >>

NoSession ==
    /\ step = "closed"
    /\ session = Nothing
    /\ wanted = Nothing
    /\ cursor = Nothing
    /\ seen = {}
    /\ found = << >>
    /\ asked = << >>
    /\ given = << >>

ClientInit == (Init /\ NoSession) \/ (NoChild /\ Http!Init)

ClientNext ==
    \/ Next /\ UNCHANGED httpVars
    \/ Http!Next /\ UNCHANGED vars

ClientSpec == ClientInit /\ [][ClientNext]_<<vars, httpVars>> /\ Fairness

(* A listing of an HTTP server is one walk along its pages that does not   *)
(* turn back and returns all it met (HttpClient.list_tools).               *)
ListingIsWhole == Http!ListingIsWhole
=============================================================================
