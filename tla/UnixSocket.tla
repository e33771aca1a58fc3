----------------------------- MODULE UnixSocket -----------------------------
(* The unix source: processes that capture what is sent to a socket in the
   filesystem, started with the same pathname one after another or at the same
   time. A process that is killed leaves its socket behind, and the next one has
   to tell it from a socket in use.                                           *)
EXTENDS Naturals

CONSTANTS
    Captors         \* the processes

ASSUME CaptorAssumption == {"none", "stale"} \cap Captors = {}

VARIABLES
    named,      \* the process whose socket has the pathname, or "stale" or "none"
    spc,        \* where each process is in the life of its unix_socket
    connected,  \* those whose socket is connected to another, and hears no other
    raced       \* two processes have started or stopped at the same time

unixVars == <<named, spc, connected, raced>>

UnixStart ==
    /\ named = "none"
    /\ spc = [c \in Captors |-> "absent"]
    /\ connected = {}
    /\ raced = FALSE

Moves(c, place) == spc' = [spc EXCEPT ![c] = place]
Changing(c) == spc[c] \notin {"absent", "capturing"}
MeetsAnother(c) == raced' = (raced \/ \E other \in Captors \ {c} : Changing(other))

StartCaptor(c) ==
    /\ spc[c] = "absent"
    /\ Moves(c, "opened")
    /\ MeetsAnother(c)
    /\ UNCHANGED <<named, connected>>

(* Whether the pathname is that of a socket. If there is nothing of that name
   the answer is read from a variable that was not initialised. *)
Look(c) ==
    /\ spc[c] = "opened"
    /\ \/ Moves(c, "trying")
       \/ named = "none" /\ Moves(c, "binding")
    /\ UNCHANGED <<named, connected, raced>>

(* It is in use if it can be connected to: that is an error, but one that is
   caught at once, and left to bind to notice. *)
TryUnlinksAlways(c) == "unlinking"                                 \* mutant
TryThen(c) == IF named = "stale" THEN "unlinking" ELSE "binding"
Try(c) ==
    /\ spc[c] = "trying"
    /\ connected' = IF named \in Captors THEN connected \cup {c} ELSE connected
    /\ Moves(c, TryThen(c))
    /\ UNCHANGED <<named, raced>>

UnlinkStale(c) ==
    /\ spc[c] = "unlinking"
    /\ named' = "none"
    /\ Moves(c, "binding")
    /\ UNCHANGED <<connected, raced>>

BindSocket(c) ==
    /\ spc[c] = "binding" /\ named = "none"
    /\ named' = c
    /\ Moves(c, "capturing")
    /\ UNCHANGED <<connected, raced>>

(* bind throws, and the socket is closed without having had a name. *)
BindSocketThrows(c) ==
    /\ spc[c] = "binding" /\ named # "none"
    /\ Moves(c, "absent")
    /\ connected' = connected \ {c}
    /\ UNCHANGED <<named, raced>>

(* The destructor unlinks the pathname, whoever has it, before it closes the
   socket. *)
UnlinkOwn(c) ==
    /\ spc[c] = "capturing"
    /\ named' = "none"
    /\ Moves(c, "closing")
    /\ MeetsAnother(c)
    /\ UNCHANGED connected

CloseOwn(c) ==
    /\ spc[c] = "closing"
    /\ Moves(c, "absent")
    /\ connected' = connected \ {c}
    /\ UNCHANGED <<named, raced>>

KillCaptor(c) ==
    /\ spc[c] # "absent"
    /\ named' = IF named = c THEN "stale" ELSE named
    /\ Moves(c, "absent")
    /\ connected' = connected \ {c}
    /\ UNCHANGED raced

UnixNext ==
    \E c \in Captors :
        \/ StartCaptor(c) \/ Look(c) \/ Try(c) \/ UnlinkStale(c)
        \/ BindSocket(c) \/ BindSocketThrows(c)
        \/ UnlinkOwn(c) \/ CloseOwn(c) \/ KillCaptor(c)

UnixSpec == UnixStart /\ [][UnixNext]_unixVars

-----------------------------------------------------------------------------
(* A process that captures hears what is sent to the pathname: nobody takes the
   name of a socket in use, however many processes have tried, stopped or been
   killed before, as long as no two did so at the same time. (If two did, one
   may unlink the socket that the other has just bound, or be left connected to
   a socket that is gone.) *)
CapturingIsHeard ==
    \A c \in Captors :
        (spc[c] = "capturing" /\ ~raced) => (named = c /\ c \notin connected)

UnixTyped ==
    /\ named \in Captors \cup {"none", "stale"}
    /\ spc \in [Captors -> {"absent", "opened", "trying", "unlinking", "binding",
                           "capturing", "closing"}]
    /\ connected \subseteq Captors
    /\ raced \in BOOLEAN

(* Why nobody takes a name in use: as long as no two processes have started or
   stopped at the same time, a socket with the pathname is that of a process that
   captures, the name is unlinked only when it is stale, and what is connected
   to another has found its name taken and has still to notice. *)
OneAtATime ==
    ~raced =>
        /\ \A c, d \in Captors : Changing(c) /\ Changing(d) => c = d
        /\ named \in Captors => spc[named] = "capturing"
        /\ \A c \in Captors : spc[c] = "unlinking" => named = "stale"
        /\ \A c \in connected : spc[c] = "binding" /\ named # "none"

UnixInv == UnixTyped /\ CapturingIsHeard /\ OneAtATime
=============================================================================
