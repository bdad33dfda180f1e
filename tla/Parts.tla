-------------------------------- MODULE Parts --------------------------------
(***************************************************************************)
(* The parts that work alone, side by side.  They share no state, so       *)
(* a behaviour exercises one of them, the one named in part, and the rest  *)
(* stay as they are.  What has no state at all, PackedArgs and StringRefs, *)
(* is looked at in the one state of "none".                                *)
(*                                                                         *)
(* The module extends the one of the queue scheduler, whose names appear   *)
(* without a prefix.  With no rule in Contract its coroutines make any     *)
(* call; TypeOK and QueueOK are its properties.                            *)
(***************************************************************************)
EXTENDS QueueRuntime

CONSTANTS
  Elem, Other,                             \* values, of one kind and another
  Junk, Growth, MaxCap,                    \* RingQueue
  Key, MapGrowth, Load, MaxNodes,          \* HashMap
  FirstCap, Sizes, MaxAllocs,              \* Arena
  MaxClients,                              \* ClientList
  Extra, MaxLen                            \* Strings

VARIABLES
  part,
  elems, start, end, cap,                                          \* RingQueue
  cells, table_cap, free, node_max, last_call,                     \* HashMap
  arenas, given,                                                   \* Arena
  next, prev, open, clients, free_clients, allocated,              \* ClientList
  str, text                                                        \* Strings

Ring == INSTANCE RingQueue
Table == INSTANCE HashMap WITH
           Value <- Elem, Growth <- MapGrowth, cap <- table_cap, call <- last_call
Memory == INSTANCE Arena
List == INSTANCE ClientList
Text == INSTANCE Strings WITH Name <- Elem, Char <- Other
Packed == INSTANCE PackedArgs
References == INSTANCE StringRefs

ASSUME PartsAssumption ==
  /\ Ring!RingAssumption /\ Table!MapAssumption /\ Memory!ArenaAssumption
  /\ List!ClientListAssumption /\ Text!StringsAssumption

ringVars == <<elems, start, end, cap>>
tableVars == <<cells, table_cap, free, node_max, last_call>>
memoryVars == <<arenas, given>>
listVars == <<next, prev, open, clients, free_clients, allocated>>
textVars == <<str, text>>
schedulerVars == vars
allVars == <<part, ringVars, tableVars, memoryVars, listVars, textVars, schedulerVars>>

PartsInit ==
  /\ part \in {"ring", "table", "memory", "list", "text", "scheduler", "none"}
  /\ Init /\ Ring!Init /\ Table!Init /\ Memory!Init /\ List!Init /\ Text!Init
  /\ occupant[1] = CHOOSE c \in Coroutine : TRUE

RingStep ==
  /\ part = "ring" /\ Ring!Next
  /\ UNCHANGED <<part, tableVars, memoryVars, listVars, textVars, schedulerVars>>
TableStep ==
  /\ part = "table" /\ Table!Next
  /\ UNCHANGED <<part, ringVars, memoryVars, listVars, textVars, schedulerVars>>
MemoryStep ==
  /\ part = "memory" /\ Memory!Next
  /\ UNCHANGED <<part, ringVars, tableVars, listVars, textVars, schedulerVars>>
ListStep ==
  /\ part = "list" /\ List!Next
  /\ UNCHANGED <<part, ringVars, tableVars, memoryVars, textVars, schedulerVars>>
TextStep ==
  /\ part = "text" /\ Text!Next
  /\ UNCHANGED <<part, ringVars, tableVars, memoryVars, listVars, schedulerVars>>
SchedulerStep ==
  /\ part = "scheduler" /\ Next
  /\ UNCHANGED <<part, ringVars, tableVars, memoryVars, listVars, textVars>>

PartsNext == RingStep \/ TableStep \/ MemoryStep \/ ListStep \/ TextStep \/ SchedulerStep

PartsSpec == PartsInit /\ [][PartsNext]_allVars

------------------------------------------------------------------------------
(* What is popped from the ring, at either end, is what a double-ended queue would
   give, and its indices stay in the array (storage.h). *)
ImplementsDeque == Ring!ImplementsDeque
RingOK == Ring!TypeOK /\ Ring!NoJunkInside

(* hash_map_find finds what a finite map would; each node is in the chain that is
   searched for its key, and the table expands in time (hashmap.c). *)
ImplementsMap == Table!ImplementsMap
TableOK == Table!TypeOK /\ Table!ChainsOK /\ Table!LoadOK

(* No byte of the arena's memory is given out twice, and a block ends at its chunk's
   cap at the latest, which is inside the memory of the first chunk (arena.c). *)
ArenaOK == Memory!NoByteTwice /\ Memory!WithinCap

(* The links of open records agree, and the assertions of server_new_client and
   server_close_client hold (echo_epoll.c). *)
ListOK == List!ListOK

(* Strings hold what the calls say, within their capacity, and trimming and
   splitting agree with their definitions (str.c). *)
StringsOK ==
  /\ Text!HoldsText /\ Text!CapacityOK
  /\ part = "none" => References!TrimsBlanks /\ References!SplitsWords

(* What pack has put in a buffer, unpack gets out again, arguments of another length or
   that pack refused never (io.c). *)
PackOK == part = "none" => Packed!RoundTrip /\ Packed!LengthNoticed /\ Packed!RefusalNoticed
==============================================================================
