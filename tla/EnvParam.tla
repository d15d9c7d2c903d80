------------------------------ MODULE EnvParam ------------------------------
(***************************************************************************)
(* The tools for the boot loader's environment, apps/set_env_param and     *)
(* apps/get_env_param.  The environment is a sector of strings name=value, *)
(* each ended by a NUL, and the whole ended by another NUL.  set_env_param *)
(* copies it to memory character by character, changes it on the way and   *)
(* writes the whole sector back; nothing keeps two of them apart.  The two *)
(* programs have different rules for what a name matches and for where     *)
(* the environment ends, so the characters matter here.                    *)
(*                                                                         *)
(* A sector is the sequence of its characters after the CRC, up to the     *)
(* NULs that fill it.  A memory picture that is longer than the sector     *)
(* runs over the allocated block; what is written then is its beginning.   *)
(***************************************************************************)
EXTENDS Integers, Sequences, FiniteSets, SequencesExt

CONSTANTS
  Tools,      \* running set_env_param processes
  Names,      \* parameter names, sequences of characters
  Values,     \* values to set, sequences of characters
  MaxParams,  \* entries of params_arr (500)
  SectorSize, \* characters after the CRC (ENV_SIZE)
  MaxRead,    \* characters get_env_param keeps of a name or a value (255)
  Sectors,    \* what the sector may hold at first
  MaxSets     \* bound: calls of set_env_param

NUL == "NUL"
Eq == "="
EOF == "EOF"        \* the character that fgetc's EOF becomes
Delete == <<NUL>>   \* param_value == NULL: the parameter is to be deleted

SeqRange(s) == {s[i] : i \in DOMAIN s}

ASSUME NamesAssumption == \A n \in Names : n # <<>> /\ {NUL, Eq} \cap SeqRange(n) = {}
ASSUME CharsAssumption == Names \cup Values \cup Sectors \subseteq Seq(STRING)
ASSUME ValuesAssumption == \A v \in Values : NUL \notin SeqRange(v)
ASSUME BoundsAssumption == MaxParams \in Nat \ {0} /\ MaxSets \in Nat
ASSUME SizeAssumption == SectorSize \in Nat /\ MaxRead \in Nat \ {0}

VARIABLES
  sector,  \* /dev/mtdblock3
  tool,    \* the set_env_param processes
  sets,    \* calls so far
  outgrown \* history: a picture was written that the sector has no room for

vars == <<sector, tool, sets, outgrown>>

NoTool == [pc |-> "none", name |-> <<>>, value |-> <<>>, read |-> <<>>, picture |-> <<>>]

Init ==
  /\ sector \in Sectors
  /\ tool = [t \in Tools |-> NoTool]
  /\ sets = 0
  /\ outgrown = FALSE

-----------------------------------------------------------------------------
(* set_env_param: the memory picture *)

\* The strings and the two NULs that end them are within the sector.
Fits(pic) == Len(pic) + 2 <= SectorSize

\* params_arr[0].name_ptr + 0x10000: past the block, which has the CRC in front.
ByteLimit == SectorSize + 4

\* strcpy(buf + i, w)
StrCpy(buf, i, w) ==
  SubSeq(buf, 1, i - 1) \o w \o <<NUL>> \o SubSeq(buf, i + Len(w) + 1, Len(buf))

\* *(curr_str++) = c
Put(st, c) ==
  [st EXCEPT !.buf = IF st.cur > Len(@) THEN Append(@, c) ELSE [@ EXCEPT ![st.cur] = c],
             !.cur = @ + 1]

\* Mutant: the next entry starts where the last one did.
NextEntryMutant(st) == [st EXCEPT !.idx = @ + 1]

\* curr_str_idx++, and the next name is empty.
NextEntry(st) ==
  [st EXCEPT !.idx = @ + 1, !.name = st.cur,
             !.buf = IF st.cur > Len(@) THEN Append(@, NUL) ELSE [@ EXCEPT ![st.cur] = NUL]]

\* Mutant: the text is searched for the name.
MatchesMutant(st, n) ==
  \E i \in st.name .. Len(st.buf) : IsPrefix(n, SubSeq(st.buf, i, Len(st.buf)))

\* !strncmp(name_ptr, param_name, strlen(param_name))
Matches(st, n) == IsPrefix(n, SubSeq(st.buf, st.name, Len(st.buf)))

\* Mutant: what follows is put behind the old value.
OverwriteMutant(st, v) == NextEntry([st EXCEPT !.buf = StrCpy(@, st.value, v), !.found = TRUE])

\* The value after the last '=' is replaced.  (A string without '=', as in an
\* outgrown sector, has no value_ptr; nothing is claimed of such a sector.)
Overwrite(st, v) ==
  NextEntry([st EXCEPT !.buf = StrCpy(@, st.value, v),
                       !.cur = st.value + Len(v) + 1,
                       !.found = TRUE])

\* The next string is read over this one.
Unset(st) ==
  [st EXCEPT !.buf[st.name] = NUL, !.cur = st.name, !.found = TRUE]

\* One turn of the reading loop.
Turn(st, c, n, v) ==
  IF st.done THEN st
  ELSE IF st.idx >= MaxParams \/ st.cur > ByteLimit
         THEN [Put(st, NUL) EXCEPT !.full = TRUE, !.done = TRUE]
  ELSE LET s == Put(st, c) IN
       CASE c = Eq -> [s EXCEPT !.value = s.cur]
         [] c = NUL /\ s.buf[s.name] = NUL -> [s EXCEPT !.cur = @ - 1, !.done = TRUE]
         [] c = NUL /\ s.buf[s.name] # NUL ->
              IF ~Matches(s, n) THEN NextEntry(s)
              ELSE IF v = Delete THEN Unset(s)
              ELSE Overwrite(s, v)
         [] OTHER -> s

StartPicture ==
  [buf |-> <<NUL>>, cur |-> 1, idx |-> 0, name |-> 1, value |-> 1,
   found |-> FALSE, full |-> FALSE, done |-> FALSE]

\* The picture after each of the characters of text.
Pictures(text, n, v) ==
  LET st[i \in 0 .. Len(text)] ==
        IF i = 0 THEN StartPicture ELSE Turn(st[i - 1], text[i], n, v)
  IN st

\* All of the sector is read if no end is found in it.
ReadLoop(sec, n, v) ==
  LET text == IF Fits(sec) THEN sec \o <<NUL, NUL>> ELSE sec \o <<EOF>>
  IN Pictures(text, n, v)[Len(text)]

\* The sector as set_env_param n v will write it.
Picture(sec, n, v) ==
  LET st == ReadLoop(sec, n, v) IN
  IF ~st.found /\ v # Delete /\ ~st.full
    THEN StrCpy(st.buf, st.cur, n \o <<Eq>> \o v)
    ELSE st.buf

-----------------------------------------------------------------------------
(* get_env_param *)

\* One character: the name is what comes before the first '=', the value what
\* comes after the last one.  Of each the first MaxRead characters are kept,
\* but a longer name loses the last of them to the NUL; a NUL that is not kept
\* leaves the name or the value without an end, and such a name is taken for
\* none.  The end of the environment is not looked for.
ReadChar(st, c, n) ==
  IF st.found THEN st
  ELSE CASE c = Eq ->
              [st EXCEPT !.param = IF Len(@) < MaxRead THEN @ ELSE SubSeq(@, 1, MaxRead - 1),
                         !.value = <<>>, !.inValue = TRUE]
         [] c = NUL -> IF st.param = n /\ Len(n) < MaxRead
                         THEN [st EXCEPT !.found = TRUE]
                         ELSE [st EXCEPT !.param = <<>>, !.value = <<>>, !.inValue = FALSE]
         [] OTHER ->
              IF st.inValue
                THEN [st EXCEPT !.value = IF Len(@) < MaxRead THEN Append(@, c) ELSE @]
                ELSE [st EXCEPT !.param = IF Len(@) < MaxRead THEN Append(@, c) ELSE @]

NotFound == <<NUL>>
Garbled == <<NUL, NUL>>   \* a value is printed with what follows it in memory

\* What get_env_param n prints.
Get(sec, n) ==
  LET st == FoldLeft(LAMBDA s, c : ReadChar(s, c, n),
                     [param |-> <<>>, value |-> <<>>, inValue |-> FALSE, found |-> FALSE],
                     IF Fits(sec) THEN sec \o <<NUL>> ELSE sec)
  IN CASE ~st.found -> NotFound
       [] st.found /\ Len(st.value) < MaxRead -> st.value
       [] OTHER -> Garbled

-----------------------------------------------------------------------------
(* Processes *)

\* set_env_param n v, or set_env_param n: the sector is read and changed in
\* memory ...
ReadSector(t) ==
  /\ tool[t].pc = "none"
  /\ sets < MaxSets
  /\ \E n \in Names, v \in Values \cup {Delete} :
       tool' = [tool EXCEPT ![t] =
                  [pc |-> "read", name |-> n, value |-> v, read |-> sector,
                   picture |-> Picture(sector, n, v)]]
  /\ sets' = sets + 1
  /\ UNCHANGED <<sector, outgrown>>

\* ... and written back, as far as the sector goes.
WriteSector(t) ==
  /\ tool[t].pc = "read"
  /\ LET pic == tool[t].picture IN
     IF Fits(pic) THEN sector' = pic /\ UNCHANGED outgrown
     ELSE sector' = SubSeq(pic \o <<NUL, NUL>>, 1, SectorSize) /\ outgrown' = TRUE
  /\ tool' = [tool EXCEPT ![t] = NoTool]
  /\ UNCHANGED sets

\* The second fopen fails, or the program does not survive having written over
\* the end of its memory: nothing is written.
OpenFails(t) ==
  /\ tool[t].pc = "read"
  /\ tool' = [tool EXCEPT ![t] = NoTool]
  /\ UNCHANGED <<sector, sets, outgrown>>

Next == \E t \in Tools : ReadSector(t) \/ WriteSector(t) \/ OpenFails(t)

Spec == Init /\ [][Next]_vars

-----------------------------------------------------------------------------
(* The environment as the boot loader reads it *)

\* Where the strings begin: at the start and after each NUL, up to an empty one.
Starts(sec) ==
  LET text == sec \o <<NUL, NUL>>
      begins == {i \in 1 .. Len(text) : i = 1 \/ text[i - 1] = NUL}
  IN {i \in begins : \A j \in begins : j <= i => text[j] # NUL}

\* The string that begins at i.
StringAt(sec, i) ==
  LET text == sec \o <<NUL>>
      end == CHOOSE e \in i .. Len(text) :
               text[e] = NUL /\ \A j \in i .. e - 1 : text[j] # NUL
  IN SubSeq(text, i, end - 1)

HasEq(s) == Eq \in SeqRange(s)

NameOf(s) ==
  LET e == CHOOSE i \in DOMAIN s : s[i] = Eq /\ \A j \in 1 .. i - 1 : s[j] # Eq
  IN SubSeq(s, 1, e - 1)

NamesIn(sec) == {NameOf(StringAt(sec, i)) : i \in Starts(sec)}

\* Up to its end it consists of name=value strings with different names, no
\* more than params_arr has room for.
Environment(sec) ==
  /\ \A i \in Starts(sec) : HasEq(StringAt(sec, i))
  /\ NamesIn(sec) \subseteq Names
  /\ Cardinality(Starts(sec)) = Cardinality(NamesIn(sec))
  /\ Cardinality(Starts(sec)) <= MaxParams

ASSUME SectorsAssumption == \A sec \in Sectors : Environment(sec) /\ Fits(sec)

-----------------------------------------------------------------------------
(* Properties *)

\* Every variable has its type.
TypeOK ==
  /\ sets \in 0 .. MaxSets
  /\ outgrown \in BOOLEAN
  /\ \A t \in Tools :
       /\ tool[t].pc \in {"none", "read"}
       /\ tool[t].pc = "read" =>
            tool[t].name \in Names /\ tool[t].value \in Values \cup {Delete}

\* The sector is an environment at all times, although each one was built in
\* place over longer and shorter strings, as long as it has room for what is
\* set.
Parses == TypeOK /\ (outgrown \/ Environment(sector))

\* t writes back a sector that nobody changed since it was read.
Undisturbed(t) == WriteSector(t) /\ sector = tool[t].read /\ ~outgrown'

\* A longer name that begins with n.
Shadowed(sec, n) == \E m \in NamesIn(sec) : m # n /\ IsPrefix(n, m)

\* A name that get_env_param cuts down to n.
CutTo(sec, n) ==
  \E m \in NamesIn(sec) : Len(m) >= MaxRead /\ n = SubSeq(m, 1, MaxRead - 1)

\* The value of n ends in n, or in a string that begins with n and '=': behind
\* the end of the environment such a rest looks like the parameter n.
Echoed(sec, n) ==
  \E i \in Starts(sec) :
    LET s == StringAt(sec, i) IN
    NameOf(s) = n /\ \E j \in Len(n) + 2 .. Len(s) :
      LET rest == SubSeq(s, j, Len(s)) IN rest = n \/ IsPrefix(n \o <<Eq>>, rest)

\* What was set is what get_env_param reads, and what was deleted is not found
\* again, in what is left behind the end of the environment neither.  Excepted
\* are a full params_arr, names that begin a longer one, values with a '=', what
\* is too long for get_env_param, and the deletion of a parameter whose value
\* repeats its name.
SetIsRead ==
  [][\A t \in Tools :
       LET n == tool[t].name
           v == tool[t].value
       IN /\ Undisturbed(t)
          /\ ~Shadowed(sector, n)
          /\ n \in NamesIn(sector) \/ Cardinality(NamesIn(sector)) < MaxParams
          /\ Len(n) < MaxRead
          => IF v = Delete
               THEN n \notin NamesIn(sector') /\ (Echoed(sector, n) \/ Get(sector', n) = NotFound)
               ELSE HasEq(v) \/ Len(v) >= MaxRead \/ Get(sector', n) = v]_vars

\* The parameters whose name does not begin with the one set keep their values.
OthersKept ==
  [][\A t \in Tools : Undisturbed(t) =>
       \A m \in NamesIn(sector) : ~IsPrefix(tool[t].name, m) /\ ~CutTo(sector, m) =>
         m \in NamesIn(sector') /\ Get(sector', m) = Get(sector, m)]_vars

\* "if the specified parameter already exists, overwrite it": no other
\* parameter is overwritten.
OnlySpecified ==
  [][\A t \in Tools : Undisturbed(t) =>
       \A m \in NamesIn(sector) \ {tool[t].name} : Get(sector', m) = Get(sector, m)]_vars
=============================================================================
