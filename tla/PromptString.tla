---------------------------- MODULE PromptString ----------------------------
(***************************************************************************)
(* Reading a key (console.c): console_prompt_string, called once for each  *)
(* attempt, and the operator, who types ahead, types nothing, or hangs up. *)
(***************************************************************************)
EXTENDS Integers, Sequences

CONSTANTS
  Chars,     \* what is typed, other than NL and NUL
  NL, NUL,   \* '\n', '\0'
  EOF,       \* what getchar returns of a closed terminal, as a char
  MaxTyped,  \* characters that are typed
  MaxKey     \* where a key that has no end is cut off

ASSUME PromptAssumption ==
  /\ NL # NUL /\ EOF \notin {NL, NUL} /\ Chars \cap {NL, NUL} = {}
  /\ MaxTyped \in Nat /\ MaxKey \in Nat

VARIABLES
  typed,   \* everything that was typed
  closed,  \* the terminal was hung up
  got,     \* characters of it that getchar has returned
  pc,      \* "busy" between two prompts, "reading" or "returned"
  start,   \* got, when this prompt began
  key,     \* pc_key_buffer, without its NUL
  size     \* i_key_buffer_size

lineVars   == <<typed, closed>>
bufferVars == <<start, key, size>>
promptVars == <<lineVars, got, pc, bufferVars>>

PromptInit ==
  /\ typed = << >> /\ closed = FALSE
  /\ got = 0 /\ pc = "busy" /\ start = 0
  /\ key = << >> /\ size = 1

-----------------------------------------------------------------------------
(* The operator.                                                           *)

Type(c) ==
  /\ ~closed /\ Len(typed) < MaxTyped
  /\ typed' = Append(typed, c)
  /\ UNCHANGED <<closed, got, pc, bufferVars>>

\* A ^D that the C library forgets is a character like others.
Hangup ==
  /\ closed' = TRUE
  /\ UNCHANGED <<typed, got, pc, bufferVars>>

-----------------------------------------------------------------------------
(* console_prompt_string.                                                  *)

Prompt ==
  /\ pc # "reading"
  /\ pc' = "reading"
  /\ start' = got
  /\ key' = << >> /\ size' = 1
  /\ UNCHANGED <<lineVars, got>>

\* "'\n' == c_char && 1 != i_key_buffer_size", or the loop's own condition.
\* (MUTANTS: only NUL ends the key; a newline always does.)
EndsByNul(c) == c = NUL
EndsAtOnce(c) == c \in {NUL, NL}
Ends(c) == c = NUL \/ (c = NL /\ size # 1)

\* The buffer has room for the character, and gets room for the NUL.
Store(c) == key' = Append(key, c) /\ size' = size + 1

Read ==
  /\ pc = "reading" /\ got < Len(typed)
  /\ got' = got + 1
  /\ \/ /\ Ends(typed[got + 1])
        /\ pc' = "returned"
        /\ UNCHANGED bufferVars
     \/ /\ ~Ends(typed[got + 1])
        /\ Store(typed[got + 1])
        /\ UNCHANGED <<pc, start>>
  /\ UNCHANGED lineVars

\* End of file is not looked for: it is stored like a character.
ReadEof ==
  /\ pc = "reading" /\ got = Len(typed) /\ closed
  /\ Len(key) < MaxKey
  /\ Store(EOF)
  /\ UNCHANGED <<lineVars, got, pc, start>>

-----------------------------------------------------------------------------

PromptNext ==
  \/ \E c \in Chars \cup {NL, NUL} : Type(c)
  \/ Hangup \/ Prompt \/ Read \/ ReadEof

PromptSafety == PromptInit /\ [][PromptNext]_promptVars

\* getchar returns what there is.
PromptSpec == PromptSafety /\ WF_promptVars(Read \/ ReadEof)

=============================================================================
