------------------------------- MODULE FmtColor -------------------------------
(***************************************************************************)
(* Colours: a text_style combined from colours and emphases with |=, and   *)
(* text written under it, arguments with styles of their own among it, and *)
(* the logger's own colours.  An escape sequence is the sequence of its    *)
(* codes, each the sequence of its digits.                                 *)
(***************************************************************************)
EXTENDS Integers, Sequences, FiniteSets, Bitwise

CONSTANTS
  Parts,      \* styles to combine: [fg, bg, ems]
  Texts,      \* sequences of pieces to format: [kind, style, code]; kind is
              \* "plain", "styled" (an argument) or "colored" (colors::color)
  MaxParts,   \* bound on the combinations
  Colorized   \* PRESSIO_ENABLE_COLORIZED_OUTPUT

VARIABLES
  parts,      \* what has been combined, in order
  style,      \* the text_style
  failed,     \* report_error has thrown
  text, at,   \* the text, and how many of its pieces are written
  buf, phase, hasStyle
vars == <<parts, style, failed, text, at, buf, phase, hasStyle>>

NoColor == [kind |-> "none", value |-> <<>>]
Rgb(r, g, b)   == [kind |-> "rgb", value |-> <<r, g, b>>]
Terminal(code) == [kind |-> "terminal", value |-> <<code>>]
Style(fg, bg, ems) == [fg |-> fg, bg |-> bg, ems |-> ems]
Plain == Style(NoColor, NoColor, {})
Emphases == 1 .. 8   \* bits of the mask: bold .. strikethrough
------------------------------------------------------------------------------
(* |= of one colour, and when it throws.                                   *)
Combined(c, d) ==
  IF c = NoColor THEN d
  ELSE IF d = NoColor THEN c
  ELSE Rgb(c.value[1] | d.value[1], c.value[2] | d.value[2], c.value[3] | d.value[3])
Clash(c, d) == NoColor \notin {c, d} /\ ~ (c.kind = "rgb" /\ d.kind = "rgb")

(* Escape sequences of a colour, foreground (3) or background (4).         *)
Text(n)   == <<[codes |-> <<>>, text |-> n]>>
Escape(q) == <<[codes |-> q, text |-> 0]>>
TerminalDigits(n) ==
  (IF n >= 100 THEN <<1>> ELSE <<>>) \o <<(n % 100) \div 10, n % 10>>
ToEsc(c) == <<c \div 100, (c \div 10) % 10, c % 10>>

(* Mutant: the hundreds of a bright background are lost.                   *)
MakeColorTwoDigits(c, ground) ==
  IF c.kind = "terminal"
  THEN LET n == c.value[1] + (IF ground = 4 THEN 10 ELSE 0)
       IN Escape(<< <<(n \div 10) % 10, n % 10>> >>)
  ELSE Escape(<< <<ground, 8>>, <<2>>, ToEsc(c.value[1]), ToEsc(c.value[2]), ToEsc(c.value[3]) >>)
MakeColor(c, ground) ==
  IF c.kind = "terminal"
  THEN Escape(<< TerminalDigits(c.value[1] + (IF ground = 4 THEN 10 ELSE 0)) >>)
  ELSE Escape(<< <<ground, 8>>, <<2>>, ToEsc(c.value[1]), ToEsc(c.value[2]), ToEsc(c.value[3]) >>)

(* The emphases in the order of their bits; there is no code 6.            *)
EmCode(i) == IF i <= 5 THEN i ELSE i + 1
MakeEmphasis(ems) ==
  LET F[i \in 0 .. 8] ==
        IF i = 0 THEN <<>>
        ELSE F[i - 1] \o (IF i \in ems THEN Escape(<< <<EmCode(i)>> >>) ELSE <<>>)
  IN F[8]

(* Four characters each and a terminator, in a buffer of seven, three each *)
(* and one: all eight have no room.                                        *)
EscapeSize == 7 + 3 * Cardinality(Emphases) + 1
Fits(st)   == 4 * Cardinality(st.ems) + 1 <= EscapeSize

HasStyle(st)  == st # Plain
StyleStart(st) ==
  MakeEmphasis(st.ems)
    \o (IF st.fg # NoColor THEN MakeColor(st.fg, 3) ELSE <<>>)
    \o (IF st.bg # NoColor THEN MakeColor(st.bg, 4) ELSE <<>>)
ResetColor == Escape(<< <<0>> >>)

StyleEnd(st) == IF HasStyle(st) THEN ResetColor ELSE <<>>
------------------------------------------------------------------------------
Init == /\ parts = <<>> /\ style = Plain /\ failed = FALSE /\ hasStyle = FALSE
        /\ text \in Texts /\ at = 0 /\ buf = <<>> /\ phase = "combine"

(* operator|=: the foreground is changed before the background throws.     *)
Combine(rhs) ==
  /\ phase = "combine" /\ Len(parts) < MaxParts
  /\ parts' = Append(parts, rhs)
  /\ IF Clash(style.fg, rhs.fg) THEN failed' = TRUE /\ UNCHANGED style
     ELSE IF Clash(style.bg, rhs.bg)
     THEN failed' = TRUE /\ style' = [style EXCEPT !.fg = Combined(@, rhs.fg)]
     ELSE /\ style' = Style(Combined(style.fg, rhs.fg), Combined(style.bg, rhs.bg),
                            style.ems \cup rhs.ems)
          /\ UNCHANGED failed
  /\ phase' = IF failed' THEN "done" ELSE phase
  /\ UNCHANGED <<text, at, buf, hasStyle>>

(* vformat_to(buf, ts, ...)                                                *)
Begin ==
  /\ phase = "combine" /\ Fits(style)
  /\ buf' = StyleStart(style) /\ hasStyle' = HasStyle(style) /\ phase' = "write"
  /\ UNCHANGED <<parts, style, failed, text, at>>
WriteStyledArg(p) == StyleStart(p.style) \o Text(at + 1) \o StyleEnd(p.style)
WriteColored(p) ==
  IF Colorized THEN Escape(<< <<p.code \div 10, p.code % 10>> >>) \o Text(at + 1) \o ResetColor
  ELSE Text(at + 1)
WritePiece ==
  /\ phase = "write" /\ at < Len(text) /\ Fits(text[at + 1].style)
  /\ LET p == text[at + 1] IN
     buf' = buf \o (CASE p.kind = "plain"   -> Text(at + 1)
                      [] p.kind = "styled"  -> WriteStyledArg(p)
                      [] p.kind = "colored" -> WriteColored(p))
  /\ at' = at + 1 /\ UNCHANGED <<parts, style, failed, text, phase, hasStyle>>
End ==
  /\ phase = "write" /\ at = Len(text)
  /\ buf' = buf \o (IF hasStyle THEN ResetColor ELSE <<>>) /\ phase' = "done"
  /\ UNCHANGED <<parts, style, failed, text, at, hasStyle>>

(* The terminator is written behind the buffer: nothing more is claimed.   *)
Overrun ==
  /\ \/ phase = "combine" /\ ~ Fits(style)
     \/ phase = "write" /\ at < Len(text) /\ ~ Fits(text[at + 1].style)
  /\ phase' = "undefined" /\ UNCHANGED <<parts, style, failed, text, at, buf, hasStyle>>
Done == phase \in {"done", "undefined"} /\ UNCHANGED vars

Next == \/ \E rhs \in Parts : Combine(rhs)
        \/ Begin \/ WritePiece \/ End \/ Overrun \/ Done
Spec == Init /\ [][Next]_vars
------------------------------------------------------------------------------
(* A terminal that reads the codes: the style it draws with.               *)
NumberOf(q) == LET F[i \in 0 .. Len(q)] == IF i = 0 THEN 0 ELSE F[i - 1] * 10 + q[i] IN F[Len(q)]
EmOf(n) == CHOOSE i \in Emphases : EmCode(i) = n
Drawn(st, codes) ==
  LET n == [i \in DOMAIN codes |-> NumberOf(codes[i])] IN
  CASE n[1] = 0                       -> Plain
    [] n[1] = 38                      -> [st EXCEPT !.fg = Rgb(n[3], n[4], n[5])]
    [] n[1] = 48                      -> [st EXCEPT !.bg = Rgb(n[3], n[4], n[5])]
    [] n[1] \in 30 .. 37 \cup 90 .. 97   -> [st EXCEPT !.fg = Terminal(n[1])]
    [] n[1] \in 40 .. 47 \cup 100 .. 107 -> [st EXCEPT !.bg = Terminal(n[1] - 10)]
    [] OTHER                          -> [st EXCEPT !.ems = @ \cup {EmOf(n[1])}]
After[i \in Nat] ==
  IF i = 0 THEN Plain
  ELSE IF buf[i].codes = <<>> THEN After[i - 1] ELSE Drawn(After[i - 1], buf[i].codes)
Over(st, d) == Style(IF d.fg = NoColor THEN st.fg ELSE d.fg, IF d.bg = NoColor THEN st.bg ELSE d.bg,
                     st.ems \cup d.ems)
PieceStyle(p) == IF p.kind = "styled" THEN p.style
                 ELSE IF p.kind = "colored" /\ Colorized THEN Style(Terminal(p.code), NoColor, {})
                 ELSE Plain

(* Combining is a union: parts in any order give one style, each channel   *)
(* with the bits of all its colours, and it throws exactly when one of two *)
(* colours for the same place is a terminal colour.                        *)
CombiningIsUnion ==
  LET used == {parts[i] : i \in DOMAIN parts}
      fgs  == {i \in DOMAIN parts : parts[i].fg # NoColor}
      bgs  == {i \in DOMAIN parts : parts[i].bg # NoColor}
      OrAll(I, c(_)) == LET F[S \in SUBSET I] ==
                           IF S = {} THEN 0 ELSE LET i == CHOOSE j \in S : TRUE IN c(i) | F[S \ {i}]
                     IN F[I]
      OfFg(k) == LET c(i) == parts[i].fg.value[k] IN OrAll(fgs, c)
      OfBg(k) == LET c(i) == parts[i].bg.value[k] IN OrAll(bgs, c)
  IN /\ failed <=> \/ Cardinality(fgs) > 1 /\ \E i \in fgs : parts[i].fg.kind = "terminal"
                   \/ Cardinality(bgs) > 1 /\ \E i \in bgs : parts[i].bg.kind = "terminal"
     /\ ~ failed =>
          /\ style.ems = UNION {p.ems : p \in used}
          /\ style.fg.kind = "rgb" => style.fg.value = <<OfFg(1), OfFg(2), OfFg(3)>>
          /\ style.bg.kind = "rgb" => style.bg.value = <<OfBg(1), OfBg(2), OfBg(3)>>
          /\ (style.fg = NoColor <=> fgs = {}) /\ (style.bg = NoColor <=> bgs = {})

(* A terminal that reads the output draws every piece in the style of the  *)
(* call, with the piece's own over it, until the first piece that has one; *)
(* what follows is plain, for its reset ends the outer style too.  After   *)
(* the output the terminal is back to plain: no style leaks into the next  *)
(* line.  The style of the call is the union of its parts.                 *)
DrawnAsAsked ==
  LET words == {i \in DOMAIN buf : buf[i].text # 0}
      own   == {i \in words : PieceStyle(text[buf[i].text]) # Plain}
  IN CombiningIsUnion /\ (phase = "done" /\ ~ failed =>
       /\ After[Len(buf)] = Plain /\ Cardinality(words) = Len(text)
       /\ own = {} => \A i \in words : After[i] = style
       /\ \A i \in own :
            After[i] = Over(IF \E j \in own : j < i THEN Plain ELSE style,
                            PieceStyle(text[buf[i].text])))
==============================================================================
