----------------------------- MODULE PostParser -----------------------------
(***************************************************************************)
(* What the parser makes of a post (VisaSlotParser.parse, parser.py).      *)
(*                                                                         *)
(* The words of a post, its caption and the text read from its image, are  *)
(* abstracted to the pattern groups of parser.py they hit; an image is     *)
(* abstracted to the portal layout that media.py makes of the marks it     *)
(* finds in that text.  Of the signal, matched and available_state are     *)
(* kept: "open" is an alert, "closed" clears the availability, "noise"     *)
(* does neither.  Category, reason and locations are left out; the silent  *)
(* flag is Silent.                                                         *)
(***************************************************************************)
EXTENDS Naturals, Sequences

\* The pattern groups, in the order of parser.py.
Phrases == {"na", "spam", "booked", "positive", "suppress", "admin", "rule",
            "helper", "silent", "loud", "invalid", "question", "ghost",
            "ofcOnly", "required"}

\* What a sequence of tests with an early return each comes to: the first rule that
\* fits decides.
FirstFit(rules, otherwise) ==
  LET fits == {i \in DOMAIN rules : rules[i].when}
  IN IF fits = {} THEN otherwise
     ELSE rules[CHOOSE i \in fits : \A j \in fits : i <= j].gives

\* "none": no image; "unread": an image without a layout (not staged, no OCR).
UnbookableLayouts == {"ghost_or_unbookable", "unavailable_or_unknown"}
DoubtfulLayouts == {"partial_ofc_only", "potential_ghost"}
Layouts == {"none", "unread", "bookable"} \union UnbookableLayouts \union DoubtfulLayouts

\* What media.py looks for in the text of an image.  No text, no marks.
Marks == {"text", "calendar", "times", "count", "submit", "submitDisabled", "ofc",
          "consular", "ghost"}
Readable(marks) ==
  /\ marks # {} => "text" \in marks
  /\ "submitDisabled" \in marks => "submit" \in marks

\* PortalMediaAnalyzer.analyze: the rules in their order.
LayoutRules(marks) ==
  LET has(some) == some \subseteq marks
      rule(holds, layout) == [when |-> holds, gives |-> layout]
  IN << rule(has({"submitDisabled"}), "ghost_or_unbookable"),
        rule(has({"ghost"}), "potential_ghost"),
        rule(has({"ofc", "count"}) /\ ~has({"consular"}), "partial_ofc_only"),
        rule(has({"count"}) /\ (has({"calendar"}) \/ has({"times"})), "bookable"),
        rule(has({"times", "submit"}), "bookable"),
        rule(has({"calendar"}) /\ ~has({"times"}) /\ ~has({"count"}), "ghost_or_unbookable"),
        rule(has({"text"}), "unavailable_or_unknown") >>

LayoutOf(marks) == FirstFit(LayoutRules(marks), "unread")

Content == [says : SUBSET Phrases, layout : Layouts]

Says(c, some) == c.says \cap some # {}

\* has_ghost and is_ofc_only.
Ghost(c) == Says(c, {"ghost"}) \/ c.layout = "potential_ghost"
OfcOnly(c) == Says(c, {"ofcOnly"}) \/ c.layout = "partial_ofc_only"

\* What turns a post down, in the order of the early returns.
Vetoes(c) ==
  LET veto(holds, verdict) == [when |-> holds, gives |-> verdict]
  IN << veto(Says(c, {"na"}), "closed"),
        veto(Says(c, {"spam"}), "noise"),
        veto(Says(c, {"booked"}) /\ ~Says(c, {"positive"}), "noise"),
        veto(Says(c, {"suppress"}), "closed"),
        veto(Says(c, {"admin"}), "noise"),
        veto(Says(c, {"rule", "helper"})
               /\ ~Says(c, {"silent", "loud", "positive"}), "noise"),
        veto(Says(c, {"invalid"}), "closed"),
        veto(Says(c, {"question"}), "noise"),
        veto(c.layout \in UnbookableLayouts, "closed") >>

Doubtful(c) == Ghost(c) \/ OfcOnly(c)

\* What an image needs to be an alert, in its caption or its layout.
ImageOpens(c) ==
  Doubtful(c) \/ Says(c, {"positive", "loud"}) \/ c.layout = "bookable"

\* What a post without image needs: a subject and an announcement.
TextOpens(c) ==
  /\ Doubtful(c) \/ Says(c, {"required", "loud"})
  /\ Doubtful(c) \/ Says(c, {"positive", "loud", "silent"})

Opens(c) == IF c.layout = "none" THEN TextOpens(c) ELSE ImageOpens(c)

\* Mutant: an image that shows slots is an alert whatever the words say.
VerdictImageFirst(c) ==
  IF c.layout = "bookable" THEN "open"
  ELSE FirstFit(Vetoes(c), IF Opens(c) THEN "open" ELSE "noise")

\* parse: the first veto that holds, or else what the post has to show.
Verdict(c) == FirstFit(Vetoes(c), IF Opens(c) THEN "open" ELSE "noise")

\* The silent flag of an alert.
Silent(c) == Says(c, {"silent"}) /\ ~Says(c, {"loud"})

-----------------------------------------------------------------------------
(* What the order of the rules is for, over all contents.                  *)

Denials == {"na", "suppress", "invalid"}
Distractions == {"spam", "admin", "question"}

\* Whatever else a post says or shows: a denial, a portal without bookable
\* slots, spam, a rule of the group or a question is never an alert; an alert
\* rests on words or an image that announce slots; only a denial clears the
\* availability, and one that nothing distracts from does clear it.
Intended(c, verdict) ==
  LET denied == Says(c, Denials) \/ c.layout \in UnbookableLayouts
      shown == Doubtful(c) \/ c.layout = "bookable"
                 \/ Says(c, {"positive", "loud", "silent"})
  IN /\ denied \/ Says(c, Distractions) => verdict # "open"
     /\ verdict = "open" => shown
     /\ verdict = "closed" => denied
     /\ denied /\ ~Says(c, Distractions \union {"booked", "rule", "helper"})
          => verdict = "closed"

\* Whatever is read in an image: bookable rests on a time that can be submitted
\* or on a count beside a date or a time, and nothing in it speaks against that;
\* what shows neither a time nor a count opens nothing by itself, unless it speaks
\* of ghost slots; without text there is no layout ("missing OCR is fail-closed").
LayoutIntended(marks) ==
  LET layout == LayoutOf(marks)
  IN /\ layout = "bookable" =>
          /\ {"times", "submit"} \subseteq marks \/ "count" \in marks
          /\ marks \intersect {"calendar", "times"} # {}
          /\ marks \intersect {"submitDisabled", "ghost"} = {}
          /\ {"ofc", "count"} \subseteq marks => "consular" \in marks
     /\ marks \intersect {"times", "count", "ghost"} = {} =>
          layout \in UnbookableLayouts \union {"unread"}
     /\ "submitDisabled" \in marks => layout \in UnbookableLayouts
     /\ layout = "unread" <=> marks = {}

=============================================================================
