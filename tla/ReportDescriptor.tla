-------------------------- MODULE ReportDescriptor --------------------------
(***************************************************************************)
(* parse_report_descriptor of fido2/hid/base.py, by which every backend    *)
(* tells a FIDO device and learns the sizes of its reports.  An item is a  *)
(* record of its key and value; the FIDO values of usage page and usage    *)
(* are 1, any other is 2, and 0 is the value the code takes for none.      *)
(***************************************************************************)
EXTENDS Integers, Sequences, FiniteSetsExt

NotRead == -1

\* what the loop carries from one item to the next
Start == [usage_page |-> NotRead, usage |-> NotRead, count |-> NotRead, size |-> NotRead,
          input |-> NotRead, output |-> NotRead, remaining |-> 4]

Unset(x) == x \in {NotRead, 0}

\* an input or an output item counts once its count and size are known, and
\* takes them with it
MainKeeping(s, key) ==
  IF s[key] = NotRead /\ s.count # NotRead /\ s.size # NotRead
  THEN [s EXCEPT ![key] = (s.count * s.size) \div 8, !["remaining"] = @ - 1] ELSE s
Main(s, key) ==
  IF s[key] = NotRead /\ s.count # NotRead /\ s.size # NotRead
  THEN [s EXCEPT ![key] = (s.count * s.size) \div 8, !["count"] = NotRead, !["size"] = NotRead,
                 !["remaining"] = @ - 1]
  ELSE s

Read(s, item) ==
  IF s.remaining = 0 THEN s
  ELSE CASE item.key \in {"input", "output"} -> Main(s, item.key)
         [] item.key \in {"usage_page", "usage"} ->
              IF Unset(s[item.key]) THEN [s EXCEPT ![item.key] = item.value, !["remaining"] = @ - 1] ELSE s
         [] item.key \in {"count", "size"} ->
              IF Unset(s[item.key]) THEN [s EXCEPT ![item.key] = item.value] ELSE s
         [] OTHER -> s

NotFido == [input |-> NotRead, output |-> NotRead]

\* what the loop carries after the first i items
Reading(items) ==
  LET upTo[i \in 0..Len(items)] == IF i = 0 THEN Start ELSE Read(upTo[i - 1], items[i])
  IN upTo

ParseReportDescriptor(items) ==
  LET s == Reading(items)[Len(items)] IN
  IF s.remaining = 0 /\ s.usage_page = 1 /\ s.usage = 1
  THEN [input |-> s.input, output |-> s.output] ELSE NotFido

-----------------------------------------------------------------------------
\* by the HID specification: the value last stated before the item
Stated(items, key, lo, hi) == {i \in lo..hi : items[i].key = key}
LastStated(items, key, at) ==
  LET stated == Stated(items, key, 1, at - 1) IN
  IF stated = {} THEN 0 ELSE items[Max(stated)].value
FirstItem(items, key) ==
  LET stated == Stated(items, key, 1, Len(items)) IN IF stated = {} THEN 0 ELSE Min(stated)

\* count and size are stated once before each of the two main items
StatedOnce(items, key, lo, hi) == \E i \in lo..hi : Stated(items, key, lo, hi) = {i}
Restated(items, one, two) ==
  \A key \in {"count", "size"} : StatedOnce(items, key, 1, one) /\ StatedOnce(items, key, one, two)

\* a device is one of FIDO by the first usage and usage page that say anything
Telling(items, key) == {i \in DOMAIN items : items[i].key = key /\ items[i].value # 0}
OfFido(items) ==
  \A key \in {"usage_page", "usage"} :
    Telling(items, key) # {} /\ items[Min(Telling(items, key))].value = 1

SizeStated(items, key) ==
  LET at == FirstItem(items, key)
  IN (LastStated(items, "count", at) * LastStated(items, "size", at)) \div 8

SizesAreStated(items) ==
  LET r == ParseReportDescriptor(items)
      input == FirstItem(items, "input")
      output == FirstItem(items, "output")
  IN /\ r # NotFido => OfFido(items)
     /\ /\ input # 0 /\ output # 0
        /\ IF input < output THEN Restated(items, input, output) ELSE Restated(items, output, input)
        /\ \A key \in {"usage_page", "usage"} :
             FirstItem(items, key) # 0 /\ items[FirstItem(items, key)].value = 1
        => r = [input |-> SizeStated(items, "input"), output |-> SizeStated(items, "output")]
=============================================================================
