---- MODULE FixParser ----
(***************************************************************************)
(* The parsers of one framed message: FieldTable (field_view.hpp),         *)
(* parse_header, validate_checksum and validate_body_length                *)
(* (consteval_parser.hpp), ParsedMessage and IndexedParserImpl             *)
(* (runtime_parser.hpp).  A message is its sequence of fields; cut says    *)
(* that the last field has no SOH.  A field whose tag is not a number has  *)
(* the tag BadTag.                                                         *)
(***************************************************************************)
EXTENDS MessageAssembler

CONSTANTS MAX_FIELDS,        \* ParsedMessage::MAX_FIELDS
          MAX_SOH,           \* SohPositions::MAX_POSITIONS
          MAX_TAG,           \* size of FieldTable's flat array
          WORD,              \* 2^32: the values of a uint32_t, and of an int
          MaxOverflow        \* FieldTable's room for larger tags

BadTag == -1
MIN_MESSAGE_SIZE == 20

HeaderTags == {8, 9, 35, 49, 56, 34, 52, 43, 97, 122}

Fail(code, t) == [ok |-> FALSE, error |-> code, tag |-> t]

\* tag.hpp: the counting tags of repeating groups and the members of each group.
GROUP_COUNT_TAGS == {146, 267, 268}
is_repeating_group_member_tag(count, t) ==
    CASE count = 146 -> t \in {48, 55, 207}
      [] count = 267 -> t = 269
      [] count = 268 -> t \in {55, 346, 290} \cup 269..273 \cup 276..279
      [] OTHER -> FALSE

-----------------------------------------------------------------------------
\* FieldTable: a flat array for tags below MAX_TAG, where a later field replaces
\* an earlier one, and a list for the others, where the first one is found.
EmptyTable == [entries |-> <<>>, overflow |-> <<>>, error |-> "None"]

First(fs, t) == IF \E i \in DOMAIN fs : fs[i].tag = t
                THEN fs[CHOOSE i \in DOMAIN fs : fs[i].tag = t /\ \A j \in 1..(i - 1) : fs[j].tag # t].v
                ELSE Empty
Last(fs, t) == IF \E i \in DOMAIN fs : fs[i].tag = t
               THEN fs[CHOOSE i \in DOMAIN fs : fs[i].tag = t /\ \A j \in (i + 1)..Len(fs) : fs[j].tag # t].v
               ELSE Empty
Has(fs, t) == \E i \in DOMAIN fs : fs[i].tag = t

\* A slip: the strict table looks for duplicates only in the flat array.
FieldTable_set_flat(table, f, strict, allow_dup) ==
    CASE f.tag \in 1..(MAX_TAG - 1) ->
           IF strict /\ ~allow_dup /\ Has(table.entries, f.tag)
           THEN [table EXCEPT !.error = "DuplicateTag"]
           ELSE [table EXCEPT !.entries = Append(@, f)]
      [] f.tag >= MAX_TAG -> [table EXCEPT !.overflow = Append(@, f)]
      [] OTHER -> table

FieldTable_set(table, f, strict, allow_dup) ==
    LET Dup(list) == strict /\ ~allow_dup /\ Has(list, f.tag)
    IN CASE f.tag \in 1..(MAX_TAG - 1) ->
              IF Dup(table.entries) THEN [table EXCEPT !.error = "DuplicateTag"]
              ELSE [table EXCEPT !.entries = Append(@, f)]
         [] f.tag >= MAX_TAG /\ Len(table.overflow) < MaxOverflow ->
              IF Dup(table.overflow) THEN [table EXCEPT !.error = "DuplicateTag"]
              ELSE [table EXCEPT !.overflow = Append(@, f)]
         [] f.tag <= 0 -> table
         [] OTHER -> [table EXCEPT !.error = "OverflowExhausted"]

FieldTable_get(table, t) == IF t \in 1..(MAX_TAG - 1) THEN Last(table.entries, t) ELSE First(table.overflow, t)
FieldTable_has(table, t) == Has(IF t \in 1..(MAX_TAG - 1) THEN table.entries ELSE table.overflow, t)

-----------------------------------------------------------------------------
\* The leading fields with header tags; each may occur once among them.
HeaderPart(fs) == LET n == CHOOSE n \in 0..Len(fs) :
                             /\ \A i \in 1..n : fs[i].tag \in HeaderTags
                             /\ n = Len(fs) \/ fs[n + 1].tag \notin HeaderTags
                  IN SubSeq(fs, 1, n)

\* A slip: a repeated header field replaces the first one.
HeaderRepeats_never(part, i) == FALSE

HeaderRepeats(part, i) == \E j \in 1..(i - 1) : part[j].tag = part[i].tag

FieldError(part, i) ==
    CASE HeaderRepeats(part, i) -> "DuplicateTag"
      [] part[i].tag = 9 /\ as_int(part[i].v) = NoInt -> "InvalidBodyLength"
      [] part[i].tag = 34 /\ as_uint(part[i].v) = NoInt -> "InvalidFieldFormat"
      [] OTHER -> "None"

RequiredHeader == <<8, 9, 35, 49, 56, 34>>

\* What a member of MessageHeader keeps of its field: the first character of MsgType, the number
\* modulo 2^32 for MsgSeqNum (uint32_t) and BodyLength (int), whether a flag is set, or the text.
HeaderMember(t, v) ==
    CASE t = 35 -> as_char(v)
      [] t = 34 -> Num(as_uint(v).n % WORD)
      [] t = 9 -> Num(((as_int(v).n + WORD \div 2) % WORD) - WORD \div 2)
      [] t \in {43, 97} -> as_bool(v)
      [] OTHER -> v

\* What the member holds when the field is absent.
NoMember(t) == HeaderMember(t, Empty)

parse_header(m) ==
    LET part == HeaderPart(m.fields)
        header == [t \in HeaderTags |-> HeaderMember(t, Last(part, t))]
        bad == {i \in DOMAIN part : FieldError(part, i) # "None"}
        next == Len(part) + 1
        missing == {i \in DOMAIN RequiredHeader : header[RequiredHeader[i]] = NoMember(RequiredHeader[i])}
    IN CASE SizeOf(m.fields) < MIN_MESSAGE_SIZE -> Fail("BufferTooShort", 0)
         [] SizeOf(m.fields) >= MIN_MESSAGE_SIZE /\ bad # {} ->
              Fail(FieldError(part, Min(bad)), part[Min(bad)].tag)
         [] SizeOf(m.fields) >= MIN_MESSAGE_SIZE /\ bad = {} /\
            (IF next > Len(m.fields) THEN m.cut ELSE m.fields[next].tag <= 0) -> Fail("InvalidFieldFormat", 0)
         [] OTHER -> IF missing # {} THEN Fail("MissingRequiredField", RequiredHeader[Min(missing)])
                     ELSE [ok |-> TRUE, header |-> header]

-----------------------------------------------------------------------------
\* The last field with tag 10; both validations search for it from the end.
TrailerAt(fs) == LET at == {i \in 2..Len(fs) : fs[i].tag = 10} IN IF at = {} THEN 0 ELSE Max(at)

\* A slip: the trailer's digits are not compared with the sum.
validate_checksum_unread(m) == IF TrailerAt(m.fields) = 0 THEN "MissingRequiredField" ELSE "None"

validate_checksum(m) ==
    LET at == TrailerAt(m.fields)
    IN CASE at = 0 -> "MissingRequiredField"
         [] at # 0 /\ m.fields[at].v # Num(calculate_checksum(SubSeq(m.fields, 1, at - 1))) -> "InvalidChecksum"
         [] OTHER -> "None"

\* A slip: the SOH in front of the trailer is not counted.
validate_body_length_short(m, declared) ==
    LET at == TrailerAt(m.fields)
        nine == {i \in 2..Len(m.fields) : m.fields[i].tag = 9}
    IN IF nine = {} \/ at <= Min(nine) + 1 THEN "MissingRequiredField"
       ELSE IF declared # SizeOf(SubSeq(m.fields, Min(nine) + 1, at - 1)) - 1 THEN "BodyLengthMismatch"
       ELSE "None"

validate_body_length(m, declared) ==
    LET at == TrailerAt(m.fields)
        nine == {i \in 2..Len(m.fields) : m.fields[i].tag = 9}
    IN IF nine = {} \/ at <= Min(nine) + 1 THEN "MissingRequiredField"
       ELSE IF declared # SizeOf(SubSeq(m.fields, Min(nine) + 1, at - 1)) THEN "BodyLengthMismatch"
       ELSE "None"

\* The fields that are recorded: those up to the first tag 10.
UpToCheckSum(fs) == IF Has(fs, 10) THEN SubSeq(fs, 1, Min({i \in DOMAIN fs : fs[i].tag = 10})) ELSE fs

-----------------------------------------------------------------------------
\* ParsedMessage::parse and get_field (the first field with the tag).
ParsedMessage_parse(m) ==
    LET h == parse_header(m)
        length == validate_body_length(m, h.header[9].n)
        rec == UpToCheckSum(m.fields)
        bad == {i \in DOMAIN rec : rec[i].tag = BadTag \/ i > MAX_FIELDS}
    IN IF m.cut THEN Fail("UnterminatedField", 0)
       ELSE IF ~h.ok THEN h
       ELSE IF length # "None" THEN Fail(length, 9)
       ELSE IF Len(m.fields) > MAX_SOH THEN Fail("FieldCountExceeded", 0)
       ELSE IF bad # {} THEN Fail(IF rec[Min(bad)].tag = BadTag THEN "InvalidTagNumber" ELSE "FieldCountExceeded", 0)
       ELSE IF validate_checksum(m) # "None" THEN Fail(validate_checksum(m), 10)
       ELSE [ok |-> TRUE, header |-> h.header, fields |-> rec]

ParsedMessage_get_field(p, t) == First(p.fields, t)

\* The repeating group whose fields are being read, as the strict parser follows it.
GroupAfter(group, t) == IF t \in GROUP_COUNT_TAGS THEN t
                        ELSE IF is_repeating_group_member_tag(group, t) THEN group ELSE 0

\* A slip: a group is never left.
GroupAfter_stays(group, t) == IF t \in GROUP_COUNT_TAGS THEN t ELSE group

\* The loop of IndexedParserImpl::parse over the recorded fields.
Indexed(rec, strict) ==
    LET Step[i \in 0..Len(rec)] ==
          IF i = 0 THEN [table |-> EmptyTable, group |-> 0]
          ELSE LET s == Step[i - 1]
                   g == GroupAfter(s.group, rec[i].tag)
               IN IF s.table.error # "None" THEN s
                  ELSE IF rec[i].tag <= 0 THEN [s EXCEPT !.table.error = "InvalidFieldFormat"]
                  ELSE [table |-> FieldTable_set(s.table, rec[i], strict, is_repeating_group_member_tag(g, rec[i].tag)),
                        group |-> g]
    IN Step[Len(rec)].table

IndexedParser_parse(m, strict) ==
    LET h == parse_header(m)
        length == validate_body_length(m, h.header[9].n)
        table == Indexed(UpToCheckSum(m.fields), strict)
    IN IF ~h.ok THEN h
       ELSE IF length # "None" THEN Fail(length, 9)
       ELSE IF table.error # "None" THEN Fail(table.error, 0)
       ELSE IF m.cut /\ ~Has(m.fields, 10) THEN Fail("UnterminatedField", 0)
       ELSE IF validate_checksum(m) # "None" THEN Fail(validate_checksum(m), 10)
       ELSE [ok |-> TRUE, header |-> h.header, table |-> table]
====
