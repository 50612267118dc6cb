--------------------------- MODULE EmbeddingCache ---------------------------
(***************************************************************************)
(* The embedding cache (indexing/embedding_cache.py): processes that share *)
(* one directory, each with a configuration of its own, resolve the        *)
(* embeddings of their inputs.  Every entry is written through a temporary *)
(* file whose name all writers of the entry share, so what is read may be  *)
(* torn; a hash over the payload tells.                                    *)
(***************************************************************************)
EXTENDS Integers, FiniteSets

CONSTANTS
  Embedders,  \* processes
  Configs,    \* what they may be configured with: [provider, model, scanned]
  Texts,      \* contents of the inputs
  Secrets,    \* the texts the secret scanner rejects
  BatchSize   \* embeddings asked for at once

ASSUME CacheAssumption ==
  /\ Secrets \subseteq Texts /\ IsFiniteSet(Texts)
  /\ \A c \in Configs : c.scanned \in BOOLEAN
  /\ BatchSize \in Nat \ {0}

VARIABLES
  names,    \* the directory: names[k].file and names[k].temp are inodes or NoInode
  inodes,   \* inodes[i]: what the file holds, and who opened it for writing
  embed     \* embed[p]: the process

cacheVars == <<names, inodes, embed>>

-----------------------------------------------------------------------------
\* make_embedding_cache_key.  The digest leaves out the provider, which is a
\* directory of its own; the sanitizer version tells whether texts are scanned.
Key(cfg, t) ==
  [provider |-> cfg.provider,
   digest |-> [model |-> cfg.model, text |-> t,
               sanitizer |-> IF cfg.scanned THEN "secret_scan" ELSE "disabled"]]

Keys == {Key(c, t) : c \in Configs, t \in Texts}

\* What a text resolves to: scan_text rejects it, or it has its embedding.
Skip == [skipped |-> TRUE, vector |-> <<>>]
Resolution(cfg, t) ==
  IF cfg.scanned /\ t \in Secrets THEN Skip
  ELSE [skipped |-> FALSE, vector |-> <<cfg.provider, cfg.model, t>>]

\* The payload of an entry and its artifact_hash, or what is left of it.
Torn == [whole |-> FALSE]
Payload(cfg, t) == [whole |-> TRUE, key |-> Key(cfg, t), value |-> Resolution(cfg, t)]

-----------------------------------------------------------------------------
\* The nth process to write an entry makes an inode of its own for it, unless
\* the temporary file is there already.
NoInode == <<>>
Inodes == Embedders \X Keys

Holds(k) == names[k].file # NoInode

\* Mutant: any JSON that can be read is taken for the entry.
UsableIfParsed(k) == Holds(k)

\* load: the hash covers the whole payload, and the payload names its key.
Usable(k) ==
  /\ Holds(k)
  /\ inodes[names[k].file].content.whole
  /\ inodes[names[k].file].content.key = k

Loaded(k) ==
  LET found == inodes[names[k].file].content IN IF found.whole THEN found.value ELSE [skipped |-> FALSE, vector |-> <<>>]

-----------------------------------------------------------------------------
(* prepare_cached_embeddings, for the distinct contents of the inputs.     *)

IdleEmbedder(cfg) ==
  [pc |-> "lookup", cfg |-> cfg, todo |-> Texts, pending |-> {}, saving |-> {},
   result |-> <<>>, text |-> "none", fd |-> NoInode]

\* resolved_entries, with new ones.
Learn(result, new) ==
  [t \in DOMAIN new \cup DOMAIN result |-> IF t \in DOMAIN new THEN new[t] ELSE result[t]]

Lookup(p) ==
  /\ embed[p].pc = "lookup" /\ embed[p].todo # {}
  /\ \E t \in embed[p].todo :
       LET k == Key(embed[p].cfg, t)
       IN embed' = [embed EXCEPT ![p].todo = @ \ {t},
                      ![p].pending = IF Usable(k) THEN @ ELSE @ \cup {t},
                      ![p].result = IF Usable(k) THEN Learn(@, [u \in {t} |-> Loaded(k)]) ELSE @]
  /\ UNCHANGED <<names, inodes>>

\* Scanned texts are saved as skipped, the others are embedded batch by batch.
Resolve(p) ==
  /\ embed[p].pc = "lookup" /\ embed[p].todo = {} /\ embed[p].pending # {}
  /\ LET cfg == embed[p].cfg
         skipped == {t \in embed[p].pending : Resolution(cfg, t) = Skip}
     IN \E batch \in (IF skipped # {} THEN {{t} : t \in skipped} ELSE SUBSET embed[p].pending) :
          /\ batch # {} /\ Cardinality(batch) <= BatchSize
          /\ embed' = [embed EXCEPT ![p].pc = "save", ![p].pending = @ \ batch,
                         ![p].saving = batch,
                         ![p].result = Learn(@, [t \in batch |-> Resolution(cfg, t)])]
  /\ UNCHANGED <<names, inodes>>

\* _save: write_text opens the temporary file, writes it, closes it.
OpenTemporary(p) ==
  /\ embed[p].pc = "save"
  /\ \E t \in embed[p].saving :
       LET k == Key(embed[p].cfg, t)
           inode == IF names[k].temp = NoInode THEN <<p, k>> ELSE names[k].temp
           writers == IF names[k].temp = NoInode THEN {p} ELSE inodes[inode].writers \cup {p}
       IN /\ names' = [names EXCEPT ![k].temp = inode]
          /\ inodes' = [inodes EXCEPT ![inode] = [content |-> Torn, writers |-> writers]]
          /\ embed' = [embed EXCEPT ![p].pc = "write", ![p].text = t, ![p].fd = inode]

\* What two processes write into one file may get mixed.
WriteTemporary(p) ==
  /\ embed[p].pc = "write"
  /\ LET file == inodes[embed[p].fd]
         own == Payload(embed[p].cfg, embed[p].text)
     IN \E content \in {own} \cup (IF file.writers = {p} THEN {} ELSE {Torn}) :
          inodes' = [inodes EXCEPT ![embed[p].fd].content = content]
  /\ embed' = [embed EXCEPT ![p].pc = "replace", ![p].fd = NoInode]
  /\ UNCHANGED names

\* If another process has already moved the file, the entry is not stored.
ReplaceEntry(p) ==
  /\ embed[p].pc = "replace"
  /\ LET k == Key(embed[p].cfg, embed[p].text)
     IN names' = IF names[k].temp = NoInode THEN names
                 ELSE [names EXCEPT ![k] = [file |-> names[k].temp, temp |-> NoInode]]
  /\ embed' = [embed EXCEPT ![p].saving = @ \ {embed[p].text}, ![p].text = "none",
                 ![p].pc = IF embed[p].saving = {embed[p].text} THEN "lookup" ELSE "save"]
  /\ UNCHANGED inodes

EndEmbedding(p) ==
  /\ embed[p].pc = "lookup" /\ embed[p].todo \cup embed[p].pending = {}
  /\ embed' = [embed EXCEPT ![p].pc = "done"]
  /\ UNCHANGED <<names, inodes>>

CrashEmbedder(p) ==
  /\ embed[p].pc \notin {"done", "dead"}
  /\ embed' = [embed EXCEPT ![p].pc = "dead", ![p].fd = NoInode]
  /\ UNCHANGED <<names, inodes>>

CacheInit ==
  /\ names = [k \in Keys |-> [file |-> NoInode, temp |-> NoInode]]
  /\ inodes = [i \in Inodes |-> [content |-> Torn, writers |-> {}]]
  /\ \E cfgs \in [Embedders -> Configs] : embed = [p \in Embedders |-> IdleEmbedder(cfgs[p])]

CacheNext ==
  \E p \in Embedders :
    \/ Lookup(p) \/ Resolve(p) \/ OpenTemporary(p) \/ WriteTemporary(p)
    \/ ReplaceEntry(p) \/ EndEmbedding(p) \/ CrashEmbedder(p)

-----------------------------------------------------------------------------
\* Whatever other processes, configured as they may be, write to the same
\* names, and wherever they stop: a process gets for each text what its own
\* scanner and its own model make of it.
CacheTellsTruth ==
  \A p \in Embedders : \A t \in DOMAIN embed[p].result :
    embed[p].result[t] = Resolution(embed[p].cfg, t)
=============================================================================
