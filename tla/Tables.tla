------------------------------- MODULE Tables -------------------------------
(***************************************************************************)
(* The tables of the database, as the generated code has them: the         *)
(* fields of a data access object ("tbVoucher", dal/query) with their      *)
(* columns, and what the tags of a model ("TbVoucher", dal/model) tell     *)
(* gorm: the key, the columns MySQL fills by itself when they are left     *)
(* out, and the columns that hold a time.  From these follows which        *)
(* columns an INSERT names and whether MySQL takes it.                     *)
(***************************************************************************)
EXTENDS Functions

\* dal/query: Go field -> column.
tbShop ==
    [ID |-> "id", Name |-> "name", TypeID |-> "type_id", Images |-> "images",
     Area |-> "area", Address |-> "address", X |-> "x", Y |-> "y",
     AvgPrice |-> "avg_price", Sold |-> "sold", Comments |-> "comments",
     Score |-> "score", OpenHours |-> "open_hours",
     CreateTime |-> "create_time", UpdateTime |-> "update_time"]

tbShopType ==
    [ID |-> "id", Name |-> "name", Icon |-> "icon", Sort |-> "sort",
     CreateTime |-> "create_time", UpdateTime |-> "update_time"]

tbUser ==
    [ID |-> "id", Phone |-> "phone", Password |-> "password",
     NickName |-> "nick_name", Icon |-> "icon",
     CreateTime |-> "create_time", UpdateTime |-> "update_time"]

tbVoucher ==
    [ID |-> "id", ShopID |-> "shop_id", Title |-> "title",
     SubTitle |-> "sub_title", Rules |-> "rules", PayValue |-> "pay_value",
     ActualValue |-> "actual_value", Type |-> "type", Status |-> "status",
     CreateTime |-> "create_time", UpdateTime |-> "update_time"]

tbSeckillVoucher ==
    [VoucherID |-> "voucher_id", Stock |-> "stock",
     CreateTime |-> "create_time", BeginTime |-> "begin_time",
     EndTime |-> "end_time", UpdateTime |-> "update_time"]

tbBlog ==
    [ID |-> "id", ShopID |-> "shop_id", UserID |-> "user_id",
     Title |-> "title", Images |-> "images", Content |-> "content",
     Liked |-> "liked", Comments |-> "comments",
     CreateTime |-> "create_time", UpdateTime |-> "update_time"]

tbBlogComment ==
    [ID |-> "id", UserID |-> "user_id", BlogID |-> "blog_id",
     ParentID |-> "parent_id", AnswerID |-> "answer_id",
     Content |-> "content", Liked |-> "liked", Status |-> "status",
     CreateTime |-> "create_time", UpdateTime |-> "update_time"]

tbFollow ==
    [ID |-> "id", UserID |-> "user_id", FollowUserID |-> "follow_user_id",
     CreateTime |-> "create_time"]

tbSign ==
    [ID |-> "id", UserID |-> "user_id", Year |-> "year", Month |-> "month",
     Date |-> "date", IsBackup |-> "is_backup"]

tbUserInfo ==
    [UserID |-> "user_id", City |-> "city", Introduce |-> "introduce",
     Fans |-> "fans", Followee |-> "followee", Gender |-> "gender",
     Birthday |-> "birthday", Credits |-> "credits", Level |-> "level",
     CreateTime |-> "create_time", UpdateTime |-> "update_time"]

tbVoucherOrder ==
    [ID |-> "id", UserID |-> "user_id", VoucherID |-> "voucher_id",
     PayType |-> "pay_type", Status |-> "status",
     CreateTime |-> "create_time", PayTime |-> "pay_time",
     UseTime |-> "use_time", RefundTime |-> "refund_time",
     UpdateTime |-> "update_time"]

\* dal/model: the key, what MySQL fills in (defaults and AUTO_INCREMENT), and
\* the times.  gorm leaves a zero column of the second kind out.
Stamps == {"create_time", "update_time"}

TbShop ==
    [fields |-> tbShop, key |-> "id", filledIn |-> {"id"} \cup Stamps,
     times |-> Stamps]

TbShopType ==
    [fields |-> tbShopType, key |-> "id", filledIn |-> {"id"} \cup Stamps,
     times |-> Stamps]

TbUser ==
    [fields |-> tbUser, key |-> "id", filledIn |-> {"id"} \cup Stamps,
     times |-> Stamps]

TbVoucher ==
    [fields |-> tbVoucher, key |-> "id",
     filledIn |-> {"id", "status"} \cup Stamps, times |-> Stamps]

TbSeckillVoucher ==
    [fields |-> tbSeckillVoucher, key |-> "voucher_id",
     filledIn |-> {"begin_time", "end_time"} \cup Stamps,
     times |-> {"begin_time", "end_time"} \cup Stamps]

TbVoucherOrder ==
    [fields |-> tbVoucherOrder, key |-> "id",
     filledIn |-> {"pay_type", "status"} \cup Stamps,
     times |-> {"pay_time", "use_time", "refund_time"} \cup Stamps]

TbBlog ==
    [fields |-> tbBlog, key |-> "id", filledIn |-> {"id"} \cup Stamps,
     times |-> Stamps]

TbBlogComment ==
    [fields |-> tbBlogComment, key |-> "id", filledIn |-> {"id"} \cup Stamps,
     times |-> Stamps]

TbFollow ==
    [fields |-> tbFollow, key |-> "id", filledIn |-> {"id", "create_time"},
     times |-> {"create_time"}]

TbSign ==
    [fields |-> tbSign, key |-> "id", filledIn |-> {"id"},
     times |-> {"date"}]

TbUserInfo ==
    [fields |-> tbUserInfo, key |-> "user_id", filledIn |-> Stamps,
     times |-> {"birthday"} \cup Stamps]

\* The tables of the repositories, and those no repository uses yet.
Models ==
    [tb_shop |-> TbShop, tb_shop_type |-> TbShopType, tb_user |-> TbUser,
     tb_voucher |-> TbVoucher, tb_seckill_voucher |-> TbSeckillVoucher,
     tb_voucher_order |-> TbVoucherOrder, tb_blog |-> TbBlog,
     tb_blog_comments |-> TbBlogComment, tb_follow |-> TbFollow,
     tb_sign |-> TbSign, tb_user_info |-> TbUserInfo]

TableNames == DOMAIN Models

-----------------------------------------------------------------------------
Columns(model) == Range(model.fields)

(***************************************************************************)
(* The columns an INSERT names, and whether strict MySQL refuses it, for a *)
(* value whose nonzero columns are "given": gorm names every column that   *)
(* is not omitted and writes zeros, unless MySQL can fill the column in; a *)
(* zero time is '0000-00-00', which MySQL refuses; and a key it cannot     *)
(* fill in must be there.                                                  *)
(***************************************************************************)
Named(model, given, omitted) ==
    {c \in Columns(model) \ omitted : c \in given \/ c \notin model.filledIn}

Refused(model, given, omitted) ==
    \/ (Named(model, given, omitted) \cap model.times) \ given # {}
    \/ model.key \notin model.filledIn \cup given
=============================================================================
